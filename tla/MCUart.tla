------------------------------- MODULE MCUart -------------------------------
EXTENDS Uart

\* Bytes that are told apart from the terminator 0 and the type 4.
MCNumbers == {<<0, 4, 1, 0>>, <<1, 0, 0, 4>>}
MCStrings == {<<0>>, <<4, 1, 0>>}
MCInputs == {<<1, 2, 3, 0>>}

\* A header with a comment, a blank line, and an input that comes too late;
\* and one whose second line of inputs has none.
Line(kind, tokens) == [kind |-> kind, tokens |-> tokens]

MCHeaders ==
    {<<Line("comment", <<>>), Line("input", <<<<65>>>>), Line("blank", <<>>),
       Line("input", <<<<1, 2, 3, 0>>, <<65>>>>), Line("code", <<>>), Line("input", <<<<65>>>>)>>,
     <<Line("input", <<<<65>>>>), Line("input", <<>>)>>}
=============================================================================
