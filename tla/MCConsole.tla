------------------------------ MODULE MCConsole ------------------------------
(* Numbers of 5 bits, a section of 2 columns and 2 rows with one line to spare. *)
EXTENDS Console

MCCharacters == Range(Chars) \cup {"-", "%", "(", "n", ")", "T", "!", "tab", " ", "a", "p", "S",
                                   Newline}
MCTitle == <<"T">>
MCPrefix == [STD_PRINT |-> <<>>, LOG_INFO |-> <<"!">>]

Msg(type, fmt) == [type |-> type, fmt |-> fmt]
Item(kind, arg) == [kind |-> kind, arg |-> arg]

MCEarly == {Msg("LOG_INFO", <<Item("d", v), Item("c", Newline)>>) : v \in Int_t}
             \cup {Msg("STD_PRINT", <<Item(k, v)>>) : k \in {"u", "x"}, v \in Word}

MCMessages ==
    [main |-> {Msg("LOG_INFO", <<Item("u", 10), Item("c", Newline)>>),
               Msg("STD_PRINT", <<Item("unknown", "tab"), Item("s", <<" ">>), Item("%", 0)>>)},
     ap   |-> {Msg("STD_PRINT", <<Item("s", <<"a", Newline, "p">>)>>)},
     sci  |-> {Msg("STD_PRINT", <<Item("c", "S"), Item("c", Newline)>>),
               Msg("STD_PRINT", <<Item("s", Null)>>)}]

MCMaxPrints == [main |-> 2, ap |-> 1, sci |-> 1]
=============================================================================
