--------------------------- MODULE MCGeneratorScreen ---------------------------
(* Two classes, of which one has ambiguous symbols only, and two wordlists. *)
EXTENDS GeneratorScreen

McSymbols == <<1, 2>>
McClassOf == <<"lower", "digits">>
McWordlist == [en |-> <<11, 12, 13>>, it |-> <<14>>]
McDefaultPolicy == [tab |-> "password", length |-> 1, words |-> 1,
                    classes |-> {"lower", "digits"}, excludeAmbiguous |-> FALSE, lang |-> "it"]
=============================================================================
