------------------------------- MODULE Generator -------------------------------
(***************************************************************************)
(* The password and passphrase generator (crypto-core/src/generator) and   *)
(* its commands.  Symbols and words are numbers; the separator of a        *)
(* passphrase is left out.  A length is what serde takes for a usize: 0    *)
(* also stands for the inputs it refuses, which end in the same error.     *)
(***************************************************************************)
EXTENDS Integers, Sequences

CONSTANTS
    WordMax,     \* u32::MAX
    Symbols,     \* LOWERCASE, UPPERCASE, DIGITS and SYMBOLS in a row
    ClassOf,     \* the class of each symbol
    Ambiguous,   \* symbols that exclude_ambiguous takes out
    Wordlist     \* the lines of the wordlist of each language

ASSUME GeneratorAssumption == WordMax \in Nat

\* Mutant: every value that is drawn is accepted.
LimitAll(bound) == WordMax + 1

\* random_index: a value from the limit on is drawn again.
Limit(bound) == WordMax - (WordMax % bound)
Accepted(bound) == {val \in 0 .. WordMax : val < Limit(bound)}
RandomIndex(bound) == {val % bound : val \in Accepted(bound)}

Charset(policy) ==
    SelectSeq(Symbols, LAMBDA s : /\ ClassOf[s] \in policy.classes
                                  /\ policy.excludeAmbiguous => s \notin Ambiguous)

Entries(policy) ==
    IF policy.tab = "password" THEN Charset(policy) ELSE Wordlist[policy.lang]
Size(policy) == IF policy.tab = "password" THEN policy.length ELSE policy.words

\* What generate_password and generate_passphrase may return; nothing stands
\* for InvalidInput.
Generated(policy) ==
    LET entries == Entries(policy)
    IN  IF Size(policy) = 0 \/ entries = <<>> THEN {}
        ELSE {[k \in 1 .. Size(policy) |-> entries[index[k] + 1]] :
                index \in [1 .. Size(policy) -> RandomIndex(Len(entries))]}
=============================================================================
