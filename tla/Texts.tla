-------------------------------- MODULE Texts --------------------------------
(***************************************************************************)
(* The texts that the pure functions of the repository read, and the loops *)
(* those functions are.  A text is written piece by piece; what the pieces *)
(* are, and what they mean, is said where they are read: Transformations,  *)
(* Paths, RuleText, Macros.                                                *)
(***************************************************************************)
EXTENDS Integers, Sequences, SequencesExt, FiniteSets

CONSTANT Palettes    (* a sequence of [reader, pieces, max]: what reads the  *)
                     (* text, its pieces, and a bound on their number        *)

VARIABLES palette,   (* which of them is in use                              *)
          text

vars == <<palette, text>>

Init == palette \in DOMAIN Palettes /\ text = <<>>

(* One piece more is written. *)
Write(p) == Len(text) < Palettes[palette].max /\ text' = Append(text, p) /\ UNCHANGED palette

Next == \E p \in Palettes[palette].pieces : Write(p)

Spec == Init /\ [][Next]_vars

(* What reads the text that is written. *)
Reader == Palettes[palette].reader
-----------------------------------------------------------------------------
Drop(s, n) == SubSeq(s, n + 1, Len(s))

StartsWith(s, prefix) == Len(s) >= Len(prefix) /\ SubSeq(s, 1, Len(prefix)) = prefix

(* What stands before and after the first c in s; all before without one:   *)
(* strings.Cut.                                                             *)
Cut(s, c) ==
    LET i == CHOOSE k \in 1..(Len(s) + 1) : (k = Len(s) + 1 \/ s[k] = c) /\ \A j \in 1..(k - 1) : s[j] # c
    IN  <<SubSeq(s, 1, i - 1), Drop(s, i)>>

(* The state in which a loop leaves that takes so many turns at most, and   *)
(* ends when nothing is left to read: half of the turns after the other     *)
(* half, which keeps the recursion shallow.                                 *)
Turns(Body(_), start, most) ==
    LET RECURSIVE Run(_, _)
        Run(n, st) == IF n = 0 \/ st.rest = <<>> THEN st
                      ELSE IF n = 1 THEN Body(st)
                      ELSE Run(n - n \div 2, Run(n \div 2, st))
    IN  Run(most, start)

(* strings.ToLower, on characters or words: "K" is one with capitals. *)
ToLower(s) == [i \in DOMAIN s |-> IF s[i] = "K" THEN "k" ELSE s[i]]

(* What a function that can fail returns. *)
Ok(res)  == [err |-> FALSE, res |-> res]
Error    == [err |-> TRUE, res |-> <<>>]
Panicked == [err |-> TRUE, res |-> <<"panic">>]
=============================================================================
