----------------------------- MODULE IssueMerge -----------------------------
(***************************************************************************)
(* The functions of machine/api/v1/module.py that merge what an analysis   *)
(* found into a student's issues and achievements.  An issue is its type,  *)
(* its description and its frequency, an achievement its type and          *)
(* description; an analysis is the lists that the language model returned. *)
(* Lists are sequences; the dictionaries that index them are functions.    *)
(***************************************************************************)
EXTENDS Naturals, SequencesExt, Collections

Raised == <<[type |-> "raised", description |-> "raised", frequency |-> 0]>>

KeyOf(issue)  == <<issue.type, issue.description>>
Keys(list)    == {KeyOf(list[i]) : i \in DOMAIN list}
Distinct(list) == Cardinality(Keys(list)) = Len(list)

\* existing_issues: the last index of each key, as the list was before anything is popped.
LastIndex(list, key) == SelectLastInSeq(list, LAMBDA e : KeyOf(e) = key)

\* How often an index is to be popped: a resolved issue listed twice gives its index twice.
Mentions(list, resolved, i) ==
    Cardinality({k \in DOMAIN resolved : LastIndex(list, KeyOf(resolved[k])) = i})

\* list.pop(i), n times over, which raises beyond the end.
Pop(list, i, n) ==
    IF n = 0 THEN list
    ELSE IF list = Raised \/ i + n - 1 > Len(list) THEN Raised
    ELSE SubSeq(list, 1, i - 1) \o SubSeq(list, i + n, Len(list))

\* What is resolved is popped by the indices in descending order.
Remaining(list, resolved) ==
    FoldLeft(LAMBDA l, i : Pop(l, i, Mentions(list, resolved, i)), list,
             [j \in DOMAIN list |-> Len(list) + 1 - j])

\* One new issue: found by the index it had before the pops, or appended.
AddIssue(before, list, issue) ==
    LET i == LastIndex(before, KeyOf(issue))
    IN  IF list = Raised THEN Raised
        ELSE IF i = 0 THEN Append(list, issue)
        ELSE IF i > Len(list) THEN Raised
        ELSE [list EXCEPT ![i].frequency = @ + issue.frequency]

\* Mutant: what is resolved stays.
process_issues_NeverResolves(list, new, resolved) ==
    FoldLeft(LAMBDA l, e : AddIssue(list, l, e), list, new)

process_issues(list, new, resolved) ==
    FoldLeft(LAMBDA l, e : AddIssue(list, l, e), Remaining(list, resolved), new)

Resolution(issue) == [type |-> "issue_resolution", description |-> issue.description]

\* What was not earned before is added, however often the analysis lists it.
process_achievements(earned, new, resolved) ==
    LET all == new \o [i \in DOMAIN resolved |-> Resolution(resolved[i])]
    IN  FoldLeft(LAMBDA l, e : IF KeyOf(e) \in Keys(earned) THEN l ELSE Append(l, e), earned, all)

-----------------------------------------------------------------------------
(* What they should compute: issues as a function from keys to frequencies. *)

Frequencies(list)    == [i \in DOMAIN list |-> list[i].frequency]
Frequency(list, key) == TotalOf(Frequencies(list), {i \in DOMAIN list : KeyOf(list[i]) = key})

\* The issues that were there and are not resolved, and the new ones.
Merged(list, new, resolved) ==
    [k \in (Keys(list) \ Keys(resolved)) \cup Keys(new) |->
        Frequency(new, k) + IF k \in Keys(resolved) THEN 0 ELSE Frequency(list, k)]

AsFunction(list) == [k \in Keys(list) |-> Frequency(list, k)]

\* Nothing is listed twice, and no issue is popped that others are found by index after.
Unambiguous(list, new, resolved) ==
    /\ Distinct(list) /\ Distinct(new) /\ Distinct(resolved)
    /\ Keys(list) \cap Keys(resolved) = {} \/ Keys(list) \cap Keys(new) = {}

=============================================================================
