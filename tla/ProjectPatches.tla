--------------------------- MODULE ProjectPatches ---------------------------
(***************************************************************************)
(* Patches a model proposes for a project file and a user confirms:        *)
(* infrastructure/projects/project_document_tool_service.py over           *)
(* ProjectService.read_file and write_file.  Neither waits between reading *)
(* and writing, so a proposal and a confirmation are one step each.        *)
(*                                                                         *)
(* A file is [lines, ended]: its lines, and whether the last one ends with *)
(* a newline.  A hunk is [start, ops]: the line it names, and what it      *)
(* keeps (" "), removes ("-") and adds ("+").  Paths, fuzzy matching of    *)
(* lines and the shape of a diff are left out: a diff that cannot be       *)
(* parsed is the same as none.                                             *)
(***************************************************************************)
EXTENDS Naturals, Sequences, SequencesExt

CONSTANTS None,
          Lines,      \* what a line may say
          MaxLines,   \* bound: lines of a file
          MaxPatches, \* bound: patches proposed
          TTL         \* pending_ttl_seconds, in clock ticks

VARIABLES file,    \* what the file holds
          patches, \* PendingPatchStore: per patch id None, or the pending patch
          age,     \* per patch: how old it is
          ids,     \* how many were proposed
          astray   \* history: a confirmation wrote something else than was meant

vars == <<file, patches, age, ids, astray>>

Patches == 1..MaxPatches
Texts == UNION {[1..n -> Lines] : n \in 0..MaxLines}
Files == [lines : Texts, ended : {TRUE}] \cup [lines : Texts \ {<<>>}, ended : {FALSE}]

Init ==
    /\ file \in Files
    /\ patches = [p \in Patches |-> None] /\ age = [p \in Patches |-> 0]
    /\ ids = 0 /\ astray = FALSE

-----------------------------------------------------------------------------
(* Applying a diff *)

Op(sign, text) == [sign |-> sign, text |-> text]
Old(hunk) == SelectSeq(hunk.ops, LAMBDA op : op.sign # "+")

\* _hunk_matches_at; positions count from 0, as in the code.
MatchesAt(lines, start, hunk) ==
    \A i \in 1..Len(Old(hunk)) : start + i <= Len(lines) /\ lines[start + i] = Old(hunk)[i].text

\* _resolve_hunk_start: where the hunk says, or else at the only place left where it
\* matches, or nowhere; first a faulty one that takes the first such place.
Candidates(lines, cursor, hunk) ==
    {k \in cursor..Len(lines) : k + Len(Old(hunk)) <= Len(lines) /\ MatchesAt(lines, k, hunk)}
FirstMatch(lines, cursor, expected, hunk) ==
    LET places == Candidates(lines, cursor, hunk)
    IN  IF places = {} THEN None ELSE CHOOSE k \in places : \A j \in places : k <= j
HunkStart(lines, cursor, expected, hunk) ==
    LET places == Candidates(lines, cursor, hunk)
    IN  CASE expected < cursor -> None
          [] expected >= cursor /\ (MatchesAt(lines, expected, hunk) \/ Old(hunk) = <<>>)
               -> expected
          [] OTHER -> IF \E k \in places : places = {k} THEN CHOOSE k \in places : TRUE ELSE None

\* _apply_parsed_diff: [text, cursor], or None where it raises.  Text is a sequence of
\* lines and ends of lines; a kept line brings its own end, if it has one, and an added
\* line always has one.
NL == "\n"
Kept(source, k) == IF k = Len(source.lines) /\ ~source.ended
                   THEN <<source.lines[k]>> ELSE <<source.lines[k], NL>>
Copied(source, from, to) == FoldLeft(LAMBDA text, k : text \o Kept(source, k), <<>>,
                                     [i \in 1..(to - from) |-> from + i])
Step(source, state, op) ==
    CASE op.sign = " " -> [text |-> state.text \o Kept(source, state.cursor + 1),
                           cursor |-> state.cursor + 1]
      [] op.sign = "-" -> [state EXCEPT !.cursor = @ + 1]
      [] op.sign = "+" -> [state EXCEPT !.text = @ \o <<op.text, NL>>]

Least(a, b) == IF a < b THEN a ELSE b
ApplyHunk(source, state, hunk) ==
    LET expected == IF hunk.start = 0 THEN 0 ELSE hunk.start - 1
        start == HunkStart(source.lines, state.cursor, expected, hunk)
        there == Least(start, Len(source.lines))
    IN  IF start = None THEN None
        ELSE FoldLeft(LAMBDA s, op : Step(source, s, op),
                      [text |-> state.text \o Copied(source, state.cursor, there), cursor |-> start],
                      hunk.ops)

ApplyDiff(source, hunks) ==
    LET end == FoldLeft(LAMBDA s, hunk : IF s = None THEN None ELSE ApplyHunk(source, s, hunk),
                        [text |-> <<>>, cursor |-> 0], hunks)
    IN  IF end = None THEN None
        ELSE end.text \o Copied(source, Least(end.cursor, Len(source.lines)), Len(source.lines))

Text(source) == Copied(source, 0, Len(source.lines))

-----------------------------------------------------------------------------
(* Diffs, as diff -U0 and -U1 make them, with a wrong line number perhaps *)

Common(a, b) == CHOOSE k \in 0..Least(Len(a), Len(b)) :
    /\ \A i \in 1..k : a[i] = b[i]
    /\ k = Least(Len(a), Len(b)) \/ a[k + 1] # b[k + 1]

\* One hunk for everything between the common start and the common end.
Hunk(old, new, context) ==
    LET head == Common(old, new)
        tail == Common(Reverse(SubSeq(old, head + 1, Len(old))), Reverse(SubSeq(new, head + 1, Len(new))))
        before == Least(head, context)
        after == Least(tail, context)
        ops(lines, from, to, sign) == [i \in 1..(to - from) |-> Op(sign, lines[from + i])]
        length == Len(old) - tail - head + before + after
    IN  [start |-> IF length = 0 THEN head ELSE head - before + 1,
         ops |-> ops(old, head - before, head, " ") \o ops(old, head, Len(old) - tail, "-")
                 \o ops(new, head, Len(new) - tail, "+")
                 \o ops(old, Len(old) - tail, Len(old) - tail + after, " ")]

\* What a patch is good for: the line number is right, or the lines it names are only
\* there once; there are such lines; and nothing comes after a last line without an end.
Clear(source, hunk, right) ==
    /\ Old(hunk) # <<>> /\ source.ended
    /\ right \/ \E k \in Candidates(source.lines, 0, hunk) : Candidates(source.lines, 0, hunk) = {k}

-----------------------------------------------------------------------------
(* Proposing and confirming *)

Valid(p) == patches[p] # None /\ age[p] <= TTL

\* _apply_diff_for_file: the file is as the model read it.  The patch goes into the store,
\* and what has expired leaves it.  meant is the text the model has in mind, or None for a
\* patch that is not clear.
Propose(new, context, shift) ==
    LET hunk == Hunk(file.lines, new, context)
        start == IF shift = "back" /\ hunk.start > 0 THEN hunk.start - 1
                 ELSE IF shift = "on" THEN hunk.start + 1 ELSE hunk.start
        text == ApplyDiff(file, <<[hunk EXCEPT !.start = start]>>)
        meant == IF Clear(file, hunk, start = hunk.start)
                 THEN Text([lines |-> new, ended |-> TRUE]) ELSE None
    IN  /\ new # file.lines
        /\ ids < MaxPatches
        /\ IF text = None THEN UNCHANGED <<patches, ids>>
           ELSE /\ ids' = ids + 1
                /\ patches' = [q \in Patches |->
                      CASE q = ids + 1 -> [base |-> Text(file), text |-> text, meant |-> meant]
                        [] q # ids + 1 /\ Valid(q) -> patches[q]
                        [] OTHER -> None]
        /\ astray' = (astray \/ (text = None /\ meant # None))
        /\ UNCHANGED <<file, age>>

\* Whether the file is still the one the patch is for; first a faulty check for length.
SameLength(p) == Len(patches[p].base) = Len(Text(file))
SameContent(p) == patches[p].base = Text(file)

\* confirm_pending_patch_apply: the patch is consumed, then written.
Confirm(p) ==
    /\ Valid(p) /\ SameContent(p)
    /\ patches' = [patches EXCEPT ![p] = None]
    /\ \E f \in Files : Text(f) = patches[p].text /\ file' = f
    /\ astray' = (astray \/ (patches[p].meant # None /\ patches[p].text # patches[p].meant)
                         \/ patches[p].base # Text(file))
    /\ UNCHANGED <<age, ids>>

\* A patch that is looked at after it expired goes.
Expire(p) ==
    /\ patches[p] # None /\ ~Valid(p)
    /\ patches' = [patches EXCEPT ![p] = None]
    /\ UNCHANGED <<file, age, ids, astray>>

\* write_file with the hash the user's editor read, and other programs.
Edit(f) == file # f /\ file' = f /\ UNCHANGED <<patches, age, ids, astray>>

Tick ==
    /\ \E p \in Patches : Valid(p)
    /\ age' = [p \in Patches |-> IF Valid(p) THEN age[p] + 1 ELSE age[p]]
    /\ UNCHANGED <<file, patches, ids, astray>>

Next ==
    \/ \E new \in Texts, context \in {0, 1}, shift \in {"back", "no", "on"} :
          Propose(new, context, shift)
    \/ \E p \in Patches : Confirm(p) \/ Expire(p)
    \/ \E f \in Files : Edit(f)
    \/ Tick

Spec == Init /\ [][Next]_vars

-----------------------------------------------------------------------------
(* Properties *)

\* A confirmed patch turns the file the model had read into the one it meant, whatever
\* was edited in the meantime and wherever the lines are that it names, as long as the
\* patch is clear; and a clear patch is not refused.
PatchesDoWhatIsMeant == ~astray
=============================================================================
