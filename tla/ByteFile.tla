------------------------------ MODULE ByteFile ------------------------------
(***************************************************************************)
(* What an open file promises its user: a sequence of bytes and a          *)
(* position.  The calls of kernel/stdfs.h act on these alone; where the    *)
(* bytes are kept (a sector cache, clusters, a table) cannot be seen.      *)
(***************************************************************************)
EXTENDS Integers, Sequences

CONSTANTS Byte, MaxSize

VARIABLES
  content,    \* the bytes of the file
  pos,        \* the position, before byte pos + 1
  phase       \* "closed", "open", "failed" after a call that did not do all it
              \* was asked (it returns an error or a short count), "lost" after
              \* a close that could not write

fileVars == <<content, pos, phase>>

Contents == UNION {[1..n -> Byte] : n \in 0..MaxSize}

Init == content = <<>> /\ pos = 0 /\ phase = "closed"

Open ==
  /\ phase = "closed" /\ phase' = "open" /\ pos' = 0
  /\ content' \in {content, <<>>}                    \* O_TRUNC

\* n bytes replace what is after the position, or extend the file.
Write ==
  /\ phase = "open" /\ phase' = "open"
  /\ pos' > pos
  /\ SubSeq(content', 1, pos) = SubSeq(content, 1, pos)
  /\ SubSeq(content', pos' + 1, Len(content')) = SubSeq(content, pos' + 1, Len(content))
  /\ Len(content') = IF pos' > Len(content) THEN pos' ELSE Len(content)
  \* the bytes of one call are equal: enough to tell them from the others
  /\ \A i \in (pos + 1)..pos' : content'[i] = content'[pos'] /\ content'[i] \in Byte

Read == phase = "open" /\ pos' \in pos..Len(content) /\ UNCHANGED <<content, phase>>
Seek == phase = "open" /\ pos' \in 0..Len(content) /\ UNCHANGED <<content, phase>>

\* truncate at the position
Cut == /\ phase = "open" /\ content' = SubSeq(content, 1, pos)
       /\ UNCHANGED <<pos, phase>>

Close == phase = "open" /\ phase' = "closed" /\ pos' = 0 /\ UNCHANGED content

\* A call that fails for want of space leaves what is before the position.
Fail ==
  /\ phase = "open" /\ phase' = "failed" /\ UNCHANGED pos
  /\ Len(content') >= pos
  /\ SubSeq(content', 1, pos) = SubSeq(content, 1, pos)

\* A file closed after a failure, or by a close that found no space: the
\* caller is told nothing and nothing is promised of the content.
Lose == phase \in {"open", "failed"} /\ phase' = "lost"

Next == Open \/ Write \/ Read \/ Seek \/ Cut \/ Close \/ Fail \/ Lose

Spec == Init /\ [][Next]_fileVars
=============================================================================
