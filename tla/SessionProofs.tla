---------------------------- MODULE SessionProofs ----------------------------
(***************************************************************************)
(* Proofs about SessionLog, for any number of sessions, stage names and     *)
(* widths: the types, that what is left of the lines brackets the sessions, *)
(* that no reader is shown an end a session did not have, and how many      *)
(* lines the failures of the writes can cost; and about RunView's bill and  *)
(* page.                                                                    *)
(***************************************************************************)
EXTENDS RunView, FiniteSetTheorems, SequenceTheorems, WellFoundedInduction, TLAPS

-----------------------------------------------------------------------------
(* The inductive invariant. *)

Line == [event : {"started", "ended"}, sid : Sid, stage : Stages,
         failed : BOOLEAN, cost : Costs \cup {NoCost}]

\* There are session ids for the sessions the stage has still to open.
Room ==
    /\ pc = "idle" => stack = <<>>
    /\ pc # "idle" => width \in Widths
    /\ pc = "entering" => /\ Len(stack) < width
                          /\ next + (width - Len(stack)) <= MaxSessions + 1
    /\ pc = "checking" => /\ 0 < Len(stack)
                          /\ next + (width - Len(stack)) <= MaxSessions + 1

\* The sessions held were opened in the order of the stack, and none after them.
Nested ==
    /\ \A a \in DOMAIN stack : stack[a] < next /\ fate[stack[a]] = "open"
    /\ \A a, b \in DOMAIN stack : a < b => stack[a] < stack[b]

\* The lines of a session, and of two sessions, are in order.
InOrder ==
    /\ \A i, j \in DOMAIN lines :
        /\ lines[i].sid = lines[j].sid /\ i < j =>
              lines[i].event = "started" /\ lines[j].event = "ended"
        /\ lines[i].event = "started" /\ lines[j].event = "started" /\ i < j =>
              lines[i].sid < lines[j].sid
    /\ \A i, j, m, n \in DOMAIN lines :
        /\ lines[i].event = "started" /\ lines[j].event = "started" /\ i < j
        /\ lines[m].event = "ended" /\ lines[m].sid = lines[i].sid
        /\ lines[n].event = "ended" /\ lines[n].sid = lines[j].sid
        /\ j < m
        => n < m

\* The lines know no later session, no end of one that is held, and since one
\* that is held began only ends of sessions inside it.
OfTheHeld ==
    /\ \A i \in DOMAIN lines : lines[i].sid < next
    /\ \A a \in DOMAIN stack, m \in DOMAIN lines : lines[m].event = "ended" =>
        /\ lines[m].sid # stack[a]
        /\ \A j \in DOMAIN lines :
              lines[j].event = "started" /\ lines[j].sid = stack[a] /\ j < m =>
                  stack[a] < lines[m].sid

\* An ended line says how its session ended, if it was not cut short by a kill.
EndsAreTrue ==
    \A m \in DOMAIN lines : lines[m].event = "ended" =>
        fate[lines[m].sid] \in IF lines[m].failed THEN {"raised", "killed"}
                               ELSE {"answered", "killed"}

Lossless == writes.torn = 0 /\ writes.refused = 0

\* As long as no write failed every line is there.
AllThere ==
    Lossless =>
        /\ tail = "whole"
        /\ \A s \in Sid : fate[s] \in {"answered", "raised"} =>
              \E m \in DOMAIN lines : lines[m].event = "ended" /\ lines[m].sid = s
        /\ \A s \in Sid : fate[s] # "none" <=>
              \E i \in DOMAIN lines : lines[i].event = "started" /\ lines[i].sid = s

\* What a torn end will cost with the next write: that line, and the one it is
\* glued to if that still reads as a line.
StillToLose == CASE tail = "whole" -> 0 [] tail = "torn" -> 1 [] tail = "open" -> 2

\* The lines missing now, and those the end of the file will cost.
Accounted ==
    /\ tail = "open" => Len(lines) > 0
    /\ writes.tried - Len(lines) + StillToLose <= 2 * writes.torn + writes.refused

SInv ==
    /\ SessionTypeOK /\ Room /\ Nested /\ InOrder /\ OfTheHeld /\ EndsAreTrue
    /\ AllThere /\ Accounted

-----------------------------------------------------------------------------
(* What a write does to the file. *)

\* The lines after a write: some of those before it, and perhaps the new one.
Grown(line) ==
    /\ lines' \in Seq(Line)
    /\ \A i \in DOMAIN lines' :
          \/ i \in DOMAIN lines /\ lines'[i] = lines[i]
          \/ i = Len(lines) + 1 /\ lines'[i] = line

\* The lines but for the last.
LEMMA GluedLines ==
  ASSUME lines \in Seq(Line), tail = "open" => Len(lines) > 0
  PROVE  /\ Glued \in Seq(Line)
         /\ Len(Glued) = IF tail = "open" THEN Len(lines) - 1 ELSE Len(lines)
         /\ \A i \in DOMAIN Glued : i \in DOMAIN lines /\ Glued[i] = lines[i]
<1>1. CASE tail = "open"
  <2>1. Glued = SubSeq(lines, 1, Len(lines) - 1)
    BY <1>1 DEF Glued
  <2>2. \A i \in 1..(Len(lines) - 1) : i \in 1..Len(lines)
    OBVIOUS
  <2>3. /\ Glued \in Seq(Line)
        /\ Len(Glued) = Len(lines) - 1
        /\ \A i \in 1..(Len(lines) - 1) : Glued[i] = lines[i]
    <3>1. Len(lines) \in Nat /\ Len(lines) > 0 /\ DOMAIN lines = 1..Len(lines)
      BY <1>1
    <3> QED
      BY <2>1, <2>2, <3>1, SubSeqProperties, SMTT(30)
  <2> QED
    BY <1>1, <2>2, <2>3
<1>2. CASE tail # "open"
  BY <1>2 DEF Glued
<1> QED
  BY <1>1, <1>2

\* A whole line lands after the whole lines, or is glued to what is torn.
LEMMA WholeGrows ==
  ASSUME SessionTypeOK, Accounted, NEW line \in Line, Whole(line)
  PROVE  /\ Grown(line) /\ tail' = "whole" /\ Accounted'
         /\ writes' = [writes EXCEPT !.tried = @ + 1]
         /\ tail = "whole" => lines' = Append(lines, line)
<1>1. lines \in Seq(Line) /\ tail \in {"whole", "torn", "open"}
  BY DEF SessionTypeOK, Line
<1>2. /\ Glued \in Seq(Line)
      /\ Len(Glued) = IF tail = "open" THEN Len(lines) - 1 ELSE Len(lines)
      /\ \A i \in DOMAIN Glued : i \in DOMAIN lines /\ Glued[i] = lines[i]
  BY <1>1, GluedLines DEF Accounted
<1>3. Grown(line)
  BY <1>1, <1>2 DEF Whole, Grown
<1>4. /\ writes'.tried = writes.tried + 1 /\ writes'.torn = writes.torn
      /\ writes'.refused = writes.refused
      /\ writes.tried \in Nat /\ writes.torn \in Nat /\ writes.refused \in Nat
  BY DEF SessionTypeOK, Whole
<1>5. Len(lines') >= Len(lines) + 1 - StillToLose
  BY <1>1, <1>2 DEF Whole, StillToLose
<1>6. StillToLose' = 0 /\ StillToLose \in Nat
  BY <1>1 DEF Whole, StillToLose
<1>7. Len(lines) \in Nat /\ Len(lines') \in Nat
  BY <1>1, <1>3 DEF Grown
<1>8. writes'.tried - Len(lines') + StillToLose' <= 2 * writes'.torn + writes'.refused
  <2> DEFINE t == writes.tried  k == writes.torn  r == writes.refused
             t2 == writes'.tried  k2 == writes'.torn  r2 == writes'.refused
             n == Len(lines)  n2 == Len(lines')  o == StillToLose  o2 == StillToLose'
  <2>1. t - n + o <= 2 * k + r
    BY DEF Accounted
  <2>2. /\ t \in Nat /\ k \in Nat /\ r \in Nat /\ n \in Nat /\ n2 \in Nat
        /\ o \in Nat /\ o2 \in Nat
    BY <1>4, <1>6, <1>7
  <2>3. t2 = t + 1 /\ k2 = k /\ r2 = r
    BY <1>4
  <2>4. n2 >= n + 1 - o /\ o2 = 0
    BY <1>5, <1>6
  <2> HIDE DEF t, k, r, t2, k2, r2, n, n2, o, o2
  <2>5. t2 - n2 + o2 <= 2 * k2 + r2
    BY <2>1, <2>2, <2>3, <2>4
  <2> QED
    BY <2>5 DEF t2, k2, r2, n2, o2
<1>9. tail' = "whole"
  BY DEF Whole
<1>10. Accounted'
  BY <1>8, <1>9 DEF Accounted
<1> QED
  BY <1>3, <1>9, <1>10 DEF Whole

\* A line cut short is lost, or all there but for its newline.
LEMMA TornGrows ==
  ASSUME SessionTypeOK, Accounted, NEW line \in Line, Torn(line)
  PROVE  /\ Grown(line) /\ tail' \in {"torn", "open"} /\ Accounted'
         /\ writes' = [writes EXCEPT !.tried = @ + 1, !.torn = @ + 1]
<1>1. lines \in Seq(Line) /\ tail \in {"whole", "torn", "open"}
  BY DEF SessionTypeOK, Line
<1>2. /\ Glued \in Seq(Line)
      /\ Len(Glued) = IF tail = "open" THEN Len(lines) - 1 ELSE Len(lines)
      /\ \A i \in DOMAIN Glued : i \in DOMAIN lines /\ Glued[i] = lines[i]
  BY <1>1, GluedLines DEF Accounted
<1>3. Grown(line)
  BY <1>1, <1>2 DEF Torn, Grown
<1>4. /\ writes'.tried = writes.tried + 1 /\ writes'.torn = writes.torn + 1
      /\ writes'.refused = writes.refused
      /\ writes.tried \in Nat /\ writes.torn \in Nat /\ writes.refused \in Nat
  BY DEF SessionTypeOK, Torn
<1>5. Len(lines') + 1 >= Len(lines) - StillToLose + StillToLose'
  BY <1>1, <1>2 DEF Torn, StillToLose
<1>6. StillToLose' \in Nat /\ StillToLose \in Nat
  BY <1>1 DEF Torn, StillToLose
<1>7. Len(lines) \in Nat /\ Len(lines') \in Nat
  BY <1>1, <1>3 DEF Grown
<1>8. writes'.tried - Len(lines') + StillToLose' <= 2 * writes'.torn + writes'.refused
  <2> DEFINE t == writes.tried  k == writes.torn  r == writes.refused
             t2 == writes'.tried  k2 == writes'.torn  r2 == writes'.refused
             n == Len(lines)  n2 == Len(lines')  o == StillToLose  o2 == StillToLose'
  <2>1. t - n + o <= 2 * k + r
    BY DEF Accounted
  <2>2. /\ t \in Nat /\ k \in Nat /\ r \in Nat /\ n \in Nat /\ n2 \in Nat
        /\ o \in Nat /\ o2 \in Nat
    BY <1>4, <1>6, <1>7
  <2>3. t2 = t + 1 /\ k2 = k + 1 /\ r2 = r
    BY <1>4
  <2>4. n2 + 1 >= n - o + o2
    BY <1>5, <1>6
  <2> HIDE DEF t, k, r, t2, k2, r2, n, n2, o, o2
  <2>5. t2 - n2 + o2 <= 2 * k2 + r2
    BY <2>1, <2>2, <2>3, <2>4
  <2> QED
    BY <2>5 DEF t2, k2, r2, n2, o2
<1>9. tail' = "open" => Len(lines') > 0
  BY <1>1 DEF Torn
<1>10. Accounted'
  BY <1>8, <1>9 DEF Accounted
<1> QED
  BY <1>3, <1>10 DEF Torn

\* A refused line is not there.
LEMMA RefusedGrows ==
  ASSUME SessionTypeOK, Accounted, NEW line \in Line, Refused
  PROVE  /\ Grown(line) /\ tail' = tail /\ Accounted'
         /\ writes' = [writes EXCEPT !.tried = @ + 1, !.refused = @ + 1]
<1>1. lines \in Seq(Line) /\ lines' = lines /\ tail' = tail
  BY DEF SessionTypeOK, Line, Refused
<1>2. /\ writes'.tried = writes.tried + 1 /\ writes'.torn = writes.torn
      /\ writes'.refused = writes.refused + 1
      /\ writes.tried \in Nat /\ writes.torn \in Nat /\ writes.refused \in Nat
  BY DEF SessionTypeOK, Refused
<1>3. StillToLose' = StillToLose /\ StillToLose \in Nat /\ Len(lines) \in Nat
  BY <1>1 DEF StillToLose, SessionTypeOK
<1>4. writes'.tried - Len(lines') + StillToLose' <= 2 * writes'.torn + writes'.refused
  <2> DEFINE t == writes.tried  k == writes.torn  r == writes.refused
             t2 == writes'.tried  k2 == writes'.torn  r2 == writes'.refused
             n == Len(lines)  n2 == Len(lines')  o == StillToLose  o2 == StillToLose'
  <2>1. t - n + o <= 2 * k + r
    BY DEF Accounted
  <2>2. /\ t \in Nat /\ k \in Nat /\ r \in Nat /\ n \in Nat /\ o \in Nat
        /\ n2 = n /\ o2 = o /\ t2 = t + 1 /\ k2 = k /\ r2 = r + 1
    BY <1>1, <1>2, <1>3
  <2> HIDE DEF t, k, r, t2, k2, r2, n, n2, o, o2
  <2>3. t2 - n2 + o2 <= 2 * k2 + r2
    BY <2>1, <2>2
  <2> QED
    BY <2>3 DEF t2, k2, r2, n2, o2
<1>5. Accounted'
  BY <1>1, <1>4 DEF Accounted
<1> QED
  BY <1>1, <1>5 DEF Grown, Refused

\* Any write: what the account and the order of the lines need of it.
LEMMA WriteGrows ==
  ASSUME SessionTypeOK, Accounted, NEW line \in Line, Write(line)
  PROVE  /\ Grown(line) /\ Accounted' /\ tail' \in {"whole", "torn", "open"}
         /\ writes' \in [tried : Nat, torn : Nat, refused : Nat]
         /\ Lossless' => /\ Lossless /\ tail' = "whole"
                         /\ tail = "whole" => lines' = Append(lines, line)
<1>1. CASE Whole(line)
  BY <1>1, WholeGrows DEF SessionTypeOK, Lossless
<1>2. CASE Torn(line)
  <2>1. writes' = [writes EXCEPT !.tried = @ + 1, !.torn = @ + 1]
    BY <1>2, TornGrows
  <2>2. writes \in [tried : Nat, torn : Nat, refused : Nat]
    BY DEF SessionTypeOK
  <2>3. writes.torn \in Nat /\ writes'.torn = writes.torn + 1
    BY <2>1, <2>2
  <2>4. writes' \in [tried : Nat, torn : Nat, refused : Nat]
    <3>1. writes' = [tried |-> writes.tried + 1, torn |-> writes.torn + 1, refused |-> writes.refused]
      BY <2>1, <2>2
    <3>2. writes.tried \in Nat /\ writes.torn \in Nat /\ writes.refused \in Nat
      BY <2>2
    <3> QED
      BY <3>1, <3>2
  <2>5. ~Lossless'
    BY <2>3 DEF Lossless
  <2> QED
    BY <1>2, <2>4, <2>5, TornGrows
<1>3. CASE Refused
  <2>1. writes' = [writes EXCEPT !.tried = @ + 1, !.refused = @ + 1]
    BY <1>3, RefusedGrows
  <2>2. writes \in [tried : Nat, torn : Nat, refused : Nat] /\ tail \in {"whole", "torn", "open"}
    BY DEF SessionTypeOK
  <2>3. writes.refused \in Nat /\ writes'.refused = writes.refused + 1
    BY <2>1, <2>2
  <2>4. writes' \in [tried : Nat, torn : Nat, refused : Nat]
    <3>1. writes' = [tried |-> writes.tried + 1, torn |-> writes.torn, refused |-> writes.refused + 1]
      BY <2>1, <2>2
    <3>2. writes.tried \in Nat /\ writes.torn \in Nat /\ writes.refused \in Nat
      BY <2>2
    <3> QED
      BY <3>1, <3>2
  <2>5. ~Lossless'
    BY <2>3 DEF Lossless
  <2> QED
    BY <1>3, <2>2, <2>4, <2>5, RefusedGrows
<1> QED
  BY <1>1, <1>2, <1>3 DEF Write

-----------------------------------------------------------------------------
(* The order of the lines. *)

\* The innermost session, and those around it.
LEMMA StackParts ==
  ASSUME stack \in Seq(Sid), stack # <<>>
  PROVE  /\ Len(stack) \in DOMAIN stack /\ Innermost = stack[Len(stack)] /\ Innermost \in Sid
         /\ Enclosing \in Seq(Sid) /\ Len(Enclosing) = Len(stack) - 1
         /\ \A a \in DOMAIN Enclosing :
               a \in DOMAIN stack /\ a < Len(stack) /\ Enclosing[a] = stack[a]
<1> DEFINE n == Len(stack)
<1>1. n \in Nat /\ n > 0 /\ DOMAIN stack = 1..n /\ n \in DOMAIN stack
  BY SMT
<1>2. \A a \in 1..n : stack[a] \in Sid
  OBVIOUS
<1>3. Enclosing = SubSeq(stack, 1, n - 1) /\ Innermost = stack[n]
  BY DEF Enclosing, Innermost
<1> HIDE DEF n
<1>4. \A a \in 1..(n - 1) : stack[a] \in Sid
  BY <1>1, <1>2
<1>5. n - 1 \in Int
  BY <1>1
<1>6. /\ Enclosing \in Seq(Sid)
      /\ Len(Enclosing) = IF 1 <= n - 1 THEN n - 1 - 1 + 1 ELSE 0
      /\ \A a \in 1..(n - 1 - 1 + 1) : Enclosing[a] = stack[1 + a - 1]
  BY <1>3, <1>4, <1>5, SubSeqProperties
<1>7. Len(Enclosing) = n - 1
  BY <1>1, <1>6
<1>8. DOMAIN Enclosing = 1..(n - 1)
  BY <1>6, <1>7
<1>9. ASSUME NEW a \in 1..(n - 1)
      PROVE  Enclosing[a] = stack[a] /\ a \in 1..n /\ a < n
  <2>1. a \in 1..(n - 1 - 1 + 1) /\ 1 + a - 1 = a
    BY <1>1
  <2> QED
    BY <1>1, <1>6, <2>1
<1>10. Innermost \in Sid
  BY <1>1, <1>2, <1>3
<1> QED
  BY <1>1, <1>3, <1>6, <1>7, <1>8, <1>9, <1>10 DEF n

\* What SessionTypeOK says of the lines there are, and Grown of those there will be.
LEMMA LinesTyped ==
  ASSUME SessionTypeOK
  PROVE  /\ lines \in Seq(Line) /\ next \in Int
         /\ \A i \in DOMAIN lines :
               /\ lines[i].sid \in Sid /\ lines[i].sid \in Int
               /\ lines[i].event \in {"started", "ended"}
<1>1. lines \in Seq(Line)
  BY DEF SessionTypeOK, Line
<1>2. next \in Int
  BY DEF SessionTypeOK
<1>3. ASSUME NEW line \in Line
      PROVE  line.sid \in Sid /\ line.sid \in Int /\ line.event \in {"started", "ended"}
  BY DEF Line, Sid
<1>4. \A i \in DOMAIN lines : lines[i] \in Line
  BY <1>1
<1> QED
  BY <1>1, <1>2, <1>3, <1>4

\* A started line comes after all the lines, with the highest id.
LEMMA StartedInOrder ==
  ASSUME SessionTypeOK, InOrder, OfTheHeld, NEW line \in Line, Grown(line),
         line.event = "started", line.sid = next
  PROVE  InOrder'
<1>1. /\ lines \in Seq(Line) /\ lines' \in Seq(Line) /\ next \in Int
      /\ DOMAIN lines = 1..Len(lines) /\ DOMAIN lines' = 1..Len(lines')
      /\ Len(lines) \in Nat /\ Len(lines') \in Nat
      /\ \A i \in DOMAIN lines : lines[i].sid \in Int
  BY LinesTyped DEF Grown
<1>2. \A i \in DOMAIN lines' :
         \/ i \in DOMAIN lines /\ lines'[i] = lines[i]
         \/ i = Len(lines) + 1 /\ lines'[i] = line
  BY DEF Grown
<1>3. \A m \in DOMAIN lines' : lines'[m].event = "ended" => m \in DOMAIN lines /\ lines'[m] = lines[m]
  BY <1>2
<1>4. \A i, j \in DOMAIN lines' : i < j => i \in DOMAIN lines /\ lines'[i] = lines[i]
  BY <1>1, <1>2
<1>5. ASSUME NEW i \in DOMAIN lines', NEW j \in DOMAIN lines', i < j
      PROVE  /\ lines'[i].sid = lines'[j].sid =>
                   lines'[i].event = "started" /\ lines'[j].event = "ended"
             /\ lines'[i].event = "started" /\ lines'[j].event = "started" =>
                   lines'[i].sid < lines'[j].sid
  <2>1. i \in DOMAIN lines /\ lines'[i] = lines[i] /\ lines[i].sid < next
    BY <1>4, <1>5 DEF OfTheHeld
  <2>2. CASE j \in DOMAIN lines /\ lines'[j] = lines[j]
    BY <1>5, <2>1, <2>2 DEF InOrder
  <2>3. CASE j = Len(lines) + 1 /\ lines'[j] = line
    BY <1>1, <2>1, <2>3
  <2> QED
    BY <1>2, <2>2, <2>3
<1>6. ASSUME NEW i \in DOMAIN lines', NEW j \in DOMAIN lines',
             NEW m \in DOMAIN lines', NEW n \in DOMAIN lines',
             lines'[i].event = "started", lines'[j].event = "started", i < j,
             lines'[m].event = "ended", lines'[m].sid = lines'[i].sid,
             lines'[n].event = "ended", lines'[n].sid = lines'[j].sid, j < m
      PROVE  n < m
  <2>1. i \in DOMAIN lines /\ lines'[i] = lines[i] /\ j \in DOMAIN lines /\ lines'[j] = lines[j]
    BY <1>4, <1>6
  <2>2. m \in DOMAIN lines /\ lines'[m] = lines[m] /\ n \in DOMAIN lines /\ lines'[n] = lines[n]
    BY <1>3, <1>6
  <2> QED
    BY <1>6, <2>1, <2>2 DEF InOrder
<1> QED
  BY <1>5, <1>6 DEF InOrder

\* An ended line is of the innermost session: what began after it has ended.
LEMMA EndedInOrder ==
  ASSUME SessionTypeOK, InOrder, OfTheHeld, NEW line \in Line, Grown(line),
         stack # <<>>, line.event = "ended", line.sid = Innermost
  PROVE  InOrder'
<1>1. /\ lines \in Seq(Line) /\ lines' \in Seq(Line)
      /\ DOMAIN lines = 1..Len(lines) /\ DOMAIN lines' = 1..Len(lines')
      /\ Len(lines) \in Nat /\ Len(lines') \in Nat
      /\ \A i \in DOMAIN lines : lines[i].sid \in Int /\ lines[i].event \in {"started", "ended"}
  BY LinesTyped DEF Grown
<1>2. \A i \in DOMAIN lines' :
         \/ i \in DOMAIN lines /\ lines'[i] = lines[i]
         \/ i = Len(lines) + 1 /\ lines'[i] = line
  BY DEF Grown
<1>3. \A i \in DOMAIN lines' : lines'[i].event = "started" => i \in DOMAIN lines /\ lines'[i] = lines[i]
  BY <1>2
<1>4. Len(stack) \in DOMAIN stack /\ Innermost = stack[Len(stack)] /\ Innermost \in Int
  BY StackParts DEF SessionTypeOK, Sid
<1>5. \A m \in DOMAIN lines : lines[m].event = "ended" =>
         /\ lines[m].sid # Innermost
         /\ \A j \in DOMAIN lines :
               lines[j].event = "started" /\ lines[j].sid = Innermost /\ j < m =>
                   Innermost < lines[m].sid
  BY <1>4 DEF OfTheHeld
<1>6. \A i, j \in DOMAIN lines' : i < j => i \in DOMAIN lines /\ lines'[i] = lines[i]
  BY <1>1, <1>2
<1>7. ASSUME NEW i \in DOMAIN lines', NEW j \in DOMAIN lines', i < j
      PROVE  /\ lines'[i].sid = lines'[j].sid =>
                   lines'[i].event = "started" /\ lines'[j].event = "ended"
             /\ lines'[i].event = "started" /\ lines'[j].event = "started" =>
                   lines'[i].sid < lines'[j].sid
  <2>1. i \in DOMAIN lines /\ lines'[i] = lines[i]
    BY <1>6, <1>7
  <2>2. CASE j \in DOMAIN lines /\ lines'[j] = lines[j]
    BY <1>7, <2>1, <2>2 DEF InOrder
  <2>3. CASE j = Len(lines) + 1 /\ lines'[j] = line
    BY <1>1, <1>5, <2>1, <2>3
  <2> QED
    BY <1>2, <2>2, <2>3
<1>8. ASSUME NEW i \in DOMAIN lines', NEW j \in DOMAIN lines',
             NEW m \in DOMAIN lines', NEW n \in DOMAIN lines',
             lines'[i].event = "started", lines'[j].event = "started", i < j,
             lines'[m].event = "ended", lines'[m].sid = lines'[i].sid,
             lines'[n].event = "ended", lines'[n].sid = lines'[j].sid, j < m
      PROVE  n < m
  <2>1. i \in DOMAIN lines /\ lines'[i] = lines[i] /\ j \in DOMAIN lines /\ lines'[j] = lines[j]
    BY <1>3, <1>8
  <2>2. lines[i].sid < lines[j].sid
    BY <1>8, <2>1 DEF InOrder
  <2>3. CASE m \in DOMAIN lines /\ lines'[m] = lines[m] /\ n \in DOMAIN lines /\ lines'[n] = lines[n]
    BY <1>8, <2>1, <2>3 DEF InOrder
  <2>4. CASE n = Len(lines) + 1 /\ lines'[n] = line
    <3>1. lines[j].sid = Innermost
      BY <1>8, <2>1, <2>4
    <3>2. m \in DOMAIN lines /\ lines'[m] = lines[m]
      BY <1>1, <1>2, <1>8, <2>1, <2>2, <3>1
    <3>3. Innermost < lines[m].sid
      BY <1>5, <1>8, <2>1, <3>1, <3>2
    <3> QED
      BY <1>1, <1>8, <2>1, <2>2, <3>1, <3>2, <3>3
  <2>5. CASE m = Len(lines) + 1 /\ n \in DOMAIN lines
    BY <1>1, <2>5
  <2> QED
    BY <1>2, <2>3, <2>4, <2>5
<1> QED
  BY <1>7, <1>8 DEF InOrder

-----------------------------------------------------------------------------
(* The steps that write no line. *)

\* A driver that lets go of sessions, or of none, and writes nothing.
LEMMA FileStays ==
  ASSUME SInv, UNCHANGED file, next' \in Nat, next <= next',
         fate' \in [Sid -> {"none", "open", "answered", "raised", "unaccounted", "killed"}],
         \A a \in DOMAIN stack' : a \in DOMAIN stack /\ stack'[a] = stack[a],
         \A s \in Sid :
             \/ fate'[s] = fate[s]
             \/ fate'[s] \in {"unaccounted", "killed"} /\ \E a \in DOMAIN stack : stack[a] = s
  PROVE  InOrder' /\ OfTheHeld' /\ EndsAreTrue' /\ AllThere' /\ Accounted'
<1>1. lines' = lines /\ tail' = tail /\ writes' = writes
  BY DEF file
<1>2. \A i \in DOMAIN lines : lines[i].sid \in Sid
  BY LinesTyped DEF SInv
<1>3. InOrder' /\ Accounted'
  <2>1. InOrder'
    BY <1>1 DEF SInv, InOrder
  <2>2. StillToLose' = StillToLose
    BY <1>1 DEF StillToLose
  <2>3. Accounted'
    BY <1>1, <2>2 DEF SInv, Accounted
  <2> QED
    BY <2>1, <2>3
<1>4. OfTheHeld'
  <2>1. \A i \in DOMAIN lines : lines[i].sid < next'
    BY <1>2, SMTT(30) DEF SInv, SessionTypeOK, OfTheHeld, Sid
  <2> QED
    BY <1>1, <2>1 DEF SInv, OfTheHeld
<1>5. EndsAreTrue'
  <2>1. \A m \in DOMAIN lines : lines[m].event = "ended" => fate'[lines[m].sid] = fate[lines[m].sid]
    BY <1>2 DEF SInv, OfTheHeld
  <2> QED
    BY <1>1, <2>1 DEF SInv, EndsAreTrue
<1>6. AllThere'
  <2>1. \A s \in Sid : fate'[s] \in {"answered", "raised"} => fate[s] \in {"answered", "raised"}
    OBVIOUS
  <2>2. \A s \in Sid : fate'[s] # "none" <=> fate[s] # "none"
    BY DEF SInv, Nested
  <2> QED
    BY <1>1, <2>1, <2>2 DEF SInv, AllThere, Lossless
<1> QED
  BY <1>3, <1>4, <1>5, <1>6

\* A stage begins when its sessions fit below MaxSessions.
LEMMA BeginStageSafe ==
  ASSUME SInv, BeginStage
  PROVE  SInv'
<1>1. PICK w \in Widths : next + w - 1 <= MaxSessions /\ width' = w
  BY DEF BeginStage
<1>2. w \in 1..3
  BY SessionAssumption
<1>3. /\ UNCHANGED <<file, next, stack, raised, fate>> /\ pc' = "entering" /\ pc = "idle"
      /\ stack = <<>>
  BY DEF BeginStage, SInv, Room
<1>4. InOrder' /\ OfTheHeld' /\ EndsAreTrue' /\ AllThere' /\ Accounted'
  BY <1>3, FileStays DEF SInv, SessionTypeOK
<1>5. SessionTypeOK' /\ Nested'
  BY <1>1, <1>2, <1>3 DEF SInv, SessionTypeOK, Nested, file
<1>6. Room'
  BY <1>1, <1>2, <1>3, SessionAssumption DEF SInv, SessionTypeOK, Room
<1> QED
  BY <1>4, <1>5, <1>6 DEF SInv

\* The driver looks at budgets, works and comes to the end of its stage with the
\* sessions it has.
LEMMA SameSessionsSafe ==
  ASSUME SInv, EnterFails \/ BudgetsAgree \/ BodyEnds \/ StageOver
  PROVE  SInv'
<1>1. UNCHANGED <<file, next, stack, width, fate>>
  BY DEF EnterFails, BudgetsAgree, BodyEnds, StageOver
<1>2. InOrder' /\ OfTheHeld' /\ EndsAreTrue' /\ AllThere' /\ Accounted'
  BY <1>1, FileStays DEF SInv, SessionTypeOK
<1>3. pc' \in {"idle", "entering", "body", "unwinding"} /\ raised' \in BOOLEAN
  BY DEF SInv, SessionTypeOK, EnterFails, BudgetsAgree, BodyEnds, StageOver
<1>4. SessionTypeOK' /\ Nested'
  BY <1>1, <1>3 DEF SInv, SessionTypeOK, Nested, file
<1>5. Room'
  <2>1. pc # "idle" /\ (pc' = "idle" => stack = <<>>)
    BY DEF EnterFails, BudgetsAgree, BodyEnds, StageOver
  <2>2. pc' = "entering" =>
           Len(stack) < width /\ next + (width - Len(stack)) <= MaxSessions + 1
    <3> SUFFICES ASSUME pc' = "entering" PROVE  Len(stack) < width /\ next + (width - Len(stack)) <= MaxSessions + 1
      OBVIOUS
    <3>1. pc = "checking" /\ Len(stack) # width
      BY DEF EnterFails, BudgetsAgree, BodyEnds, StageOver
    <3>2. Len(stack) <= width /\ Len(stack) \in Nat /\ width \in Int
      BY SessionAssumption DEF SInv, SessionTypeOK
    <3> QED
      BY <3>1, <3>2 DEF SInv, Room
  <2> QED
    BY <1>1, <1>3, <2>1, <2>2 DEF SInv, Room
<1> QED
  BY <1>2, <1>4, <1>5 DEF SInv

\* The innermost session is let go with no line.
LEMMA UnaccountedSafe ==
  ASSUME SInv, BudgetsDiffer \/ LeaveUnmeasured
  PROVE  SInv'
<1>1. /\ UNCHANGED <<file, next, width>> /\ stack' = Enclosing /\ raised' = TRUE
      /\ pc' = "unwinding" /\ pc # "idle"
      /\ fate' = [fate EXCEPT ![Innermost] = "unaccounted"]
  BY DEF BudgetsDiffer, LeaveUnmeasured
<1>2. stack # <<>> /\ stack \in Seq(Sid)
  BY DEF SInv, SessionTypeOK, Room, BudgetsDiffer, LeaveUnmeasured
<1>3. /\ Len(stack) \in DOMAIN stack /\ Innermost = stack[Len(stack)] /\ Innermost \in Sid
      /\ Enclosing \in Seq(Sid) /\ Len(Enclosing) = Len(stack) - 1
      /\ \A a \in DOMAIN Enclosing :
            a \in DOMAIN stack /\ a < Len(stack) /\ Enclosing[a] = stack[a]
  BY <1>2, StackParts
<1>4. fate' \in [Sid -> {"none", "open", "answered", "raised", "unaccounted", "killed"}]
  BY <1>1 DEF SInv, SessionTypeOK
<1>5. \A s \in Sid : \/ fate'[s] = fate[s]
                     \/ fate'[s] = "unaccounted" /\ \E a \in DOMAIN stack : stack[a] = s
  BY <1>1, <1>3 DEF SInv, SessionTypeOK
<1>6. InOrder' /\ OfTheHeld' /\ EndsAreTrue' /\ AllThere' /\ Accounted'
  <2>1. next' \in Nat /\ next <= next'
    BY <1>1 DEF SInv, SessionTypeOK
  <2>2. \A a \in DOMAIN stack' : a \in DOMAIN stack /\ stack'[a] = stack[a]
    BY <1>1, <1>3
  <2> QED
    BY <1>1, <1>4, <1>5, <2>1, <2>2, FileStays
<1>7. Len(stack') <= width'
  <2>1. Len(stack) <= width /\ Len(stack) \in Nat /\ width \in Int
    BY SessionAssumption DEF SInv, SessionTypeOK
  <2> QED
    BY <1>1, <1>3, <2>1
<1>8. SessionTypeOK'
  BY <1>1, <1>3, <1>4, <1>7 DEF SInv, SessionTypeOK, file
<1>9. Nested'
  BY <1>1, <1>2, <1>3 DEF SInv, Nested, SessionTypeOK, Sid
<1>10. Room'
  BY <1>1 DEF SInv, Room
<1> QED
  BY <1>6, <1>8, <1>9, <1>10 DEF SInv

-----------------------------------------------------------------------------
(* The steps that write one. *)

\* The lines that are written are lines.
LEMMA LinesWritten ==
  ASSUME SessionTypeOK, Room
  PROVE  /\ pc = "entering" => next \in Sid /\ Started(next, Opening) \in Line
         /\ pc # "idle" /\ stack # <<>> => \A c \in Costs : Ended(Innermost, Closing, raised, c) \in Line
<1> DEFINE n == Len(stack)
<1>1. n \in Nat /\ n <= width /\ (stack # <<>> => n > 0) /\ stack \in Seq(Sid)
  BY DEF SessionTypeOK
<1>2. pc # "idle" => width \in Widths /\ width \in 1..3
  BY SessionAssumption DEF Room
<1>3. Opening = StageNames[width][n + 1] /\ Closing = StageNames[width][n]
  BY DEF Opening, Closing
<1>4. pc = "entering" => n < width /\ next + (width - n) <= MaxSessions + 1
  BY DEF Room
<1> HIDE DEF n
<1>5. ASSUME pc = "entering"
      PROVE  next \in Sid /\ Started(next, Opening) \in Line
  <2>1. n + 1 \in 1..width /\ next <= MaxSessions
    BY <1>1, <1>2, <1>4, <1>5, SessionAssumption, SMTT(30) DEF SessionTypeOK
  <2>2. Opening \in Stages
    BY <1>2, <1>3, <1>5, <2>1 DEF Stages
  <2>3. next \in Sid
    BY <2>1, SessionAssumption DEF SessionTypeOK, Sid
  <2> QED
    BY <2>2, <2>3 DEF Started, Line
<1>6. ASSUME pc # "idle", stack # <<>>, NEW c \in Costs
      PROVE  Ended(Innermost, Closing, raised, c) \in Line
  <2>1. n \in 1..width
    BY <1>1, <1>2, <1>6
  <2>2. Closing \in Stages
    BY <1>2, <1>3, <1>6, <2>1 DEF Stages
  <2>3. Innermost \in Sid /\ raised \in BOOLEAN
    BY <1>1, <1>6, StackParts DEF SessionTypeOK
  <2> QED
    BY <2>2, <2>3 DEF Ended, Line
<1> QED
  BY <1>5, <1>6

\* A session is created, and its started line written.
LEMMA EnterSafe ==
  ASSUME SInv, Enter
  PROVE  SInv'
<1> DEFINE line == Started(next, Opening)
<1>1. /\ pc = "entering" /\ Write(line) /\ stack' = Append(stack, next)
      /\ fate' = [fate EXCEPT ![next] = "open"] /\ next' = next + 1 /\ pc' = "checking"
      /\ UNCHANGED <<width, raised>>
  BY DEF Enter
<1>2. next \in Sid /\ line \in Line /\ line.event = "started" /\ line.sid = next
  BY <1>1, LinesWritten DEF SInv, Started
<1> HIDE DEF line
<1>3. /\ Grown(line) /\ Accounted' /\ tail' \in {"whole", "torn", "open"}
      /\ writes' \in [tried : Nat, torn : Nat, refused : Nat]
      /\ Lossless' => /\ Lossless /\ tail' = "whole"
                      /\ tail = "whole" => lines' = Append(lines, line)
  BY <1>1, <1>2, WriteGrows DEF SInv
<1>4. /\ lines \in Seq(Line) /\ lines' \in Seq(Line) /\ next \in Int
      /\ DOMAIN lines = 1..Len(lines) /\ DOMAIN lines' = 1..Len(lines')
      /\ Len(lines) \in Nat /\ Len(lines') \in Nat
      /\ \A i \in DOMAIN lines : lines[i].sid \in Sid /\ lines[i].sid \in Int
  BY <1>3, LinesTyped DEF SInv, Grown
<1>5. \A i \in DOMAIN lines' :
         \/ i \in DOMAIN lines /\ lines'[i] = lines[i]
         \/ i = Len(lines) + 1 /\ lines'[i] = line
  BY <1>3 DEF Grown
<1>6. /\ stack \in Seq(Sid) /\ stack' \in Seq(Sid) /\ Len(stack') = Len(stack) + 1
      /\ Len(stack) \in Nat /\ Len(stack) < width /\ width \in Int
      /\ DOMAIN stack' = DOMAIN stack \cup {Len(stack) + 1} /\ DOMAIN stack = 1..Len(stack)
      /\ \A a \in DOMAIN stack : stack'[a] = stack[a]
      /\ stack'[Len(stack) + 1] = next
  BY <1>1, <1>2, SessionAssumption DEF SInv, SessionTypeOK, Room
<1>7. InOrder'
  BY <1>2, <1>3, StartedInOrder DEF SInv
<1>8. OfTheHeld'
  <2>1. ASSUME NEW i \in DOMAIN lines' PROVE lines'[i].sid < next'
    BY <1>1, <1>2, <1>4, <1>5 DEF SInv, OfTheHeld
  <2>2. ASSUME NEW a \in DOMAIN stack', NEW m \in DOMAIN lines', lines'[m].event = "ended"
        PROVE  /\ lines'[m].sid # stack'[a]
               /\ \A j \in DOMAIN lines' :
                     lines'[j].event = "started" /\ lines'[j].sid = stack'[a] /\ j < m =>
                         stack'[a] < lines'[m].sid
    <3>1. m \in DOMAIN lines /\ lines'[m] = lines[m] /\ lines[m].sid < next
      BY <1>2, <1>5, <2>2 DEF SInv, OfTheHeld
    <3>2. \A j \in DOMAIN lines' : j < m => j \in DOMAIN lines /\ lines'[j] = lines[j] /\ lines[j].sid < next
      BY <1>4, <1>5, <3>1 DEF SInv, OfTheHeld
    <3>3. CASE a \in DOMAIN stack
      BY <1>6, <2>2, <3>1, <3>2, <3>3 DEF SInv, OfTheHeld
    <3>4. CASE a = Len(stack) + 1
      BY <1>4, <1>6, <3>1, <3>2, <3>4
    <3> QED
      BY <1>6, <3>3, <3>4
  <2> QED
    BY <2>1, <2>2 DEF OfTheHeld
<1>9. EndsAreTrue'
  <2> SUFFICES ASSUME NEW m \in DOMAIN lines', lines'[m].event = "ended"
               PROVE  fate'[lines'[m].sid] \in IF lines'[m].failed THEN {"raised", "killed"}
                                               ELSE {"answered", "killed"}
    BY DEF EndsAreTrue
  <2>1. m \in DOMAIN lines /\ lines'[m] = lines[m] /\ lines[m].sid < next
    BY <1>2, <1>5 DEF SInv, OfTheHeld
  <2>2. fate'[lines[m].sid] = fate[lines[m].sid]
    BY <1>1, <1>2, <1>4, <2>1 DEF SInv, SessionTypeOK
  <2> QED
    BY <2>1, <2>2 DEF SInv, EndsAreTrue
<1>10. AllThere'
  <2> SUFFICES ASSUME Lossless' PROVE AllThere'
    BY DEF AllThere
  <2>1. Lossless /\ tail = "whole" /\ tail' = "whole" /\ lines' = Append(lines, line)
    BY <1>3 DEF SInv, AllThere
  <2>2. /\ \A i \in DOMAIN lines : i \in DOMAIN lines' /\ lines'[i] = lines[i]
        /\ Len(lines) + 1 \in DOMAIN lines' /\ lines'[Len(lines) + 1] = line
    BY <1>2, <1>4, <2>1
  <2>3. ASSUME NEW s \in Sid, fate'[s] \in {"answered", "raised"}
        PROVE  \E m \in DOMAIN lines' : lines'[m].event = "ended" /\ lines'[m].sid = s
    <3>1. fate[s] \in {"answered", "raised"}
      BY <1>1, <2>3 DEF SInv, SessionTypeOK
    <3>2. PICK m \in DOMAIN lines : lines[m].event = "ended" /\ lines[m].sid = s
      BY <2>1, <3>1 DEF SInv, AllThere
    <3> QED
      BY <2>2, <3>2
  <2>4. ASSUME NEW s \in Sid
        PROVE  fate'[s] # "none" <=>
                 \E i \in DOMAIN lines' : lines'[i].event = "started" /\ lines'[i].sid = s
    <3>1. fate[s] # "none" <=> \E i \in DOMAIN lines : lines[i].event = "started" /\ lines[i].sid = s
      BY <2>1 DEF SInv, AllThere
    <3>2. CASE s = next
      BY <1>1, <1>2, <2>2, <3>2 DEF SInv, SessionTypeOK
    <3>3. CASE s # next
      <4>1. fate'[s] = fate[s]
        BY <1>1, <3>3 DEF SInv, SessionTypeOK
      <4>2. (\E i \in DOMAIN lines : lines[i].event = "started" /\ lines[i].sid = s)
            <=> \E i \in DOMAIN lines' : lines'[i].event = "started" /\ lines'[i].sid = s
        BY <1>2, <1>5, <2>2, <3>3
      <4> QED
        BY <3>1, <4>1, <4>2
    <3> QED
      BY <3>2, <3>3
  <2> QED
    BY <2>1, <2>3, <2>4 DEF AllThere
<1>11. SessionTypeOK'
  <2>1. lines' \in Seq([event : {"started", "ended"}, sid : Sid, stage : Stages,
                        failed : BOOLEAN, cost : Costs \cup {NoCost}])
    BY <1>4 DEF Line
  <2>2. next' \in 1..(MaxSessions + 1)
    BY <1>1, <1>2, SessionAssumption DEF Sid
  <2> QED
    BY <1>1, <1>3, <1>6, <2>1, <2>2 DEF SInv, SessionTypeOK
<1>12. Nested'
  <2>1. ASSUME NEW a \in DOMAIN stack' PROVE stack'[a] < next' /\ fate'[stack'[a]] = "open"
    <3>1. CASE a \in DOMAIN stack
      <4>1. stack'[a] = stack[a] /\ stack[a] < next /\ fate[stack[a]] = "open"
        BY <1>6, <3>1 DEF SInv, Nested
      <4>2. stack[a] \in Int /\ next \in Int
        <5>1. stack[a] \in Sid
          BY <1>6, <3>1
        <5> QED
          BY <1>2, <5>1 DEF Sid
      <4> QED
        BY <1>1, <1>2, <4>1, <4>2 DEF SInv, SessionTypeOK
    <3>2. CASE a = Len(stack) + 1
      BY <1>1, <1>2, <1>4, <1>6, <3>2 DEF SInv, SessionTypeOK
    <3> QED
      BY <1>6, <3>1, <3>2
  <2>2. ASSUME NEW a \in DOMAIN stack', NEW b \in DOMAIN stack', a < b PROVE stack'[a] < stack'[b]
    <3>1. a \in DOMAIN stack
      BY <1>6, <2>2
    <3> QED
      BY <1>6, <2>2, <3>1 DEF SInv, Nested
  <2> QED
    BY <2>1, <2>2 DEF Nested
<1>13. Room'
  BY <1>1, <1>4, <1>6, SessionAssumption DEF SInv, Room
<1> QED
  BY <1>3, <1>7, <1>8, <1>9, <1>10, <1>11, <1>12, <1>13 DEF SInv

\* What the end of the innermost session leaves of the others, its line
\* written, in part or not.
LEMMA EndedOfTheHeld ==
  ASSUME SInv, stack # <<>>, NEW line \in Line, Grown(line), line.event = "ended",
         line.sid = Innermost, next' = next, stack' = Enclosing
  PROVE  OfTheHeld'
<1>1. /\ lines \in Seq(Line) /\ lines' \in Seq(Line) /\ next \in Int
      /\ \A i \in DOMAIN lines : lines[i].sid \in Int
      /\ Len(lines) \in Nat
  BY LinesTyped DEF SInv, Grown
<1>2. \A i \in DOMAIN lines' :
         \/ i \in DOMAIN lines /\ lines'[i] = lines[i]
         \/ i = Len(lines) + 1 /\ lines'[i] = line
  BY DEF Grown
<1>3. /\ Len(stack) \in DOMAIN stack /\ Innermost = stack[Len(stack)]
      /\ \A a \in DOMAIN Enclosing :
            a \in DOMAIN stack /\ a < Len(stack) /\ Enclosing[a] = stack[a]
  BY StackParts DEF SInv, SessionTypeOK
<1>4. /\ Innermost < next
      /\ \A a \in DOMAIN Enclosing : stack[a] < Innermost /\ stack[a] \in Int /\ Innermost \in Int
  <2>1. stack \in Seq(Sid) /\ Len(stack) \in Nat
    BY DEF SInv, SessionTypeOK
  <2>2. \A a \in DOMAIN stack : stack[a] \in Int
    <3>1. \A a \in DOMAIN stack : stack[a] \in Sid
      BY <2>1
    <3> QED
      BY <3>1 DEF Sid
  <2>3. /\ \A a \in DOMAIN stack : stack[a] < next
        /\ \A a, b \in DOMAIN stack : a < b => stack[a] < stack[b]
    BY DEF SInv, Nested
  <2> QED
    BY <1>3, <2>2, <2>3
<1>5. ASSUME NEW i \in DOMAIN lines' PROVE lines'[i].sid < next'
  BY <1>2, <1>4 DEF SInv, OfTheHeld
<1>6. ASSUME NEW a \in DOMAIN stack', NEW m \in DOMAIN lines', lines'[m].event = "ended"
      PROVE  /\ lines'[m].sid # stack'[a]
             /\ \A j \in DOMAIN lines' :
                   lines'[j].event = "started" /\ lines'[j].sid = stack'[a] /\ j < m =>
                       stack'[a] < lines'[m].sid
  <2>1. a \in DOMAIN stack /\ stack'[a] = stack[a] /\ stack[a] < Innermost
        /\ stack[a] \in Int /\ Innermost \in Int
    BY <1>3, <1>4
  <2>2. CASE m \in DOMAIN lines /\ lines'[m] = lines[m]
    <3>1. \A j \in DOMAIN lines' : lines'[j].event = "started" => j \in DOMAIN lines /\ lines'[j] = lines[j]
      BY <1>2
    <3> QED
      BY <1>6, <2>1, <2>2, <3>1 DEF SInv, OfTheHeld
  <2>3. CASE lines'[m] = line
    BY <2>1, <2>3
  <2> QED
    BY <1>2, <2>2, <2>3
<1> QED
  BY <1>5, <1>6 DEF OfTheHeld

\* The innermost session is let go, and its ended line written.
LEMMA LeaveSafe ==
  ASSUME SInv, Leave
  PROVE  SInv'
<1>1. /\ pc = "unwinding" /\ stack # <<>> /\ stack' = Enclosing
      /\ fate' = [fate EXCEPT ![Innermost] = IF raised THEN "raised" ELSE "answered"]
      /\ raised' \in {raised, TRUE} /\ UNCHANGED <<next, width, pc>>
  BY DEF Leave
<1>2. PICK cost \in Costs : Write(Ended(Innermost, Closing, raised, cost))
  BY DEF Leave
<1> DEFINE line == Ended(Innermost, Closing, raised, cost)
<1>3. /\ line \in Line /\ line.event = "ended" /\ line.sid = Innermost /\ line.failed = raised
  BY <1>1, LinesWritten DEF SInv, Ended
<1>4. Write(line)
  BY <1>2
<1> HIDE DEF line
<1>5. /\ Grown(line) /\ Accounted' /\ tail' \in {"whole", "torn", "open"}
      /\ writes' \in [tried : Nat, torn : Nat, refused : Nat]
      /\ Lossless' => /\ Lossless /\ tail' = "whole"
                      /\ tail = "whole" => lines' = Append(lines, line)
  BY <1>3, <1>4, WriteGrows DEF SInv
<1>6. /\ lines \in Seq(Line) /\ lines' \in Seq(Line)
      /\ DOMAIN lines = 1..Len(lines) /\ DOMAIN lines' = 1..Len(lines')
      /\ Len(lines) \in Nat /\ Len(lines') \in Nat
      /\ \A i \in DOMAIN lines : lines[i].sid \in Sid
  BY <1>5, LinesTyped DEF SInv, Grown
<1>7. \A i \in DOMAIN lines' :
         \/ i \in DOMAIN lines /\ lines'[i] = lines[i]
         \/ i = Len(lines) + 1 /\ lines'[i] = line
  BY <1>5 DEF Grown
<1>8. /\ Len(stack) \in DOMAIN stack /\ Innermost = stack[Len(stack)] /\ Innermost \in Sid
      /\ Enclosing \in Seq(Sid) /\ Len(Enclosing) = Len(stack) - 1
      /\ \A a \in DOMAIN Enclosing :
            a \in DOMAIN stack /\ a < Len(stack) /\ Enclosing[a] = stack[a]
  BY <1>1, StackParts DEF SInv, SessionTypeOK
<1>9. InOrder'
  BY <1>1, <1>3, <1>5, EndedInOrder DEF SInv
<1>10. OfTheHeld'
  BY <1>1, <1>3, <1>5, EndedOfTheHeld
<1>11. EndsAreTrue'
  <2> SUFFICES ASSUME NEW m \in DOMAIN lines', lines'[m].event = "ended"
               PROVE  fate'[lines'[m].sid] \in IF lines'[m].failed THEN {"raised", "killed"}
                                               ELSE {"answered", "killed"}
    BY DEF EndsAreTrue
  <2>1. CASE m \in DOMAIN lines /\ lines'[m] = lines[m]
    <3>1. lines[m].sid # Innermost /\ lines[m].sid \in Sid
      BY <1>6, <1>8, <2>1 DEF SInv, OfTheHeld
    <3>2. fate'[lines[m].sid] = fate[lines[m].sid]
      BY <1>1, <3>1 DEF SInv, SessionTypeOK
    <3> QED
      BY <2>1, <3>2 DEF SInv, EndsAreTrue
  <2>2. CASE lines'[m] = line
    BY <1>1, <1>3, <1>8, <2>2 DEF SInv, SessionTypeOK
  <2> QED
    BY <1>7, <2>1, <2>2
<1>12. AllThere'
  <2> SUFFICES ASSUME Lossless' PROVE AllThere'
    BY DEF AllThere
  <2>1. Lossless /\ tail = "whole" /\ tail' = "whole" /\ lines' = Append(lines, line)
    BY <1>5 DEF SInv, AllThere
  <2>2. /\ \A i \in DOMAIN lines : i \in DOMAIN lines' /\ lines'[i] = lines[i]
        /\ Len(lines) + 1 \in DOMAIN lines' /\ lines'[Len(lines) + 1] = line
    BY <1>3, <1>6, <2>1
  <2>3. ASSUME NEW s \in Sid, fate'[s] \in {"answered", "raised"}
        PROVE  \E m \in DOMAIN lines' : lines'[m].event = "ended" /\ lines'[m].sid = s
    <3>1. CASE s = Innermost
      BY <1>3, <2>2, <3>1
    <3>2. CASE s # Innermost
      <4>1. fate[s] \in {"answered", "raised"}
        BY <1>1, <2>3, <3>2 DEF SInv, SessionTypeOK
      <4>2. PICK m \in DOMAIN lines : lines[m].event = "ended" /\ lines[m].sid = s
        BY <2>1, <4>1 DEF SInv, AllThere
      <4> QED
        BY <2>2, <4>2
    <3> QED
      BY <3>1, <3>2
  <2>4. ASSUME NEW s \in Sid
        PROVE  fate'[s] # "none" <=>
                 \E i \in DOMAIN lines' : lines'[i].event = "started" /\ lines'[i].sid = s
    <3>1. fate[s] # "none" <=> \E i \in DOMAIN lines : lines[i].event = "started" /\ lines[i].sid = s
      BY <2>1 DEF SInv, AllThere
    <3>2. fate[Innermost] = "open"
      BY <1>8 DEF SInv, Nested
    <3>3. fate'[s] # "none" <=> fate[s] # "none"
      BY <1>1, <1>8, <3>2 DEF SInv, SessionTypeOK
    <3>4. (\E i \in DOMAIN lines : lines[i].event = "started" /\ lines[i].sid = s)
          <=> \E i \in DOMAIN lines' : lines'[i].event = "started" /\ lines'[i].sid = s
      BY <1>3, <1>7, <2>2
    <3> QED
      BY <3>1, <3>3, <3>4
  <2> QED
    BY <2>1, <2>3, <2>4 DEF AllThere
<1>13. SessionTypeOK'
  <2>1. lines' \in Seq([event : {"started", "ended"}, sid : Sid, stage : Stages,
                        failed : BOOLEAN, cost : Costs \cup {NoCost}])
    BY <1>6 DEF Line
  <2>2. Len(stack') <= width'
    <3>1. Len(stack) <= width /\ Len(stack) \in Nat /\ width \in Int
      BY SessionAssumption DEF SInv, SessionTypeOK
    <3> QED
      BY <1>1, <1>8, <3>1
  <2>3. fate' \in [Sid -> {"none", "open", "answered", "raised", "unaccounted", "killed"}]
    BY <1>1, <1>8 DEF SInv, SessionTypeOK
  <2>4. raised' \in BOOLEAN
    BY <1>1 DEF SInv, SessionTypeOK
  <2> QED
    BY <1>1, <1>5, <1>8, <2>1, <2>2, <2>3, <2>4 DEF SInv, SessionTypeOK
<1>14. Nested'
  <2>1. \A a \in DOMAIN Enclosing : Enclosing[a] # Innermost
    BY <1>8, SMTT(30) DEF SInv, Nested, SessionTypeOK, Sid
  <2> QED
    BY <1>1, <1>8, <2>1 DEF SInv, Nested, SessionTypeOK
<1>15. Room'
  BY <1>1 DEF SInv, Room
<1> QED
  BY <1>5, <1>9, <1>10, <1>11, <1>12, <1>13, <1>14, <1>15 DEF SInv

\* The driver is killed: whatever it held is over, and of the line it was
\* writing a part may be there.
LEMMA KilledSafe ==
  ASSUME SInv, Killed
  PROVE  SInv'
<1>1. /\ stack' = <<>> /\ pc' = "idle" /\ raised' = FALSE /\ width' = width
      /\ fate' = [s \in Sid |-> IF \E i \in DOMAIN stack : stack[i] = s
                                THEN "killed" ELSE fate[s]]
      /\ next' = IF pc = "entering" THEN next + 1 ELSE next
      /\ pc # "idle"
  BY DEF Killed
<1>2. /\ next \in Sid \/ pc # "entering"
      /\ next' \in 1..(MaxSessions + 1) /\ next <= next' /\ next \in Int /\ next' \in Nat
  BY <1>1, LinesWritten, SessionAssumption DEF SInv, SessionTypeOK, Sid
<1>3. /\ fate' \in [Sid -> {"none", "open", "answered", "raised", "unaccounted", "killed"}]
      /\ \A s \in Sid : \/ fate'[s] = fate[s]
                        \/ fate'[s] = "killed" /\ \E a \in DOMAIN stack : stack[a] = s
  BY <1>1 DEF SInv, SessionTypeOK
<1>4. Nested' /\ Room'
  BY <1>1 DEF Nested, Room
<1>5. ASSUME lines' \in Seq(Line), tail' \in {"whole", "torn", "open"},
             writes' \in [tried : Nat, torn : Nat, refused : Nat]
      PROVE  SessionTypeOK'
  <2>1. lines' \in Seq([event : {"started", "ended"}, sid : Sid, stage : Stages,
                        failed : BOOLEAN, cost : Costs \cup {NoCost}])
    BY <1>5 DEF Line
  <2>2. stack' \in Seq(Sid) /\ Len(stack') <= width' /\ width' \in {0} \cup Widths
    BY <1>1, SessionAssumption DEF SInv, SessionTypeOK
  <2> QED
    BY <1>1, <1>2, <1>3, <1>5, <2>1, <2>2 DEF SInv, SessionTypeOK
<1>6. CASE UNCHANGED file
  <2>1. InOrder' /\ OfTheHeld' /\ EndsAreTrue' /\ AllThere' /\ Accounted'
    BY <1>1, <1>2, <1>3, <1>6, FileStays
  <2>2. SessionTypeOK'
    BY <1>5, <1>6, LinesTyped DEF SInv, SessionTypeOK, file
  <2> QED
    BY <1>4, <2>1, <2>2 DEF SInv
<1>7. ASSUME NEW line \in Line, Torn(line),
             \/ pc = "entering" /\ line = Started(next, Opening)
             \/ stack # <<>> /\ line = Ended(Innermost, Closing, raised, "unpriced")
      PROVE  SInv'
  <2>1. /\ Grown(line) /\ tail' \in {"torn", "open"} /\ Accounted'
        /\ writes' \in [tried : Nat, torn : Nat, refused : Nat] /\ ~Lossless'
    <3>1. Grown(line) /\ tail' \in {"torn", "open"} /\ Accounted'
      BY <1>7, TornGrows DEF SInv
    <3>2. writes' \in [tried : Nat, torn : Nat, refused : Nat] /\ (Lossless' => tail' = "whole")
      BY <1>7, WriteGrows DEF SInv, Write
    <3> QED
      BY <3>1, <3>2
  <2>2. /\ lines \in Seq(Line) /\ lines' \in Seq(Line)
        /\ \A i \in DOMAIN lines : lines[i].sid \in Sid /\ lines[i].sid \in Int
    BY <2>1, LinesTyped DEF SInv, Grown
  <2>3. \A i \in DOMAIN lines' :
           \/ i \in DOMAIN lines /\ lines'[i] = lines[i]
           \/ i = Len(lines) + 1 /\ lines'[i] = line
    BY <2>1 DEF Grown
  <2>4. InOrder'
    <3>1. CASE pc = "entering" /\ line = Started(next, Opening)
      BY <1>7, <2>1, <3>1, StartedInOrder DEF SInv, Started
    <3>2. CASE stack # <<>> /\ line = Ended(Innermost, Closing, raised, "unpriced")
      BY <1>7, <2>1, <3>2, EndedInOrder DEF SInv, Ended
    <3> QED
      BY <1>7, <3>1, <3>2
  <2>5. line.sid < next'
    <3>1. CASE pc = "entering" /\ line = Started(next, Opening)
      BY <1>1, <1>2, <3>1 DEF Started
    <3>2. CASE stack # <<>> /\ line = Ended(Innermost, Closing, raised, "unpriced")
      <4>1. Innermost < next /\ Innermost \in Int
        BY <3>2, StackParts DEF SInv, SessionTypeOK, Nested, Sid
      <4>2. line.sid = Innermost
        BY <3>2 DEF Ended
      <4> QED
        BY <1>2, <4>1, <4>2
    <3> QED
      BY <1>7, <3>1, <3>2
  <2>6. OfTheHeld'
    <3>1. \A i \in DOMAIN lines' : lines'[i].sid < next'
      BY <1>2, <2>2, <2>3, <2>5 DEF SInv, OfTheHeld
    <3> QED
      BY <1>1, <3>1 DEF OfTheHeld
  <2>7. EndsAreTrue'
    <3> SUFFICES ASSUME NEW m \in DOMAIN lines', lines'[m].event = "ended"
                 PROVE  fate'[lines'[m].sid] \in IF lines'[m].failed THEN {"raised", "killed"}
                                                 ELSE {"answered", "killed"}
      BY DEF EndsAreTrue
    <3>1. CASE m \in DOMAIN lines /\ lines'[m] = lines[m]
      <4>1. lines[m].sid \in Sid /\ \A a \in DOMAIN stack : lines[m].sid # stack[a]
        BY <2>2, <3>1 DEF SInv, OfTheHeld
      <4>2. fate'[lines[m].sid] = fate[lines[m].sid]
        BY <1>3, <4>1
      <4> QED
        BY <3>1, <4>2 DEF SInv, EndsAreTrue
    <3>2. CASE lines'[m] = line
      <4>1. stack # <<>> /\ line.sid = Innermost
        BY <1>7, <3>2 DEF Started, Ended
      <4>2. fate'[Innermost] = "killed"
        BY <1>1, <4>1, StackParts DEF SInv, SessionTypeOK
      <4> QED
        BY <3>2, <4>1, <4>2
    <3> QED
      BY <2>3, <3>1, <3>2
  <2>8. AllThere'
    BY <2>1 DEF AllThere
  <2>9. SessionTypeOK'
    BY <1>5, <2>1, <2>2
  <2> QED
    BY <1>4, <2>1, <2>4, <2>6, <2>7, <2>8, <2>9 DEF SInv
<1>8. CASE pc = "entering" /\ Torn(Started(next, Opening))
  BY <1>7, <1>8, LinesWritten DEF SInv
<1>9. CASE pc = "unwinding" /\ stack # <<>> /\ Torn(Ended(Innermost, Closing, raised, "unpriced"))
  BY <1>7, <1>9, LinesWritten DEF SInv, Costs
<1> QED
  BY <1>6, <1>8, <1>9 DEF Killed

-----------------------------------------------------------------------------
(* The theorems. *)

\* Before the first stage there is nothing.
LEMMA InitSafe == SessionInit => SInv
<1> SUFFICES ASSUME SessionInit PROVE SInv
  OBVIOUS
<1>1. lines = <<>> /\ stack = <<>> /\ DOMAIN lines = {} /\ DOMAIN stack = {}
  BY DEF SessionInit
<1>2. SessionTypeOK
  <2>1. next \in 1..(MaxSessions + 1)
    BY SessionAssumption DEF SessionInit
  <2>2. lines \in Seq([event : {"started", "ended"}, sid : Sid, stage : Stages,
                       failed : BOOLEAN, cost : Costs \cup {NoCost}])
        /\ stack \in Seq(Sid) /\ Len(stack) <= width /\ width = 0
    BY <1>1 DEF SessionInit
  <2>3. writes \in [tried : Nat, torn : Nat, refused : Nat]
    BY DEF SessionInit
  <2> QED
    BY <2>1, <2>2, <2>3 DEF SessionInit, SessionTypeOK
<1>3. Room /\ Nested /\ InOrder /\ OfTheHeld /\ EndsAreTrue
  BY <1>1 DEF SessionInit, Room, Nested, InOrder, OfTheHeld, EndsAreTrue
<1>4. AllThere
  BY <1>1 DEF SessionInit, AllThere
<1>5. Accounted
  <2>1. writes.tried = 0 /\ writes.torn = 0 /\ writes.refused = 0 /\ StillToLose = 0
        /\ Len(lines) = 0 /\ tail = "whole"
    BY DEF SessionInit, StillToLose
  <2> QED
    BY <2>1 DEF Accounted
<1> QED
  BY <1>2, <1>3, <1>4, <1>5 DEF SInv

\* No step of the driver, no failure of a write and no kill breaks the invariant.
THEOREM SessionInductive == SessionSpec => []SInv
<1>1. SessionInit => SInv
  BY InitSafe
<1>2. SInv /\ [SessionNext]_sessionVars => SInv'
  <2> SUFFICES ASSUME SInv, [SessionNext]_sessionVars PROVE SInv'
    OBVIOUS
  <2>1. CASE UNCHANGED sessionVars
    <3>1. UNCHANGED <<lines, tail, writes, next, stack, width, pc, raised, fate>>
      BY <2>1 DEF sessionVars, file, driver
    <3>2. SessionTypeOK' /\ Room' /\ Nested'
      BY <3>1 DEF SInv, SessionTypeOK, Room, Nested
    <3>3. InOrder' /\ OfTheHeld' /\ EndsAreTrue' /\ AllThere' /\ Accounted'
      BY <3>1, FileStays DEF SInv, SessionTypeOK, file
    <3> QED
      BY <3>2, <3>3 DEF SInv
  <2> QED
    BY <2>1, BeginStageSafe, SameSessionsSafe, UnaccountedSafe, EnterSafe, LeaveSafe, KilledSafe
       DEF SessionNext
<1> QED
  BY <1>1, <1>2, PTL DEF SessionSpec

\* The account and its driver have the shape the code gives them.
THEOREM SessionTypeCorrect == SessionSpec => []SessionTypeOK
<1>1. SInv => SessionTypeOK
  BY DEF SInv
<1> QED
  BY <1>1, SessionInductive, PTL

\* Whatever lines of sessions.jsonl are lost, those that are left bracket the
\* sessions (sessions._accounted, sessionlog.write), for any number of stages,
\* of sessions in a stage and of kills.
THEOREM LinesStayBracketed == SessionSpec => []LinesBracket
<1>1. SInv => LinesBracket
  BY DEF SInv, InOrder, LinesBracket, EndOf, LinesOf
<1> QED
  BY <1>1, SessionInductive, PTL

\* A write cut short costs two lines at most, a refused one itself: there is no
\* sequence of failures, kills and appends that costs more (sessionlog.write).
THEOREM LossStaysBounded == SessionSpec => []LossIsBounded
<1>1. ASSUME SInv PROVE LossIsBounded
  <2> DEFINE t == writes.tried  k == writes.torn  r == writes.refused
             n == Len(lines)  o == StillToLose
  <2>1. t - n + o <= 2 * k + r
    BY <1>1 DEF SInv, Accounted
  <2>2. t \in Nat /\ k \in Nat /\ r \in Nat /\ n \in Nat /\ o \in Nat
    BY <1>1 DEF SInv, SessionTypeOK, StillToLose
  <2> HIDE DEF t, k, r, n, o
  <2>3. t - n <= 2 * k + r
    BY <2>1, <2>2
  <2> QED
    BY <2>3 DEF LossIsBounded, t, k, r, n
<1> QED
  BY <1>1, SessionInductive, PTL

\* The page never shows an end a session did not have, and while no line was
\* lost none is left running that is not (runview.survey, sweep._in_flight).
THEOREM ShownEndsAreTrue == SessionSpec => []ShownAsItWas
<1>1. ASSUME SInv PROVE ShownAsItWas
  <2>1. /\ lines \in Seq(Line) /\ DOMAIN lines = 1..Len(lines) /\ Len(lines) \in Nat
        /\ \A i \in DOMAIN lines : lines[i].sid \in Sid /\ lines[i].event \in {"started", "ended"}
    BY <1>1, LinesTyped DEF SInv
  <2>2. \A s \in Sid : fate[s] \in {"none", "open", "answered", "raised", "unaccounted", "killed"}
    BY <1>1 DEF SInv, SessionTypeOK
  <2>3. \A m \in DOMAIN lines : lines[m].event = "ended" =>
           /\ lines[m].failed => fate[lines[m].sid] \in {"raised", "killed"}
           /\ ~lines[m].failed => fate[lines[m].sid] \in {"answered", "killed"}
    BY <1>1 DEF SInv, EndsAreTrue
  <2>4. ASSUME NEW i \in LinesOf("started"), Lossless, EndOf(lines[i].sid) = {}
        PROVE  fate[lines[i].sid] \in {"open", "killed", "unaccounted"}
    <3>1. i \in DOMAIN lines /\ lines[i].event = "started"
      BY <2>4 DEF LinesOf
    <3>2. fate[lines[i].sid] # "none"
      BY <1>1, <2>1, <2>4, <3>1 DEF SInv, AllThere
    <3>3. fate[lines[i].sid] \notin {"answered", "raised"}
      BY <1>1, <2>1, <2>4, <3>1 DEF SInv, AllThere, EndOf, LinesOf
    <3> QED
      BY <2>1, <2>2, <3>1, <3>2, <3>3
  <2>5. ASSUME CellOpen, Lossless
        PROVE  fate[lines[Len(lines)].sid] \in {"open", "killed", "unaccounted"}
    <3>1. Len(lines) \in DOMAIN lines /\ lines[Len(lines)].event = "started"
      BY <2>1, <2>5 DEF CellOpen
    <3>2. ASSUME NEW m \in DOMAIN lines, lines[m].event = "ended",
                 lines[m].sid = lines[Len(lines)].sid
          PROVE  FALSE
      <4>1. m < Len(lines)
        BY <2>1, <3>1, <3>2
      <4> QED
        BY <1>1, <3>1, <3>2, <4>1 DEF SInv, InOrder
    <3>3. EndOf(lines[Len(lines)].sid) = {}
      BY <3>2 DEF EndOf, LinesOf
    <3> QED
      BY <2>4, <2>5, <3>1, <3>3 DEF LinesOf
  <2>6. ASSUME NEW i \in LinesOf("started")
        PROVE  /\ Shown(lines[i].sid) = "DONE" => fate[lines[i].sid] \in {"answered", "killed"}
               /\ Shown(lines[i].sid) = "FAILED" => fate[lines[i].sid] \in {"raised", "killed"}
               /\ Shown(lines[i].sid) = "RUNNING" /\ Lossless =>
                     fate[lines[i].sid] \in {"open", "killed", "unaccounted"}
    <3>1. \A m \in EndOf(lines[i].sid) :
             m \in DOMAIN lines /\ lines[m].event = "ended" /\ lines[m].sid = lines[i].sid
      BY DEF EndOf, LinesOf
    <3>2. Shown(lines[i].sid) = "RUNNING" => EndOf(lines[i].sid) = {}
      BY DEF Shown
    <3>3. Shown(lines[i].sid) = "FAILED" => \E m \in EndOf(lines[i].sid) : lines[m].failed
      BY DEF Shown
    <3>4. Shown(lines[i].sid) = "DONE" => \E m \in EndOf(lines[i].sid) : ~lines[m].failed
      BY DEF Shown
    <3> QED
      BY <2>3, <2>4, <3>1, <3>2, <3>3, <3>4
  <2> QED
    BY <2>5, <2>6 DEF ShownAsItWas, Lossless
<1> QED
  BY <1>1, SessionInductive, PTL

\* A total the page shows is never more than the run spent, and with every
\* session ended, measured and written down it is all of it (runview._money),
\* whatever the number of sessions and of stages begun again.
THEOREM BillStaysWhole == SessionSpec => []BillIsWhole
<1>1. ASSUME SInv PROVE BillIsWhole
  <2> SUFFICES ASSUME Total # Withheld
               PROVE  /\ Total <= Cardinality(Held)
                      /\ Count("RUNNING") = 0 /\ Measured = EndedSids /\ Lossless =>
                            Total = Cardinality(Held)
    BY DEF BillIsWhole, Lossless
  <2>1. /\ lines \in Seq(Line) /\ DOMAIN lines = 1..Len(lines) /\ Len(lines) \in Nat
        /\ \A i \in DOMAIN lines : lines[i].sid \in Sid
    BY <1>1, LinesTyped DEF SInv
  <2>2. Priced = Measured /\ Total = Cardinality(Priced)
    BY DEF Total
  <2>3. EndedSids \subseteq Held
    <3> SUFFICES ASSUME NEW m \in DOMAIN lines, lines[m].event = "ended"
                 PROVE  lines[m].sid \in Held
      BY DEF EndedSids, LinesOf
    <3>1. fate[lines[m].sid] # "none"
      BY <1>1 DEF SInv, EndsAreTrue
    <3> QED
      BY <2>1, <3>1 DEF Held
  <2>4. IsFiniteSet(Held)
    <3>1. IsFiniteSet(1..MaxSessions)
      BY FS_Interval, SessionAssumption
    <3> QED
      BY <3>1, FS_Subset DEF Held, Sid
  <2>5. Cardinality(Priced) <= Cardinality(Held)
    <3>1. Priced \subseteq Held
      BY <2>3 DEF Priced, Measured
    <3> QED
      BY <2>4, <3>1, FS_Subset
  <2>6. ASSUME Count("RUNNING") = 0, Lossless
        PROVE  Held \subseteq EndedSids
    <3> DEFINE Running == {i \in LinesOf("started") : Shown(lines[i].sid) = "RUNNING"}
    <3>1. IsFiniteSet(Running)
      <4>1. IsFiniteSet(1..Len(lines))
        BY <2>1, FS_Interval
      <4>2. Running \subseteq 1..Len(lines)
        BY <2>1 DEF LinesOf
      <4> QED
        BY <4>1, <4>2, FS_Subset
    <3>2. Running = {}
      BY <2>6, <3>1, FS_EmptySet DEF Count
    <3>3. ASSUME NEW s \in Held PROVE s \in EndedSids
      <4>1. s \in Sid /\ fate[s] # "none"
        BY DEF Held
      <4>2. PICK i \in DOMAIN lines : lines[i].event = "started" /\ lines[i].sid = s
        BY <1>1, <2>6, <4>1 DEF SInv, AllThere
      <4>3. Shown(s) # "RUNNING"
        BY <3>2, <4>2 DEF LinesOf
      <4>4. EndOf(s) # {}
        BY <4>3 DEF Shown
      <4> QED
        BY <4>4 DEF EndOf, EndedSids
    <3> QED
      BY <3>3
  <2>7. Count("RUNNING") = 0 /\ Measured = EndedSids /\ Lossless => Priced = Held
    BY <2>2, <2>3, <2>6
  <2> QED
    BY <2>2, <2>5, <2>7
<1> QED
  BY <1>1, SessionInductive, PTL

-----------------------------------------------------------------------------
(* The page: the session that is at work is the last one of its stage. *)

\* Where the open sessions are: in the stack, with ids that follow each other,
\* and the started lines since the outermost are those of this stage, in order.
Placed ==
    /\ \A s \in Sid : fate[s] = "open" => \E a \in DOMAIN stack : stack[a] = s
    /\ \A a \in DOMAIN stack : stack[a] = stack[1] + (a - 1)
    /\ pc \in {"entering", "checking"} /\ stack # <<>> => next = stack[1] + Len(stack)
    /\ stack # <<>> => \A i \in DOMAIN lines :
          lines[i].event = "started" /\ stack[1] <= lines[i].sid =>
              LET place == lines[i].sid - stack[1] + 1
              IN  place \in 1..width /\ lines[i].stage = StageNames[width][place]

\* The driver goes on with the sessions it has.
LEMMA SameSessionsPlaced ==
  ASSUME SInv, Placed, EnterFails \/ BudgetsAgree \/ BodyEnds \/ StageOver
  PROVE  Placed'
<1>1. UNCHANGED <<lines, next, stack, width, fate>>
  BY DEF EnterFails, BudgetsAgree, BodyEnds, StageOver, file
<1>2. pc' \in {"entering", "checking"} => pc \in {"entering", "checking"}
  BY DEF EnterFails, BudgetsAgree, BodyEnds, StageOver
<1> QED
  BY <1>1, <1>2 DEF Placed

\* A stage that begins holds none, nor does one that was killed.
LEMMA NoSessionsPlaced ==
  ASSUME SInv, Placed, BeginStage \/ Killed
  PROVE  Placed'
<1>1. stack' = <<>>
  BY DEF BeginStage, Killed, SInv, Room
<1>2. ASSUME NEW s \in Sid PROVE fate'[s] # "open"
  <2>1. CASE BeginStage
    BY <2>1 DEF BeginStage, SInv, Room, Placed
  <2>2. CASE Killed
    <3>1. fate'[s] = IF \E i \in DOMAIN stack : stack[i] = s THEN "killed" ELSE fate[s]
      BY <2>2 DEF Killed
    <3> QED
      BY <3>1 DEF Placed
  <2> QED
    BY <2>1, <2>2
<1> QED
  BY <1>1, <1>2 DEF Placed

\* The innermost session is let go, with an ended line or none.
LEMMA InnermostGone ==
  ASSUME SInv, Placed, stack # <<>>, stack' = Enclosing, width' = width, pc' = "unwinding",
         \A i \in DOMAIN lines' : lines'[i].event = "started" =>
             i \in DOMAIN lines /\ lines'[i] = lines[i],
         \A s \in Sid : fate'[s] = "open" => fate[s] = "open" /\ s # Innermost
  PROVE  Placed'
<1>1. /\ stack \in Seq(Sid) /\ Len(stack) \in DOMAIN stack /\ Innermost = stack[Len(stack)]
      /\ stack' \in Seq(Sid) /\ Len(stack') = Len(stack) - 1
      /\ \A a \in DOMAIN stack' : a \in DOMAIN stack /\ stack'[a] = stack[a]
  BY StackParts DEF SInv, SessionTypeOK
<1>2. DOMAIN stack = 1..Len(stack) /\ DOMAIN stack' = 1..Len(stack') /\ Len(stack) \in Nat
  BY <1>1
<1>3. stack' # <<>> => 1 \in DOMAIN stack' /\ stack'[1] = stack[1]
  BY <1>1
<1>4. ASSUME NEW s \in Sid, fate'[s] = "open" PROVE \E a \in DOMAIN stack' : stack'[a] = s
  <2>1. PICK a \in DOMAIN stack : stack[a] = s
    BY <1>4 DEF Placed
  <2>2. a # Len(stack)
    BY <1>1, <1>4, <2>1
  <2> QED
    BY <1>1, <1>2, <2>1, <2>2
<1>5. \A a \in DOMAIN stack' : stack'[a] = stack'[1] + (a - 1)
  BY <1>1, <1>2 DEF Placed
<1>6. ASSUME stack' # <<>>, NEW i \in DOMAIN lines', lines'[i].event = "started",
             stack'[1] <= lines'[i].sid
      PROVE  /\ lines'[i].sid - stack'[1] + 1 \in 1..width'
             /\ lines'[i].stage = StageNames[width'][lines'[i].sid - stack'[1] + 1]
  BY <1>3, <1>6 DEF Placed
<1> QED
  BY <1>4, <1>5, <1>6 DEF Placed

\* A session is opened: it follows the one around it, or is the outermost.
LEMMA EnterPlaced ==
  ASSUME SInv, Placed, Enter
  PROVE  Placed'
<1> DEFINE line == Started(next, Opening)
<1>1. /\ pc = "entering" /\ Write(line) /\ stack' = Append(stack, next)
      /\ fate' = [fate EXCEPT ![next] = "open"] /\ next' = next + 1 /\ width' = width
  BY DEF Enter
<1>2. next \in Sid /\ line \in Line /\ line.event = "started" /\ line.sid = next
      /\ line.stage = StageNames[width][Len(stack) + 1]
  BY <1>1, LinesWritten DEF SInv, Started, Opening
<1> HIDE DEF line
<1>3. \A i \in DOMAIN lines' :
         \/ i \in DOMAIN lines /\ lines'[i] = lines[i]
         \/ i = Len(lines) + 1 /\ lines'[i] = line
  BY <1>1, <1>2, WriteGrows DEF SInv, Grown
<1>4. /\ stack \in Seq(Sid) /\ stack' \in Seq(Sid) /\ Len(stack') = Len(stack) + 1
      /\ Len(stack) \in Nat /\ Len(stack) < width /\ width \in Int /\ next \in Int
      /\ DOMAIN stack' = 1..(Len(stack) + 1) /\ DOMAIN stack = 1..Len(stack)
      /\ \A a \in DOMAIN stack : stack'[a] = stack[a] /\ stack[a] \in Int
      /\ stack'[Len(stack) + 1] = next
  BY <1>1, <1>2, SessionAssumption, SMTT(30) DEF SInv, SessionTypeOK, Room, Sid
<1>5. stack'[1] + Len(stack) = next /\ stack'[1] \in Int
  <2>1. CASE stack = <<>>
    BY <1>4, <2>1
  <2>2. CASE stack # <<>>
    BY <1>1, <1>4, <2>2 DEF Placed
  <2> QED
    BY <2>1, <2>2
<1>6. ASSUME NEW s \in Sid, fate'[s] = "open" PROVE \E a \in DOMAIN stack' : stack'[a] = s
  <2>1. CASE s = next
    BY <1>4, <2>1
  <2>2. CASE s # next
    <3>1. fate[s] = "open"
      BY <1>1, <1>6, <2>2 DEF SInv, SessionTypeOK
    <3>2. PICK a \in DOMAIN stack : stack[a] = s
      BY <3>1 DEF Placed
    <3> QED
      BY <1>4, <3>2
  <2> QED
    BY <2>1, <2>2
<1>7. ASSUME NEW a \in DOMAIN stack' PROVE stack'[a] = stack'[1] + (a - 1)
  <2>1. CASE a \in DOMAIN stack
    BY <1>4, <2>1 DEF Placed
  <2>2. CASE a = Len(stack) + 1
    BY <1>4, <1>5, <2>2
  <2> QED
    BY <1>4, <2>1, <2>2
<1>8. next' = stack'[1] + Len(stack')
  BY <1>1, <1>4, <1>5
<1>9. ASSUME NEW i \in DOMAIN lines', lines'[i].event = "started", stack'[1] <= lines'[i].sid
      PROVE  /\ lines'[i].sid - stack'[1] + 1 \in 1..width'
             /\ lines'[i].stage = StageNames[width'][lines'[i].sid - stack'[1] + 1]
  <2>1. CASE lines'[i] = line
    <3>1. lines'[i].sid - stack'[1] + 1 = Len(stack) + 1
      BY <1>2, <1>4, <1>5, <2>1
    <3> QED
      BY <1>1, <1>2, <1>4, <2>1, <3>1
  <2>2. CASE i \in DOMAIN lines /\ lines'[i] = lines[i]
    <3>1. lines[i].sid < next /\ lines[i].sid \in Int
      BY <2>2, LinesTyped DEF SInv, OfTheHeld
    <3>2. stack # <<>>
      BY <1>4, <1>5, <1>9, <2>2, <3>1
    <3>3. stack'[1] = stack[1]
      BY <1>4, <3>2
    <3> QED
      BY <1>1, <1>9, <2>2, <3>2, <3>3 DEF Placed
  <2> QED
    BY <1>3, <2>1, <2>2
<1> QED
  BY <1>6, <1>7, <1>8, <1>9 DEF Placed

\* A session is let go with its ended line.
LEMMA LeavePlaced ==
  ASSUME SInv, Placed, Leave
  PROVE  Placed'
<1>1. PICK c \in Costs : Write(Ended(Innermost, Closing, raised, c))
  BY DEF Leave
<1> DEFINE line == Ended(Innermost, Closing, raised, c)
<1>2. /\ pc = "unwinding" /\ pc' = "unwinding" /\ stack # <<>> /\ stack' = Enclosing
      /\ width' = width
      /\ fate' = [fate EXCEPT ![Innermost] = IF raised THEN "raised" ELSE "answered"]
  BY DEF Leave
<1>3. line \in Line /\ line.event = "ended"
  BY <1>2, LinesWritten DEF SInv, Ended
<1> HIDE DEF line
<1>4. \A i \in DOMAIN lines' :
         \/ i \in DOMAIN lines /\ lines'[i] = lines[i]
         \/ i = Len(lines) + 1 /\ lines'[i] = line
  BY <1>1, <1>3, WriteGrows DEF SInv, Grown, line
<1>5. \A i \in DOMAIN lines' : lines'[i].event = "started" =>
         i \in DOMAIN lines /\ lines'[i] = lines[i]
  BY <1>3, <1>4
<1>6. \A s \in Sid : fate'[s] = "open" => fate[s] = "open" /\ s # Innermost
  BY <1>2 DEF SInv, SessionTypeOK
<1> QED
  BY <1>2, <1>5, <1>6, InnermostGone

\* A session is let go without one.
LEMMA UnaccountedPlaced ==
  ASSUME SInv, Placed, BudgetsDiffer \/ LeaveUnmeasured
  PROVE  Placed'
<1>1. /\ lines' = lines /\ width' = width /\ stack' = Enclosing /\ pc' = "unwinding"
      /\ fate' = [fate EXCEPT ![Innermost] = "unaccounted"]
  BY DEF BudgetsDiffer, LeaveUnmeasured, file
<1>2. stack # <<>>
  BY DEF SInv, SessionTypeOK, Room, BudgetsDiffer, LeaveUnmeasured
<1>3. \A s \in Sid : fate'[s] = "open" => fate[s] = "open" /\ s # Innermost
  BY <1>1 DEF SInv, SessionTypeOK
<1> QED
  BY <1>1, <1>2, <1>3, InnermostGone

\* The open sessions stay at their places whatever the driver does and dies in.
THEOREM PlacesInductive == SessionSpec => [](SInv /\ Placed)
<1>1. SessionInit => SInv /\ Placed
  BY InitSafe DEF SessionInit, Placed
<1>2. SInv /\ Placed /\ [SessionNext]_sessionVars => Placed'
  <2> SUFFICES ASSUME SInv, Placed, [SessionNext]_sessionVars PROVE Placed'
    OBVIOUS
  <2>1. CASE UNCHANGED sessionVars
    BY <2>1 DEF sessionVars, file, driver, Placed
  <2> QED
    BY <2>1, SameSessionsPlaced, NoSessionsPlaced, EnterPlaced, LeavePlaced, UnaccountedPlaced
       DEF SessionNext
<1> QED
  BY <1>1, <1>2, SessionInductive, PTL DEF SessionSpec

\* Of the started lines of a stage, the one of an open session is the last.
LEMMA OpenIsLast ==
  ASSUME SInv, Placed, NEW i \in DOMAIN lines, NEW j \in DOMAIN lines,
         lines[i].event = "started", lines[j].event = "started",
         lines[i].stage = lines[j].stage, fate[lines[i].sid] = "open"
  PROVE  j <= i
<1>1. /\ lines \in Seq(Line) /\ DOMAIN lines = 1..Len(lines) /\ Len(lines) \in Nat
      /\ lines[i].sid \in Sid /\ lines[i].sid \in Int /\ lines[j].sid \in Int
  BY LinesTyped DEF SInv
<1>2. PICK a \in DOMAIN stack : stack[a] = lines[i].sid
  BY <1>1 DEF Placed
<1>3. /\ stack \in Seq(Sid) /\ stack # <<>> /\ DOMAIN stack = 1..Len(stack)
      /\ 1 \in DOMAIN stack /\ stack[1] \in Int
  <2>1. stack \in Seq(Sid)
    BY DEF SInv, SessionTypeOK
  <2>2. DOMAIN stack = 1..Len(stack) /\ Len(stack) \in Nat /\ 1 \in DOMAIN stack
    BY <1>2, <2>1
  <2>3. stack[1] \in Int
    <3>1. stack[1] \in Sid
      BY <2>1, <2>2
    <3> QED
      BY <3>1, SessionAssumption DEF Sid
  <2> QED
    BY <2>1, <2>2, <2>3
<1>4. stack[1] <= lines[i].sid
  BY <1>1, <1>2, <1>3 DEF Placed
<1>5. width \in Widths
  BY <1>3 DEF SInv, Room
<1> SUFFICES ASSUME i < j PROVE FALSE
  BY <1>1
<1>6. lines[i].sid < lines[j].sid
  BY DEF SInv, InOrder
<1> DEFINE p == lines[i].sid - stack[1] + 1
           q == lines[j].sid - stack[1] + 1
<1>7. /\ p \in 1..width /\ lines[i].stage = StageNames[width][p]
      /\ q \in 1..width /\ lines[j].stage = StageNames[width][q]
  <2>1. \A k \in DOMAIN lines : lines[k].event = "started" /\ stack[1] <= lines[k].sid =>
           /\ lines[k].sid - stack[1] + 1 \in 1..width
           /\ lines[k].stage = StageNames[width][lines[k].sid - stack[1] + 1]
    BY <1>3 DEF Placed
  <2>2. stack[1] <= lines[j].sid
    BY <1>1, <1>3, <1>4, <1>6
  <2> QED
    BY <1>4, <2>1, <2>2
<1>8. p < q /\ p \in Int /\ q \in Int
  BY <1>1, <1>3, <1>6, SMTT(30)
<1> HIDE DEF p, q
<1>9. \A x, y \in 1..width : StageNames[width][x] = StageNames[width][y] => x = y
  BY <1>5, SessionAssumption
<1>10. StageNames[width][p] = StageNames[width][q]
  BY <1>7
<1>11. p = q
  BY <1>7, <1>9, <1>10
<1> QED
  BY <1>8, <1>11

\* Of some lines there is a last.
LEMMA LastOfLines ==
  ASSUME NEW n \in Nat, NEW S \in SUBSET (1..n), S # {}
  PROVE  Max(S) \in S /\ \A j \in S : j <= Max(S)
<1> DEFINE Back == {n - j : j \in S}
           R == {ss \in Nat \X Nat : ss[1] < ss[2]}
<1>1. Back \in SUBSET Nat /\ Back # {}
  OBVIOUS
<1>2. IsWellFoundedOn(R, Nat)
  BY NatLessThanWellFounded, Zenon DEF OpToRel
<1> HIDE DEF R
<1>4. PICK b \in Back : \A c \in Back : <<c, b>> \notin R
  BY <1>1, <1>2, WFMin
<1>5. PICK m \in S : b = n - m
  BY <1>4
<1>6. ASSUME NEW j \in S PROVE m >= j
  <2>1. n - j \in Back /\ n - j \in Nat /\ b \in Nat
    BY <1>1, <1>5
  <2>2. n - j < b => <<n - j, b>> \in R
    BY <2>1 DEF R
  <2>3. b <= n - j
    BY <1>4, <2>1, <2>2
  <2> QED
    BY <1>5, <2>1, <2>3
<1>7. Max(S) \in S /\ \A j \in S : Max(S) >= j
  BY <1>6 DEF Max
<1> QED
  BY <1>7

\* The last card of a stage, where there is one.
LEMMA LastCard ==
  ASSUME lines \in Seq(Line), NEW stage, NEW i \in LinesOf("started"), lines[i].stage = stage
  PROVE  LET its == CardsOf(stage, Observed)
         IN  /\ its # {} /\ Max(its) \in its /\ its \subseteq LinesOf("started")
             /\ \A j \in LinesOf("started") : lines[j].stage = stage => j <= Max(its)
<1> DEFINE its == CardsOf(stage, Observed)
<1>1. its = {j \in LinesOf("started") : lines[j].stage = stage}
  BY DEF CardsOf, Observed, Card
<1>2. i \in its /\ its \subseteq 1..Len(lines) /\ Len(lines) \in Nat
  BY <1>1 DEF LinesOf
<1> HIDE DEF its
<1>4. Max(its) \in its /\ \A j \in its : j <= Max(its)
  BY <1>2, LastOfLines
<1> QED
  BY <1>1, <1>2, <1>4 DEF its

\* However often a stage was begun again, the page shows the session that is at
\* work, the plan in its order with each stage once, and every session of a
\* stage the daemon does not list (runview.survey, plan.merge), for any stages,
\* any plan and any lines lost.
THEOREM PageIsTheWork == SessionSpec => []PageShowsTheWork
<1>1. ASSUME SInv, Placed PROVE PageShowsTheWork
  <2> DEFINE page == Merged
             cards == Range(page.planned) \cup Range(page.added)
  <2>1. /\ lines \in Seq(Line) /\ DOMAIN lines = 1..Len(lines) /\ Len(lines) \in Nat
        /\ \A i \in DOMAIN lines : lines[i].sid \in Sid /\ lines[i].stage \in Stages
    <3>1. \A line \in Line : line.stage \in Stages
      BY DEF Line
    <3>2. lines \in Seq(Line) /\ \A i \in DOMAIN lines : lines[i].sid \in Sid
      BY <1>1, LinesTyped DEF SInv
    <3> QED
      BY <3>1, <3>2
  <2>2. \A i \in LinesOf("started") :
           /\ Observed[i].stage = lines[i].stage /\ Observed[i].sid = lines[i].sid
           /\ Observed[i].state = Shown(lines[i].sid)
    BY DEF Observed, Card
  <2>3. ASSUME NEW i \in LinesOf("started"), lines[i].stage \notin Listed
        PROVE  Observed[i] \in cards
    <3>1. i \in DOMAIN page.added /\ page.added[i] = Observed[i]
      BY <2>2, <2>3 DEF Merged, Restrict, Observed, Card
    <3> QED
      BY <3>1 DEF Range
  <2>4. ASSUME NEW i \in LinesOf("started"), lines[i].stage \in Listed
        PROVE  LET last == Max(CardsOf(lines[i].stage, Observed))
               IN  /\ Observed[last] \in cards
                   /\ last \in LinesOf("started") /\ lines[last].stage = lines[i].stage
                   /\ \A j \in LinesOf("started") : lines[j].stage = lines[i].stage => j <= last
    <3> DEFINE its == CardsOf(lines[i].stage, Observed)
    <3>1. /\ its # {} /\ Max(its) \in its /\ its \subseteq LinesOf("started")
          /\ \A j \in LinesOf("started") : lines[j].stage = lines[i].stage => j <= Max(its)
      BY <2>1, LastCard
    <3>2. lines[Max(its)].stage = lines[i].stage
      <4> DEFINE last == Max(its)
      <4>1. last \in LinesOf("started") /\ Observed[last].stage = lines[i].stage
        BY <3>1 DEF CardsOf
      <4> HIDE DEF last
      <4>2. lines[last].stage = lines[i].stage
        BY <2>2, <4>1
      <4> QED
        BY <4>2 DEF last
    <3>3. PICK p \in DOMAIN PlanOrder : PlanOrder[p] = lines[i].stage
      BY <2>1, PageAssumption DEF ToSet, LinesOf
    <3>4. p \in Assembled /\ Planned[p].stage = lines[i].stage
      BY <2>4, <3>3 DEF Assembled, Planned, Card
    <3>5. page.planned = [x \in Assembled |-> PaintedOn(Planned[x], Observed)]
      BY DEF Merged
    <3>6. page.planned[p] = Observed[Max(its)]
      BY <3>1, <3>4, <3>5 DEF PaintedOn
    <3>7. Observed[Max(its)] \in cards
      BY <3>4, <3>5, <3>6 DEF Range
    <3> QED
      BY <3>1, <3>2, <3>7
  <2>5. ASSUME NEW i \in LinesOf("started"), fate[lines[i].sid] = "open"
        PROVE  Shown(lines[i].sid) = "RUNNING" /\ Observed[i] \in cards
    <3>1. PICK a \in DOMAIN stack : stack[a] = lines[i].sid
      BY <1>1, <2>1, <2>5 DEF Placed, LinesOf
    <3>2. EndOf(lines[i].sid) = {}
      BY <1>1, <3>1 DEF SInv, OfTheHeld, EndOf, LinesOf
    <3>3. CASE lines[i].stage \in Listed
      <4> DEFINE last == Max(CardsOf(lines[i].stage, Observed))
      <4>1. /\ Observed[last] \in cards /\ last \in LinesOf("started")
            /\ lines[last].stage = lines[i].stage /\ i <= last
        BY <2>4, <3>3
      <4> HIDE DEF last, cards
      <4>2. last <= i
        BY <1>1, <2>5, <4>1, OpenIsLast DEF LinesOf
      <4>3. last = i
        BY <2>1, <4>1, <4>2 DEF LinesOf
      <4> QED
        BY <3>2, <4>1, <4>3 DEF Shown
    <3> QED
      BY <2>3, <3>2, <3>3 DEF Shown
  <2>6. ASSUME NEW p \in Assembled PROVE page.planned[p].stage = PlanOrder[p]
    <3> DEFINE its == CardsOf(PlanOrder[p], Observed)
    <3>1. page.planned[p] = PaintedOn(Planned[p], Observed) /\ Planned[p].stage = PlanOrder[p]
      BY DEF Merged, Planned, Card
    <3>2. CASE its = {}
      BY <3>1, <3>2 DEF PaintedOn
    <3>3. CASE its # {}
      <4>1. PICK i \in LinesOf("started") : lines[i].stage = PlanOrder[p]
        BY <2>2, <3>3 DEF CardsOf, Observed, Card
      <4>2. Max(its) \in its
        BY <2>1, <4>1, LastCard
      <4>3. page.planned[p] = Observed[Max(its)]
        BY <3>1, <3>3 DEF PaintedOn
      <4> QED
        BY <4>2, <4>3 DEF CardsOf
    <3> QED
      BY <3>2, <3>3
  <2> HIDE DEF page, cards
  <2>7. ASSUME NEW s \in SessionIds, fate[s] = "open"
        PROVE  \E card \in cards : card.sid = s /\ card.state = "RUNNING"
    <3>1. PICK i \in LinesOf("started") : lines[i].sid = s
      BY DEF SessionIds
    <3>2. Observed[i] \in cards /\ Observed[i].sid = s /\ Observed[i].state = "RUNNING"
      BY <2>2, <2>5, <2>7, <3>1
    <3> QED
      BY <3>2
  <2>8. ASSUME NEW i \in LinesOf("started")
        PROVE  \/ \E card \in cards : card.sid = lines[i].sid
               \/ \E k \in LinesOf("started") :
                     /\ i < k /\ lines[k].stage = lines[i].stage
                     /\ lines[i].stage \notin Missing
    <3>1. Observed[i].sid = lines[i].sid
      BY <2>2
    <3>2. CASE lines[i].stage \notin Listed
      BY <2>3, <3>1, <3>2
    <3>3. CASE lines[i].stage \in Listed
      <4> DEFINE last == Max(CardsOf(lines[i].stage, Observed))
      <4>1. /\ Observed[last] \in cards /\ last \in LinesOf("started")
            /\ lines[last].stage = lines[i].stage /\ i <= last
        BY <2>4, <3>3
      <4> HIDE DEF last
      <4>2. CASE last = i
        BY <3>1, <4>1, <4>2
      <4>3. CASE last # i
        <5>1. i < last
          BY <2>1, <4>1, <4>3 DEF LinesOf
        <5> QED
          BY <3>3, <4>1, <5>1 DEF Missing
      <4> QED
        BY <4>2, <4>3
    <3> QED
      BY <3>2, <3>3
  <2> QED
    BY <2>6, <2>7, <2>8 DEF PageShowsTheWork, page, cards
<1> QED
  BY <1>1, PlacesInductive, PTL
=============================================================================
