----------------------------- MODULE LogProofs -----------------------------
(***************************************************************************)
(* Logs keep what they promise, whatever commands run, die or meet a power *)
(* failure: the properties of Log, for any documents and batches.          *)
(*                                                                         *)
(* A log is a sequence of whole batches, but for the last; each line comes *)
(* after all that it refers to, so every prefix that a power failure may   *)
(* leave is a log too.  A torn record ends a log for good.                 *)
(***************************************************************************)
EXTENDS Log, SequenceTheorems, TLAPS

\* The n-th claim of a batch.
Nth(b, n) == [batch |-> b, nth |-> n]

\* The command of b may have written to its log.
Begun(b) == pc[b] \notin {"new", "built"}

Holds(b) == pc[b] \in {"create", "append", "dirs"}

\* Line i of a log: it continues its batch, and refers to lines before it.
LineOk(d, i) ==
    LET c == lines[d][i] IN
    /\ c \in Claim /\ Begun(c.batch)
    /\ IsCreate(c) <=> i = 1
    /\ c.nth > 1 => i > 1 /\ lines[d][i - 1] = Nth(c.batch, c.nth - 1)
    /\ \A x \in refs[c.batch] : \E j \in 1 .. i - 1 : lines[d][j] = x

LogOk(d) ==
    /\ d \notin present => lines[d] = <<>> /\ tail[d] = Nobody
    /\ \A i \in 1 .. Len(lines[d]) : LineOk(d, i)

LogsOk == \A d \in Doc : LogOk(d)

\* A command that has not written, and what it refers to.
BatchOk(b) ==
    /\ ~Begun(b) => sent[b] = 0 /\ \A c \in published : c.batch # b
    /\ b \in Adds => refs[b] = {}

BatchesOk == \A b \in Batch : BatchOk(b)

\* The command that holds the lock: its lines end the log, with nobody else's
\* record begun behind them.
WriterOk(b) ==
    LET d == DocOf[b] IN
    Holds(b) =>
        /\ d \in present /\ tail[d] \in {Nobody, b}
        /\ \A c \in published : c.batch # b
        /\ IF b \in Adds THEN sent[b] = 0 => lines[d] = <<>>
           ELSE lines[d] # <<>> /\ refs[b] \subseteq Claims(d)
        /\ sent[b] > 0 => lines[d] # <<>> /\ lines[d][Len(lines[d])] = Nth(b, sent[b])
        /\ \A k \in 1 .. sent[b] : \E j \in 1 .. Len(lines[d]) : lines[d][j] = Nth(b, k)

WritersOk == \A b \in Batch : WriterOk(b)

\* Synced lines hold all that was acknowledged, as long as the log has a name.
KeptOk(b) ==
    pc[b] \in {"dirs", "acked"} /\ DocOf[b] \in present =>
        \A k \in 1 .. Size[b] :
            \E j \in 1 .. synced[DocOf[b]] : lines[DocOf[b]][j] = Nth(b, k)

AllKept == \A b \in Batch : KeptOk(b)

\* A document begins with its add, which is not made twice.
Made(d) == \E a \in Adds : DocOf[a] = d /\ Begun(a)

Origins ==
    /\ \A d \in present : Made(d)
    /\ \A b \in Batch : pc[b] \in {"dirs", "acked"} => Made(DocOf[b])

Inductive == TypeOK /\ LogsOk /\ BatchesOk /\ WritersOk /\ AllKept /\ Origins

(***************************************************************************)
(* What holds of all steps of a kind.                                      *)
(***************************************************************************)

\* A log as a sequence.
LEMMA LineFacts ==
  ASSUME TypeOK, NEW d \in Doc
  PROVE  /\ lines[d] \in Seq(Claim \cup {Garbage}) /\ Len(lines[d]) \in Nat
         /\ DOMAIN lines[d] = 1 .. Len(lines[d])
         /\ lines[d] = <<>> <=> Len(lines[d]) = 0
         /\ Claims(d) = {lines[d][i] : i \in 1 .. Len(lines[d])}
<1>1. lines[d] \in Seq(Claim \cup {Garbage})
  BY DEF TypeOK
<1> QED BY <1>1, LenProperties, EmptySeq DEF Claims, ToSet

\* A step that adds no line leaves every line as it is.
LEMMA LogsKept ==
  ASSUME LogsOk, UNCHANGED lines, present \subseteq present',
         \A d \in Doc \ present' : tail'[d] = tail[d],
         \A b \in Batch : Begun(b) => Begun(b)' /\ refs'[b] = refs[b]
  PROVE  LogsOk'
<1> SUFFICES ASSUME NEW d \in Doc PROVE LogOk(d)'
  BY DEF LogsOk
<1>1. LogOk(d)
  BY DEF LogsOk
<1>2. ASSUME NEW i \in 1 .. Len(lines[d])
      PROVE  LineOk(d, i)'
  <2>1. LineOk(d, i)
    BY <1>1 DEF LogOk
  <2>2. lines[d][i].batch \in Batch
    BY <2>1 DEF LineOk, Claim
  <2>3. Begun(lines[d][i].batch)' /\ refs'[lines[d][i].batch] = refs[lines[d][i].batch]
    BY <2>1, <2>2 DEF LineOk
  <2> QED BY <2>1, <2>3 DEF LineOk, IsCreate
<1>3. d \notin present' => lines'[d] = <<>> /\ tail'[d] = Nobody
  BY <1>1 DEF LogOk
<1> QED BY <1>2, <1>3 DEF LogOk

\* Who holds the lock is the only one to write.
LEMMA OneWriter ==
  ASSUME TypeOK, NEW b \in Batch, Holds(b)
  PROVE  holder = b /\ \A x \in Batch : Holds(x) => x = b
BY DEF TypeOK, Holds

\* A step of a command that does not hold the lock, before or after.
LEMMA QuietStep ==
  ASSUME Inductive, TypeOK', UNCHANGED <<fileVars, sent>>, NEW b \in Batch,
         pc[b] \notin {"dirs", "acked"}, pc'[b] \notin {"dirs", "acked"}, ~Holds(b)',
         \A x \in Batch \ {b} : pc'[x] = pc[x] /\ refs'[x] = refs[x],
         Begun(b) => Begun(b)' /\ refs'[b] = refs[b],
         published' = published,
         b \in Adds => refs'[b] = {}
  PROVE  Inductive'
<1>1. UNCHANGED <<present, lines, tail, synced, entered>>
  BY DEF fileVars
<1>2. LogsOk'
  BY <1>1, LogsKept DEF Inductive, Begun
<1>3. BatchesOk'
  BY DEF Inductive, BatchesOk, BatchOk, Begun
<1>4. WritersOk'
  BY <1>1 DEF Inductive, WritersOk, WriterOk, Holds, Claims
<1>5. AllKept'
  BY <1>1 DEF Inductive, AllKept, KeptOk
<1>6. Origins'
  <2>1. \A x \in Batch : Begun(x) => Begun(x)'
    BY DEF Begun
  <2>2. \A d : Made(d) => Made(d)'
    BY <2>1, BatchAssumption DEF Made
  <2>3. \A x \in Batch : pc'[x] \in {"dirs", "acked"} => pc[x] \in {"dirs", "acked"}
    OBVIOUS
  <2> QED BY <1>1, <2>2, <2>3 DEF Inductive, Origins
<1> QED BY <1>2, <1>3, <1>4, <1>5, <1>6 DEF Inductive

(***************************************************************************)
(* The steps of a command.                                                 *)
(***************************************************************************)

\* What a command refers to it has read from the log.
LEMMA BuildStep ==
  ASSUME Inductive, NEW b \in Batch, Build(b)
  PROVE  Inductive'
<1>0. TypeOK /\ BatchOk(b)
  BY DEF Inductive, BatchesOk
<1>1. /\ UNCHANGED <<fileVars, holder, sent, published>>
      /\ pc[b] = "new" /\ pc' = [pc EXCEPT ![b] = "built"]
      /\ \A x \in Batch \ {b} : refs'[x] = refs[x]
      /\ b \in Adds => refs' = refs
  BY <1>0 DEF Build, Goto, TypeOK
<1>2. refs' \in [Batch -> SUBSET (Claim \cup {Garbage})]
  <2>1. CASE UNCHANGED refs
    BY <1>0, <2>1 DEF TypeOK
  <2>2. CASE b \notin Adds
    <3>1. PICK c \in Claims(DocOf[b]) :
            refs' = [refs EXCEPT ![b] = {Head(lines[DocOf[b]]), c}]
      BY <2>2 DEF Build
    <3>2. DocOf[b] \in Doc /\ lines[DocOf[b]] # <<>>
      BY <2>2, BatchAssumption DEF Build, Loads, Folds
    <3>3. c \in Claim \cup {Garbage}
      BY <1>0, <3>2, LineFacts, ElementOfSeq
    <3>4. Head(lines[DocOf[b]]) \in Claim \cup {Garbage}
      BY <1>0, <3>2, LineFacts, HeadTailProperties
    <3> QED BY <1>0, <3>1, <3>3, <3>4 DEF TypeOK
  <2> QED BY <2>1, <2>2 DEF Build
<1>3. TypeOK'
  BY <1>0, <1>1, <1>2 DEF TypeOK, fileVars
<1>4. /\ \A x \in Batch \ {b} : pc'[x] = pc[x]
      /\ pc'[b] = "built"
  BY <1>0, <1>1 DEF TypeOK
<1>5. b \in Adds => refs'[b] = {}
  BY <1>0, <1>1 DEF BatchOk
<1> QED BY <1>1, <1>3, <1>4, <1>5, QuietStep DEF Holds, Begun

\* Rejected, a command leaves no trace.
LEMMA RejectStep ==
  ASSUME Inductive, NEW b \in Batch, Reject(b)
  PROVE  Inductive'
<1>0. TypeOK /\ BatchOk(b)
  BY DEF Inductive, BatchesOk
<1>1. /\ UNCHANGED <<fileVars, holder, refs, sent, published>>
      /\ pc[b] = "built" /\ pc' = [pc EXCEPT ![b] = "failed"]
  BY DEF Reject, Goto
<1>2. TypeOK'
  BY <1>0, <1>1 DEF TypeOK, fileVars
<1>3. (\A x \in Batch \ {b} : pc'[x] = pc[x]) /\ pc'[b] = "failed"
  BY <1>0, <1>1 DEF TypeOK
<1> QED BY <1>0, <1>1, <1>2, <1>3, QuietStep DEF Holds, Begun, BatchOk

\* A command that dies leaves what it wrote, and the lock.
LEMMA DieStep ==
  ASSUME Inductive, NEW b \in Batch, Die(b)
  PROVE  Inductive'
<1>0. TypeOK
  BY DEF Inductive
<1>1. /\ UNCHANGED <<present, lines, tail, synced, entered>>
      /\ UNCHANGED <<refs, sent, published>>
      /\ pc[b] \in {"built", "create", "append", "dirs"}
      /\ pc' = [pc EXCEPT ![b] = "failed"]
      /\ holder' = IF holder = b THEN Nobody ELSE holder
  BY DEF Die, Goto, fileVars
<1>2. (\A x \in Batch \ {b} : pc'[x] = pc[x]) /\ pc'[b] = "failed"
  BY <1>0, <1>1 DEF TypeOK
<1>3. TypeOK'
  <2>1. pc' \in [Batch -> {"new", "built", "create", "append", "dirs", "acked", "failed"}]
    BY <1>0, <1>1 DEF TypeOK
  <2>2. holder' \in Batch \cup {Nobody}
    BY <1>0, <1>1 DEF TypeOK
  <2>3. \A x \in Batch : pc'[x] \in {"create", "append", "dirs"} <=> holder' = x
    BY <1>0, <1>1, <1>2, BatchAssumption DEF TypeOK
  <2> QED BY <1>0, <1>1, <2>1, <2>2, <2>3 DEF TypeOK
<1>4. LogsOk'
  BY <1>1, <1>2, LogsKept DEF Inductive, Begun
<1>5. BatchesOk'
  BY <1>1, <1>2 DEF Inductive, BatchesOk, BatchOk, Begun
<1>6. WritersOk'
  BY <1>1, <1>2 DEF Inductive, WritersOk, WriterOk, Holds, Claims
<1>7. AllKept'
  BY <1>1, <1>2 DEF Inductive, AllKept, KeptOk
<1>8. Origins'
  BY <1>1, <1>2 DEF Inductive, Origins, Made, Begun
<1> QED BY <1>3, <1>4, <1>5, <1>6, <1>7, <1>8 DEF Inductive

\* The log that is opened is whole, or not there; what its appender refers to
\* is in it.
LEMMA OpenStep ==
  ASSUME Inductive, NEW b \in Batch, Open(b)
  PROVE  Inductive'
<1> DEFINE d0 == DocOf[b]
<1>0. TypeOK /\ LogsOk /\ BatchOk(b) /\ d0 \in Doc /\ LogOk(d0)
  BY BatchAssumption DEF Inductive, BatchesOk, LogsOk
<1>1. /\ UNCHANGED <<lines, tail, synced, entered, refs, sent, published>>
      /\ pc[b] = "built" /\ holder = Nobody /\ holder' = b
      /\ present' = present \cup {d0}
      /\ pc' = [pc EXCEPT ![b] = IF d0 \in present THEN "append" ELSE "create"]
      /\ b \in Adds <=> d0 \notin present
      /\ d0 \in present =>
            ~TornTail(d0) /\ lines[d0] # <<>> /\ refs[b] \subseteq Claims(d0)
  BY DEF Open, Goto, LockFree, Appendable, Whole, Folds
<1>2. /\ \A x \in Batch \ {b} : pc'[x] = pc[x]
      /\ pc'[b] \in {"append", "create"}
  BY <1>0, <1>1 DEF TypeOK
<1>3. \A x \in Batch : ~Holds(x)
  BY <1>0, <1>1, BatchAssumption DEF TypeOK, Holds
<1>4. TypeOK'
  <2>1. pc' \in [Batch -> {"new", "built", "create", "append", "dirs", "acked", "failed"}]
    BY <1>0, <1>1 DEF TypeOK
  <2>2. \A x \in Batch : pc'[x] \in {"create", "append", "dirs"} <=> holder' = x
    BY <1>1, <1>2, <1>3 DEF Holds
  <2>3. present' \subseteq Doc /\ entered' \subseteq present'
    BY <1>0, <1>1 DEF TypeOK
  <2> QED BY <1>0, <1>1, <2>1, <2>2, <2>3 DEF TypeOK
<1>5. LogsOk'
  BY <1>0, <1>1, <1>2, LogsKept DEF Begun
<1>6. BatchesOk'
  BY <1>1, <1>2 DEF Inductive, BatchesOk, BatchOk, Begun
<1>7. WriterOk(b)'
  <2>1. tail[d0] = Nobody
    BY <1>0, <1>1 DEF LogOk, TornTail
  <2>2. sent[b] = 0 /\ \A c \in published : c.batch # b
    BY <1>0, <1>1 DEF BatchOk, Begun
  <2>3. b \in Adds => lines[d0] = <<>>
    BY <1>0, <1>1 DEF LogOk
  <2> QED BY <1>1, <2>1, <2>2, <2>3 DEF WriterOk, Claims
<1>8. WritersOk'
  BY <1>2, <1>3, <1>7 DEF WritersOk, WriterOk, Holds
<1>9. AllKept'
  <2> SUFFICES ASSUME NEW x \in Batch PROVE KeptOk(x)'
    BY DEF AllKept
  <2>1. CASE x = b
    BY <1>2, <2>1 DEF KeptOk
  <2>2. CASE x # b /\ DocOf[x] \in present
    BY <1>1, <1>2, <2>2 DEF Inductive, AllKept, KeptOk
  <2>3. CASE x # b /\ DocOf[x] \notin present /\ pc[x] \in {"dirs", "acked"}
    \* The one add of the document is b itself, which has not begun.
    <3>1. DocOf[x] = d0 => FALSE
      <4>1. SUFFICES ASSUME DocOf[x] = d0 PROVE FALSE
        OBVIOUS
      <4>2. PICK a \in Adds : DocOf[a] = d0 /\ Begun(a)
        BY <2>3, <4>1 DEF Inductive, Origins, Made
      <4>3. b \in Adds
        BY <1>1, <2>3, <4>1
      <4>4. a = b
        BY <4>2, <4>3, BatchAssumption
      <4> QED BY <1>1, <4>2, <4>4 DEF Begun
    <3> QED BY <1>1, <2>3, <3>1 DEF KeptOk
  <2>4. CASE x # b /\ pc[x] \notin {"dirs", "acked"}
    BY <1>2, <2>4 DEF KeptOk
  <2> QED BY <2>1, <2>2, <2>3, <2>4
<1>10. Origins'
  <2>1. \A d : Made(d) => Made(d)'
    BY <1>1, <1>2 DEF Made, Begun, Inductive, TypeOK
  <2>2. Made(d0)'
    <3>1. CASE d0 \in present
      BY <2>1, <3>1 DEF Inductive, Origins
    <3>2. CASE d0 \notin present
      BY <1>1, <1>2, <3>2 DEF Made, Begun
    <3> QED BY <3>1, <3>2
  <2> QED BY <1>1, <1>2, <2>1, <2>2 DEF Inductive, Origins
<1> QED BY <1>4, <1>5, <1>6, <1>8, <1>9, <1>10 DEF Inductive

\* A record is begun behind whole lines only.
LEMMA WritePartStep ==
  ASSUME Inductive, NEW b \in Batch, WritePart(b)
  PROVE  Inductive'
<1> DEFINE d0 == DocOf[b]
<1>0. TypeOK /\ Holds(b) /\ WriterOk(b) /\ d0 \in Doc
  BY BatchAssumption DEF Inductive, WritersOk, WritePart, Writing, Holds
<1>1. /\ UNCHANGED <<present, lines, synced, entered, holder, pc, refs, sent, published>>
      /\ tail' = [tail EXCEPT ![d0] = b]
  BY DEF WritePart
<1>2. d0 \in present /\ \A x \in Batch : Holds(x) => x = b
  BY <1>0, OneWriter DEF WriterOk
<1>3. TypeOK'
  BY <1>0, <1>1 DEF TypeOK
<1>4. LogsOk'
  <2>1. \A d \in Doc \ present' : tail'[d] = tail[d]
    BY <1>0, <1>1, <1>2 DEF TypeOK
  <2> QED BY <1>1, <2>1, LogsKept DEF Inductive, Begun
<1>5. BatchesOk'
  BY <1>1 DEF Inductive, BatchesOk, BatchOk, Begun
<1>6. WriterOk(b)'
  <2>1. tail'[d0] = b
    BY <1>0, <1>1 DEF TypeOK
  <2> QED BY <1>0, <1>1, <2>1 DEF WriterOk, Holds, Claims
<1>7. WritersOk'
  BY <1>1, <1>2, <1>6 DEF WritersOk, WriterOk, Holds
<1>8. AllKept'
  BY <1>1 DEF Inductive, AllKept, KeptOk
<1>9. Origins'
  BY <1>1 DEF Inductive, Origins, Made, Begun
<1> QED BY <1>3, <1>4, <1>5, <1>7, <1>8, <1>9 DEF Inductive

\* The line that a writer completes is the next of its batch.
LEMMA WriteLineStep ==
  ASSUME Inductive, NEW b \in Batch, WriteLine(b)
  PROVE  Inductive'
<1> DEFINE d0 == DocOf[b]
           n == Len(lines[d0])
           line == Nth(b, sent[b] + 1)
<1>0. /\ TypeOK /\ Holds(b) /\ WriterOk(b) /\ BatchOk(b)
      /\ d0 \in Doc /\ LogOk(d0) /\ sent[b] \in Nat
      /\ Size[b] \in Nat /\ sent[b] < Size[b]
  BY BatchAssumption
     DEF Inductive, WritersOk, BatchesOk, LogsOk, TypeOK, WriteLine, Writing, Holds
<1>a. /\ d0 \in present /\ tail[d0] \in {Nobody, b}
      /\ \A c \in published : c.batch # b
      /\ b \in Adds => (sent[b] = 0 => lines[d0] = <<>>)
      /\ b \notin Adds => lines[d0] # <<>> /\ refs[b] \subseteq Claims(d0)
      /\ sent[b] > 0 => lines[d0] # <<>> /\ lines[d0][n] = Nth(b, sent[b])
      /\ \A k \in 1 .. sent[b] : \E j \in 1 .. n : lines[d0][j] = Nth(b, k)
  BY <1>0 DEF WriterOk
<1>1. /\ UNCHANGED <<present, synced, entered, holder, pc, refs, published>>
      /\ lines' = [lines EXCEPT ![d0] = Append(lines[d0], line)]
      /\ tail' = [tail EXCEPT ![d0] = Nobody]
      /\ sent' = [sent EXCEPT ![b] = sent[b] + 1]
  BY <1>a DEF WriteLine, Nth
<1>2. /\ lines[d0] \in Seq(Claim \cup {Garbage}) /\ n \in Nat
      /\ lines[d0] = <<>> <=> n = 0
      /\ Claims(d0) = {lines[d0][i] : i \in 1 .. n}
  BY <1>0, LineFacts
<1>3. line \in Claim
  BY <1>0 DEF Claim, Nth
<1>4. /\ lines'[d0] = Append(lines[d0], line)
      /\ \A d \in Doc \ {d0} : lines'[d] = lines[d] /\ tail'[d] = tail[d]
      /\ tail'[d0] = Nobody /\ sent'[b] = sent[b] + 1
      /\ \A x \in Batch \ {b} : sent'[x] = sent[x]
  BY <1>0, <1>1 DEF TypeOK
<1>5. /\ lines'[d0] \in Seq(Claim \cup {Garbage})
      /\ Len(lines'[d0]) = n + 1
      /\ \A i \in 1 .. n : lines'[d0][i] = lines[d0][i]
      /\ lines'[d0][n + 1] = line
      /\ lines'[d0] # <<>>
  BY <1>2, <1>3, <1>4, AppendProperties
<1>6. TypeOK'
  <2>1. lines' \in [Doc -> Seq(Claim \cup {Garbage})]
    BY <1>0, <1>1, <1>4, <1>5 DEF TypeOK
  <2>2. \A d \in Doc : synced'[d] <= Len(lines'[d])
    <3> SUFFICES ASSUME NEW d \in Doc PROVE synced[d] <= Len(lines'[d])
      BY <1>1
    <3>1. CASE d = d0
      BY <1>0, <1>2, <1>5, <3>1 DEF TypeOK
    <3>2. CASE d # d0
      BY <1>0, <1>4, <3>2 DEF TypeOK
    <3> QED BY <3>1, <3>2
  <2>3. sent' \in [Batch -> Nat] /\ \A x \in Batch : sent'[x] <= Size[x]
    BY <1>0, <1>1, <1>4 DEF TypeOK
  <2>4. tail' \in [Doc -> Batch \cup {Nobody}]
    BY <1>0, <1>1 DEF TypeOK
  <2> QED BY <1>0, <1>1, <2>1, <2>2, <2>3, <2>4 DEF TypeOK
<1>7. LogsOk'
  <2>1. ASSUME NEW i \in 1 .. n PROVE LineOk(d0, i)'
    <3>1. LineOk(d0, i)
      BY <1>0, <2>1 DEF LogOk
    <3>2. lines'[d0][i] = lines[d0][i] /\ i - 1 <= n
      BY <1>2, <1>5, <2>1
    <3>3. i > 1 => lines'[d0][i - 1] = lines[d0][i - 1]
      BY <1>2, <1>5, <2>1
    <3>4. \A j \in 1 .. i - 1 : lines'[d0][j] = lines[d0][j]
      BY <1>2, <1>5, <2>1
    <3>5. \A x \in refs[lines[d0][i].batch] : \E j \in 1 .. i - 1 : lines'[d0][j] = x
      BY <3>1, <3>4 DEF LineOk
    <3> QED BY <1>1, <3>1, <3>2, <3>3, <3>5 DEF LineOk, IsCreate, Begun
  <2>2. ASSUME NEW m, m = n + 1 PROVE LineOk(d0, m)'
    <3>1. Begun(b)
      BY <1>0 DEF Begun, Holds
    <3>2. IsCreate(line) <=> n + 1 = 1
      BY <1>0, <1>a, <1>2 DEF IsCreate, Nth
    <3>3. line.nth > 1 => n + 1 > 1 /\ lines'[d0][n] = Nth(line.batch, line.nth - 1)
      <4>1. SUFFICES ASSUME sent[b] > 0
                     PROVE  n + 1 > 1 /\ lines'[d0][n] = Nth(b, sent[b])
        BY <1>0 DEF Nth
      <4>2. n \in 1 .. n /\ lines[d0][n] = Nth(b, sent[b])
        BY <1>a, <1>2, <4>1
      <4> QED BY <1>2, <1>5, <4>2
    <3>4. \A x \in refs[b] : \E j \in 1 .. n : lines'[d0][j] = x
      <4>1. CASE b \in Adds
        BY <1>0, <4>1 DEF BatchOk
      <4>2. CASE b \notin Adds
        <5>1. refs[b] \subseteq Claims(d0)
          BY <1>a, <4>2
        <5> QED BY <1>2, <1>5, <5>1
      <4> QED BY <4>1, <4>2
    <3>5. line.batch = b /\ m - 1 = n /\ lines'[d0][m] = line
      BY <1>2, <1>5, <2>2 DEF Nth
    <3>6. refs' = refs /\ pc' = pc
      BY <1>1
    <3>7. IsCreate(line) <=> m = 1
      BY <2>2, <3>2
    <3>8. line.nth > 1 => m > 1 /\ lines'[d0][m - 1] = Nth(line.batch, line.nth - 1)
      BY <2>2, <3>3, <3>5
    <3> HIDE DEF line, n
    <3> QED BY <1>3, <3>1, <3>4, <3>5, <3>6, <3>7, <3>8 DEF LineOk, IsCreate, Begun
  <2>3. LogOk(d0)'
    <3>1. \A i \in 1 .. n + 1 : i \in 1 .. n \/ i = n + 1
      BY <1>2
    <3>2. \A i \in 1 .. Len(lines'[d0]) : LineOk(d0, i)'
      BY <1>5, <2>1, <2>2, <3>1
    <3> QED BY <1>1, <1>a, <3>2 DEF LogOk
  <2>4. ASSUME NEW d \in Doc \ {d0} PROVE LogOk(d)'
    <3>1. LogOk(d) /\ lines'[d] = lines[d] /\ tail'[d] = tail[d]
      BY <1>4 DEF Inductive, LogsOk
    <3>2. ASSUME NEW i \in 1 .. Len(lines[d]) PROVE LineOk(d, i)'
      <4>1. LineOk(d, i)
        BY <3>1 DEF LogOk
      <4>2. \A x : Begun(x)' <=> Begun(x)
        BY <1>1 DEF Begun
      <4>3. lines[d]' = lines[d] /\ refs' = refs
        BY <1>1, <3>1
      <4>4. \A x \in refs[lines[d][i].batch] : \E j \in 1 .. i - 1 : lines[d][j] = x
        BY <4>1 DEF LineOk
      <4> HIDE <1>1, <3>1, <2>4
      <4> QED BY <4>1, <4>2, <4>3 DEF LineOk, IsCreate
    <3> QED BY <1>1, <3>1, <3>2 DEF LogOk
  <2> QED BY <2>3, <2>4 DEF LogsOk
<1>8. BatchesOk'
  <2>1. Begun(b)
    BY <1>0 DEF Begun, Holds
  <2> QED BY <1>1, <1>4, <2>1 DEF Inductive, BatchesOk, BatchOk, Begun
<1>9. WriterOk(b)'
  <2>1. \A k \in 1 .. sent[b] + 1 : \E j \in 1 .. n + 1 : lines'[d0][j] = Nth(b, k)
    <3> SUFFICES ASSUME NEW k \in 1 .. sent[b] + 1
                 PROVE  \E j \in 1 .. n + 1 : lines'[d0][j] = Nth(b, k)
      OBVIOUS
    <3>1. CASE k = sent[b] + 1
      BY <1>2, <1>5, <3>1
    <3>2. CASE k # sent[b] + 1
      <4>1. k \in 1 .. sent[b]
        BY <1>0, <3>2
      <4>2. PICK j \in 1 .. n : lines[d0][j] = Nth(b, k)
        BY <1>a, <4>1
      <4>3. j \in 1 .. n + 1 /\ lines'[d0][j] = Nth(b, k)
        BY <1>2, <1>5, <4>2
      <4> QED BY <4>3
    <3> QED BY <3>1, <3>2
  <2>2. b \notin Adds => refs[b] \subseteq Claims(d0)'
    <3>1. Claims(d0)' = {lines'[d0][i] : i \in 1 .. n + 1}
      <4>1. DOMAIN lines'[d0] = 1 .. n + 1
        BY <1>5, LenProperties
      <4> QED BY <4>1 DEF Claims, ToSet
    <3>2. \A i \in 1 .. n : i \in 1 .. n + 1
      BY <1>2
    <3> QED BY <1>a, <1>2, <1>5, <3>1, <3>2
  <2>3. sent[b] + 1 # 0
    BY <1>0
  <2> QED BY <1>1, <1>a, <1>4, <1>5, <2>1, <2>2, <2>3 DEF WriterOk
<1>10. WritersOk'
  <2>1. \A x \in Batch : Holds(x)' => x = b
    BY <1>0, <1>1, OneWriter DEF Holds
  <2> QED BY <1>9, <2>1 DEF WritersOk, WriterOk, Holds
<1>11. AllKept'
  <2> SUFFICES ASSUME NEW x \in Batch PROVE KeptOk(x)'
    BY DEF AllKept
  <2>1. KeptOk(x)
    BY DEF Inductive, AllKept
  <2>2. CASE DocOf[x] = d0
    <3>1. \A j \in 1 .. synced[d0] : lines'[d0][j] = lines[d0][j]
      BY <1>0, <1>2, <1>5 DEF TypeOK
    <3> QED BY <1>1, <2>1, <2>2, <3>1 DEF KeptOk
  <2>3. CASE DocOf[x] # d0
    <3>1. lines'[DocOf[x]] = lines[DocOf[x]]
      BY <1>4, <2>3, BatchAssumption
    <3> QED BY <1>1, <2>1, <3>1 DEF KeptOk
  <2> QED BY <2>2, <2>3
<1>12. Origins'
  BY <1>1 DEF Inductive, Origins, Made, Begun
<1> QED BY <1>6, <1>7, <1>8, <1>10, <1>11, <1>12 DEF Inductive

\* A batch is whole when it is synced.
LEMMA SyncStep ==
  ASSUME Inductive, NEW b \in Batch, Sync(b)
  PROVE  Inductive'
<1> DEFINE d0 == DocOf[b]
           n == Len(lines[d0])
<1>0. TypeOK /\ Holds(b) /\ WriterOk(b) /\ BatchOk(b) /\ d0 \in Doc
  BY BatchAssumption DEF Inductive, WritersOk, BatchesOk, Sync, Writing, Holds
<1>1. /\ UNCHANGED <<present, lines, tail, entered, refs, sent, published>>
      /\ synced' = [synced EXCEPT ![d0] = n]
      /\ sent[b] = Size[b]
      /\ \/ pc' = [pc EXCEPT ![b] = "dirs"] /\ holder' = holder
         \/ pc' = [pc EXCEPT ![b] = "acked"] /\ holder' = Nobody
  BY DEF Sync, Goto, SyncedLines
<1>2. holder = b /\ \A x \in Batch : Holds(x) => x = b
  BY <1>0, OneWriter
<1>3. /\ \A x \in Batch \ {b} : pc'[x] = pc[x]
      /\ (pc'[b] = "dirs" /\ holder' = b) \/ (pc'[b] = "acked" /\ holder' = Nobody)
  <2>1. pc \in [Batch -> {"new", "built", "create", "append", "dirs", "acked", "failed"}]
    BY <1>0 DEF TypeOK
  <2> QED BY <1>1, <1>2, <2>1
<1>4. n \in Nat /\ synced'[d0] = n /\ \A d \in Doc \ {d0} : synced'[d] = synced[d]
  BY <1>0, <1>1, LineFacts DEF TypeOK
<1>5. TypeOK'
  <2>1. pc' \in [Batch -> {"new", "built", "create", "append", "dirs", "acked", "failed"}]
    BY <1>0, <1>1 DEF TypeOK
  <2>2. \A x \in Batch : pc'[x] \in {"create", "append", "dirs"} <=> holder' = x
    BY <1>2, <1>3, BatchAssumption DEF Holds
  <2>3. synced' \in [Doc -> Nat]
    BY <1>0, <1>1, <1>4 DEF TypeOK
  <2>4. \A d \in Doc : synced'[d] <= Len(lines[d])
    <3> SUFFICES ASSUME NEW d \in Doc PROVE synced'[d] <= Len(lines[d])
      OBVIOUS
    <3>1. CASE d = d0
      BY <1>4, <3>1
    <3>2. CASE d # d0
      BY <1>0, <1>4, <3>2 DEF TypeOK
    <3> QED BY <3>1, <3>2
  <2>5. holder' \in Batch \cup {Nobody}
    BY <1>3
  <2> QED BY <1>0, <1>1, <2>1, <2>2, <2>3, <2>4, <2>5 DEF TypeOK
<1>6. \A x \in Batch : Begun(x) <=> Begun(x)'
  BY <1>0, <1>3 DEF Begun, Holds
<1>7. LogsOk'
  BY <1>1, <1>6, LogsKept DEF Inductive
<1>8. BatchesOk'
  BY <1>1, <1>6 DEF Inductive, BatchesOk, BatchOk
<1>9. WritersOk'
  <2>1. WriterOk(b)'
    BY <1>0, <1>1 DEF WriterOk, Claims
  <2>2. \A x \in Batch : Holds(x)' => x = b
    BY <1>2, <1>3 DEF Holds
  <2> QED BY <2>1, <2>2 DEF WritersOk, WriterOk, Holds
<1>10. AllKept'
  <2> SUFFICES ASSUME NEW x \in Batch PROVE KeptOk(x)'
    BY DEF AllKept
  <2>1. CASE x = b
    BY <1>0, <1>1, <1>4, <2>1 DEF KeptOk, WriterOk
  <2>2. CASE x # b
    <3>1. KeptOk(x)
      BY DEF Inductive, AllKept
    <3>2. DocOf[x] \in Doc /\ synced[DocOf[x]] \in Nat
      BY <1>0, BatchAssumption DEF TypeOK
    <3>3. \A j \in 1 .. synced[DocOf[x]] : j \in 1 .. synced'[DocOf[x]]
      <4>1. CASE DocOf[x] = d0
        <5>1. synced[d0] <= n
          BY <1>0 DEF TypeOK
        <5> QED BY <1>4, <3>2, <4>1, <5>1
      <4>2. CASE DocOf[x] # d0
        BY <1>4, <3>2, <4>2
      <4> QED BY <4>1, <4>2
    <3> QED BY <1>1, <1>3, <2>2, <3>1, <3>3 DEF KeptOk
  <2> QED BY <2>1, <2>2
<1>11. Origins'
  <2>1. \A d : Made(d) => Made(d)'
    BY <1>6, BatchAssumption DEF Made
  <2>2. Made(d0)
    BY <1>0 DEF WriterOk, Inductive, Origins
  <2>3. \A x \in Batch : pc'[x] \in {"dirs", "acked"} => Made(DocOf[x])
    BY <1>3, <2>2 DEF Inductive, Origins
  <2> QED BY <1>1, <2>1, <2>3 DEF Inductive, Origins
<1> QED BY <1>5, <1>7, <1>8, <1>9, <1>10, <1>11 DEF Inductive

\* The directory entry becomes durable; the lock is given back.
LEMMA SyncDirsStep ==
  ASSUME Inductive, NEW b \in Batch, SyncDirs(b)
  PROVE  Inductive'
<1> DEFINE d0 == DocOf[b]
<1>0. TypeOK /\ Holds(b) /\ WriterOk(b) /\ d0 \in Doc
  BY BatchAssumption DEF Inductive, WritersOk, SyncDirs, Holds
<1>1. /\ UNCHANGED <<present, lines, tail, synced, refs, sent, published>>
      /\ entered' = entered \cup {d0} /\ d0 \in present
      /\ pc[b] = "dirs" /\ pc' = [pc EXCEPT ![b] = "acked"]
      /\ holder' = Nobody
  BY <1>0 DEF SyncDirs, Goto, WriterOk
<1>2. \A x \in Batch : Holds(x) => x = b
  BY <1>0, OneWriter
<1>3. (\A x \in Batch \ {b} : pc'[x] = pc[x]) /\ pc'[b] = "acked"
  BY <1>0, <1>1 DEF TypeOK
<1>4. TypeOK'
  <2>1. pc' \in [Batch -> {"new", "built", "create", "append", "dirs", "acked", "failed"}]
    BY <1>0, <1>1 DEF TypeOK
  <2>2. \A x \in Batch : pc'[x] \in {"create", "append", "dirs"} <=> holder' = x
    BY <1>1, <1>2, <1>3, BatchAssumption DEF Holds
  <2> QED BY <1>0, <1>1, <2>1, <2>2 DEF TypeOK
<1>5. \A x \in Batch : (Begun(x) <=> Begun(x)') /\ ~Holds(x)'
  BY <1>1, <1>2, <1>3 DEF Begun, Holds
<1>6. LogsOk'
  BY <1>1, <1>5, LogsKept DEF Inductive
<1>7. BatchesOk'
  BY <1>1, <1>5 DEF Inductive, BatchesOk, BatchOk
<1>8. WritersOk'
  BY <1>5 DEF WritersOk, WriterOk
<1>9. AllKept'
  BY <1>1, <1>3 DEF Inductive, AllKept, KeptOk
<1>10. Origins'
  <2>1. \A d : Made(d) => Made(d)'
    BY <1>5, BatchAssumption DEF Made
  <2>2. \A x \in Batch : pc'[x] \in {"dirs", "acked"} => pc[x] \in {"dirs", "acked"}
    BY <1>1, <1>3
  <2> QED BY <1>1, <2>1, <2>2 DEF Inductive, Origins
<1> QED BY <1>4, <1>6, <1>7, <1>8, <1>9, <1>10 DEF Inductive

(***************************************************************************)
(* Checkpoints and power failures.                                         *)
(***************************************************************************)

\* What is captured was written by commands that have ended.
LEMMA CaptureStep ==
  ASSUME Inductive, Capture
  PROVE  Inductive'
<1>0. TypeOK /\ LogsOk
  BY DEF Inductive
<1>1. /\ UNCHANGED <<present, lines, tail, synced, entered, holder, pc, refs, sent>>
      /\ holder = Nobody
      /\ published' = UNION {Claims(d) : d \in present}
  BY DEF Capture, fileVars, MayCapture, LockFree
<1>2. ASSUME NEW c \in published' PROVE c \in Claim /\ Begun(c.batch)
  <2>1. PICK d \in present : c \in Claims(d)
    BY <1>1, <1>2
  <2>2. d \in Doc
    BY <1>0 DEF TypeOK
  <2>3. PICK i \in 1 .. Len(lines[d]) : c = lines[d][i]
    BY <1>0, <2>1, <2>2, LineFacts
  <2>4. LineOk(d, i)
    BY <1>0, <2>2 DEF LogsOk, LogOk
  <2> QED BY <2>3, <2>4 DEF LineOk
<1>3. \A x \in Batch : ~Holds(x)
  BY <1>0, <1>1, BatchAssumption DEF TypeOK, Holds
<1>4. TypeOK'
  BY <1>0, <1>1, <1>2 DEF TypeOK
<1>5. LogsOk'
  BY <1>0, <1>1, LogsKept DEF Begun
<1>6. BatchesOk'
  BY <1>1, <1>2 DEF Inductive, BatchesOk, BatchOk, Begun
<1>7. WritersOk'
  BY <1>1, <1>3 DEF WritersOk, WriterOk, Holds
<1>8. AllKept'
  BY <1>1 DEF Inductive, AllKept, KeptOk
<1>9. Origins'
  BY <1>1 DEF Inductive, Origins, Made, Begun
<1> QED BY <1>4, <1>5, <1>6, <1>7, <1>8, <1>9 DEF Inductive

\* What a power failure leaves of a log is a prefix, with all that was synced.
LEMMA LeftFacts ==
  ASSUME Inductive, NEW d \in Doc, NEW left \in After(d)
  PROVE  /\ ~left.there => left.lines = <<>> /\ left.tail = Nobody
         /\ left.there =>
               /\ d \in present /\ left.tail \in Batch \cup {Nobody}
               /\ \E n \in synced[d] .. Len(lines[d]) :
                     left.lines = SubSeq(lines[d], 1, n)
<1>0. TypeOK /\ LogOk(d)
  BY DEF Inductive, LogsOk
<1>1. CASE left = Gone
  BY <1>1 DEF Gone
<1>2. CASE left \in Left(d) /\ d \in present
  <2>1. PICK n \in synced[d] .. Len(lines[d]),
             t \in {Nobody, tail[d]}
                   \cup {c.batch : c \in ToSet(SubSeq(lines[d], synced[d] + 1, Len(lines[d])))} :
          left = [there |-> TRUE, lines |-> SubSeq(lines[d], 1, n), tail |-> t]
    BY <1>2 DEF Left
  <2>2. t \in Batch \cup {Nobody}
    <3>1. CASE t \in {Nobody, tail[d]}
      BY <1>0, <3>1 DEF TypeOK
    <3>2. CASE t \in {c.batch : c \in ToSet(SubSeq(lines[d], synced[d] + 1, Len(lines[d])))}
      <4> DEFINE rest == SubSeq(lines[d], synced[d] + 1, Len(lines[d]))
      <4>1. PICK c \in ToSet(rest) : t = c.batch
        BY <3>2
      <4>2. /\ synced[d] \in Nat /\ synced[d] <= Len(lines[d])
            /\ lines[d] \in Seq(Claim \cup {Garbage}) /\ Len(lines[d]) \in Nat
        BY <1>0, LineFacts DEF TypeOK
      <4>3. /\ rest \in Seq(Claim \cup {Garbage})
            /\ Len(rest) = Len(lines[d]) - synced[d]
            /\ \A i \in 1 .. Len(rest) : rest[i] = lines[d][synced[d] + i]
        <5> DEFINE m == synced[d] + 1
                   k == Len(lines[d])
        <5>1. m \in Int /\ k \in Int /\ \A i \in m .. k : i \in 1 .. k
          BY <4>2
        <5>2. \A i \in m .. k : lines[d][i] \in Claim \cup {Garbage}
          BY <4>2, <5>1, ElementOfSeq
        <5>3. /\ SubSeq(lines[d], m, k) \in Seq(Claim \cup {Garbage})
              /\ Len(SubSeq(lines[d], m, k)) = IF m <= k THEN k - m + 1 ELSE 0
              /\ \A i \in 1 .. k - m + 1 : SubSeq(lines[d], m, k)[i] = lines[d][m + i - 1]
          <6> HIDE DEF m, k
          <6> QED BY <5>1, <5>2, SubSeqProperties
        <5>4. Len(rest) = k - synced[d]
          BY <4>2, <5>3
        <5>5. \A i \in 1 .. Len(rest) : i \in 1 .. k - m + 1 /\ m + i - 1 = synced[d] + i
          BY <4>2, <5>4
        <5> QED BY <5>3, <5>4, <5>5
      <4>4. PICK i \in 1 .. Len(rest) : c = rest[i]
        BY <4>1, <4>3, LenProperties DEF ToSet
      <4>5. synced[d] + i \in 1 .. Len(lines[d]) /\ c = lines[d][synced[d] + i]
        <5>1. i \in Nat /\ 1 <= i /\ i <= Len(lines[d]) - synced[d]
          BY <4>3, <4>4
        <5>2. synced[d] + i \in 1 .. Len(lines[d])
          BY <4>2, <5>1
        <5>3. c = lines[d][synced[d] + i]
          BY <4>3, <4>4
        <5> QED BY <5>2, <5>3
      <4>6. c \in Claim
        BY <1>0, <4>5 DEF LogOk, LineOk
      <4> QED BY <4>1, <4>6 DEF Claim
    <3> QED BY <2>1, <3>1, <3>2
  <2>3. left.there /\ left.lines = SubSeq(lines[d], 1, n) /\ left.tail = t
    BY <2>1
  <2> QED BY <1>2, <2>2, <2>3
<1>3. d \notin present => left = Gone
  <2>1. SUFFICES ASSUME d \notin present PROVE left = Gone
    OBVIOUS
  <2>2. d \notin entered
    BY <1>0, <2>1 DEF TypeOK
  <2>3. After(d) = {Gone}
    BY <2>1, <2>2 DEF After
  <2> QED BY <2>3
<1>4. d \in present => left \in Left(d) \/ left = Gone
  <2>1. CASE d \in present /\ d \in entered
    BY <2>1 DEF After
  <2>2. CASE d \in present /\ d \notin entered
    BY <2>2 DEF After
  <2> QED BY <2>1, <2>2
<1> QED BY <1>1, <1>2, <1>3, <1>4

\* After a power failure the logs are shorter, and no command runs.
LEMMA PowerLossStep ==
  ASSUME Inductive, PowerLoss
  PROVE  Inductive'
<1>0. TypeOK /\ LogsOk
  BY DEF Inductive
<1>1. PICK left \in [Doc -> UNION {After(d) : d \in Doc}] :
        /\ \A d \in Doc : left[d] \in After(d)
        /\ present' = {d \in Doc : left[d].there}
        /\ entered' = {d \in Doc : left[d].there}
        /\ lines' = [d \in Doc |-> left[d].lines]
        /\ tail' = [d \in Doc |-> left[d].tail]
        /\ synced' = [d \in Doc |-> Len(left[d].lines)]
        /\ holder' = Nobody
        /\ pc' = [b \in Batch |-> IF pc[b] \in {"new", "acked"} THEN pc[b] ELSE "failed"]
        /\ UNCHANGED <<refs, sent, published>>
  BY DEF PowerLoss
<1>2. ASSUME NEW d \in Doc
      PROVE  /\ lines'[d] \in Seq(Claim \cup {Garbage})
             /\ Len(lines'[d]) \in Nat /\ Len(lines'[d]) <= Len(lines[d])
             /\ Len(lines[d]) \in Nat
             /\ \A i \in 1 .. Len(lines'[d]) : lines'[d][i] = lines[d][i]
             /\ tail'[d] \in Batch \cup {Nobody}
             /\ synced'[d] = Len(lines'[d])
             /\ d \notin present' => lines'[d] = <<>> /\ tail'[d] = Nobody
             /\ d \in present' =>
                   d \in present /\ synced[d] \in Nat /\ synced[d] <= Len(lines'[d])
  <2>1. left[d] \in After(d)
    BY <1>1
  <2>2. /\ lines'[d] = left[d].lines /\ tail'[d] = left[d].tail
        /\ synced'[d] = Len(left[d].lines)
        /\ d \in present' <=> left[d].there
    BY <1>1
  <2>3. lines[d] \in Seq(Claim \cup {Garbage}) /\ Len(lines[d]) \in Nat
        /\ synced[d] \in Nat
    BY <1>0, LineFacts DEF TypeOK
  <2>4. CASE ~left[d].there
    <3>1. lines'[d] = <<>> /\ tail'[d] = Nobody
      BY <2>1, <2>2, <2>4, LeftFacts
    <3> QED BY <2>2, <2>3, <2>4, <3>1, EmptySeq
  <2>5. CASE left[d].there
    <3>1. /\ d \in present /\ tail'[d] \in Batch \cup {Nobody}
          /\ \E n \in synced[d] .. Len(lines[d]) : lines'[d] = SubSeq(lines[d], 1, n)
      BY <2>1, <2>2, <2>5, LeftFacts
    <3>2. PICK n \in synced[d] .. Len(lines[d]) : lines'[d] = SubSeq(lines[d], 1, n)
      BY <3>1
    <3>3. n \in Nat /\ synced[d] <= n /\ n <= Len(lines[d])
      BY <2>3, <3>2
    <3>4. /\ lines'[d] \in Seq(Claim \cup {Garbage}) /\ Len(lines'[d]) = n
          /\ \A i \in 1 .. n : lines'[d][i] = lines[d][i]
      <4>1. CASE n = 0
        <5>1. lines'[d] = <<>>
          BY <2>3, <3>2, <4>1, SubSeqProperties
        <5> QED BY <4>1, <5>1, EmptySeq
      <4>2. CASE n # 0
        BY <2>3, <3>2, <3>3, <4>2, SubSeqProperties
      <4> QED BY <4>1, <4>2
    <3> QED BY <2>2, <2>3, <2>5, <3>1, <3>3, <3>4
  <2> QED BY <2>4, <2>5
<1>3. \A b \in Batch :
        /\ Begun(b) => Begun(b)'
        /\ ~Begun(b)' => ~Begun(b)
        /\ ~Holds(b)'
        /\ pc'[b] \in {"dirs", "acked"} => pc[b] = "acked"
  BY <1>1 DEF Begun, Holds
<1>4. TypeOK'
  <2>1. pc' \in [Batch -> {"new", "built", "create", "append", "dirs", "acked", "failed"}]
    BY <1>0, <1>1 DEF TypeOK
  <2>2. \A x \in Batch : pc'[x] \in {"create", "append", "dirs"} <=> holder' = x
    BY <1>1, <1>3, BatchAssumption DEF Holds
  <2>3. lines' \in [Doc -> Seq(Claim \cup {Garbage})]
    BY <1>1, <1>2
  <2>4. tail' \in [Doc -> Batch \cup {Nobody}]
    BY <1>1, <1>2
  <2>5. synced' \in [Doc -> Nat]
    BY <1>1, <1>2
  <2>6. \A d \in Doc : synced'[d] <= Len(lines'[d])
    BY <1>2
  <2> QED BY <1>0, <1>1, <2>1, <2>2, <2>3, <2>4, <2>5, <2>6 DEF TypeOK
<1>5. LogsOk'
  <2> SUFFICES ASSUME NEW d \in Doc PROVE LogOk(d)'
    BY DEF LogsOk
  <2>1. ASSUME NEW i \in 1 .. Len(lines'[d]) PROVE LineOk(d, i)'
    <3>1. i \in 1 .. Len(lines[d]) /\ lines'[d][i] = lines[d][i]
      BY <1>2, <2>1
    <3>2. LineOk(d, i)
      BY <1>0, <3>1 DEF LogsOk, LogOk
    <3>3. i > 1 => lines'[d][i - 1] = lines[d][i - 1]
      BY <1>2, <2>1
    <3>4. \A j \in 1 .. i - 1 : lines'[d][j] = lines[d][j]
      BY <1>2, <2>1
    <3>5. \A x \in refs[lines[d][i].batch] : \E j \in 1 .. i - 1 : lines'[d][j] = x
      BY <3>2, <3>4 DEF LineOk
    <3>6. Begun(lines[d][i].batch)' /\ refs' = refs
      <4>1. lines[d][i].batch \in Batch /\ Begun(lines[d][i].batch)
        BY <3>2 DEF LineOk, Claim
      <4> QED BY <1>1, <1>3, <3>1, <4>1 DEF Begun
    <3> QED BY <3>1, <3>2, <3>3, <3>5, <3>6 DEF LineOk, IsCreate
  <2> QED BY <1>2, <2>1 DEF LogOk
<1>6. BatchesOk'
  BY <1>1, <1>3 DEF Inductive, BatchesOk, BatchOk
<1>7. WritersOk'
  BY <1>3 DEF WritersOk, WriterOk
<1>8. AllKept'
  <2> SUFFICES ASSUME NEW b \in Batch,
                      pc'[b] \in {"dirs", "acked"}, DocOf[b] \in present',
                      NEW k \in 1 .. Size[b]
               PROVE  \E j \in 1 .. synced'[DocOf[b]] : lines'[DocOf[b]][j] = Nth(b, k)
    BY DEF AllKept, KeptOk
  <2>1. DocOf[b] \in Doc
    BY BatchAssumption
  <2>2. DocOf[b] \in present /\ pc[b] = "acked"
    BY <1>2, <1>3, <2>1
  <2>3. PICK j \in 1 .. synced[DocOf[b]] : lines[DocOf[b]][j] = Nth(b, k)
    BY <2>2 DEF Inductive, AllKept, KeptOk
  <2>4. j \in 1 .. synced'[DocOf[b]] /\ j \in 1 .. Len(lines'[DocOf[b]])
    BY <1>2, <2>1
  <2> QED BY <1>2, <2>1, <2>3, <2>4
<1>9. Origins'
  <2>1. \A d : Made(d) => Made(d)'
    BY <1>3, BatchAssumption DEF Made
  <2>2. present' \subseteq present
    BY <1>1, <1>2
  <2> QED BY <1>3, <2>1, <2>2 DEF Inductive, Origins
<1> QED BY <1>4, <1>5, <1>6, <1>7, <1>8, <1>9 DEF Inductive

----------------------------------------------------------------------------

\* In an empty store.
LEMMA InitInductive == Init => Inductive
<1> SUFFICES ASSUME Init PROVE Inductive
  OBVIOUS
<1>1. \A d \in Doc : lines[d] = <<>> /\ Len(lines[d]) = 0 /\ tail[d] = Nobody /\ synced[d] = 0
  BY EmptySeq DEF Init
<1>2. \A b \in Batch : pc[b] = "new" /\ sent[b] = 0 /\ refs[b] = {}
  BY DEF Init
<1>3. TypeOK
  <2>1. lines \in [Doc -> Seq(Claim \cup {Garbage})]
    BY EmptySeq DEF Init
  <2>2. \A d \in Doc : synced[d] <= Len(lines[d])
    BY <1>1
  <2>3. \A b \in Batch : sent[b] <= Size[b]
    <3> SUFFICES ASSUME NEW b \in Batch PROVE sent[b] <= Size[b]
      OBVIOUS
    <3>1. Size[b] \in Nat
      BY BatchAssumption
    <3> QED BY <1>2, <3>1
  <2>4. \A b \in Batch : pc[b] \in {"create", "append", "dirs"} <=> holder = b
    BY <1>2, BatchAssumption DEF Init
  <2> QED BY <2>1, <2>2, <2>3, <2>4 DEF Init, TypeOK
<1>4. LogsOk
  BY <1>1 DEF LogsOk, LogOk
<1>5. BatchesOk
  BY <1>2 DEF BatchesOk, BatchOk, Init
<1>6. WritersOk /\ AllKept
  BY <1>2 DEF WritersOk, WriterOk, Holds, AllKept, KeptOk
<1>7. Origins
  BY <1>2 DEF Origins, Init
<1> QED BY <1>3, <1>4, <1>5, <1>6, <1>7 DEF Inductive

\* The invariant holds for ever.
LEMMA Invariance == Spec => []Inductive
<1>1. Inductive /\ [Next]_vars => Inductive'
  <2> SUFFICES ASSUME Inductive, [Next]_vars PROVE Inductive'
    OBVIOUS
  <2>1. CASE UNCHANGED vars
    <3>1. UNCHANGED <<present, lines, tail, synced, entered, holder, pc, refs, sent, published>>
      BY <2>1 DEF vars, fileVars
    <3>2. TypeOK'
      BY <3>1 DEF Inductive, TypeOK
    <3>3. LogsOk'
      BY <3>1, LogsKept DEF Inductive, Begun
    <3>4. BatchesOk'
      BY <3>1 DEF Inductive, BatchesOk, BatchOk, Begun
    <3>5. WritersOk'
      BY <3>1 DEF Inductive, WritersOk, WriterOk, Holds, Claims
    <3>6. AllKept'
      BY <3>1 DEF Inductive, AllKept, KeptOk
    <3>7. Origins'
      BY <3>1 DEF Inductive, Origins, Made, Begun
    <3> QED BY <3>2, <3>3, <3>4, <3>5, <3>6, <3>7 DEF Inductive
  <2>2. ASSUME NEW b \in Batch, Command(b) PROVE Inductive'
    BY <2>2, BuildStep, OpenStep, RejectStep, WritePartStep, WriteLineStep, SyncStep,
       SyncDirsStep, DieStep DEF Command
  <2>3. CASE Capture
    BY <2>3, CaptureStep
  <2>4. CASE PowerLoss
    BY <2>4, PowerLossStep
  <2> QED BY <2>1, <2>2, <2>3, <2>4 DEF Next
<1> QED BY <1>1, InitInductive, PTL DEF Spec

\* Every variable of the logs keeps to its kind, and the lock is held exactly by
\* a command between opening its log and its last sync.
THEOREM LogsTyped == Spec => []TypeOK
BY Invariance, PTL DEF Inductive

\* A reader loads every log that has a line: each line comes after all that it
\* refers to, so any prefix folds, and damage is only ever behind the last line.
THEOREM LoadedByReaders == Spec => []ReadersLoad
<1>1. Inductive => ReadersLoad
  <2> SUFFICES ASSUME Inductive, NEW d \in present, lines[d] # <<>>
               PROVE  Loads(d)
    BY DEF ReadersLoad
  <2>1. TypeOK /\ d \in Doc /\ LogOk(d)
    BY DEF Inductive, TypeOK, LogsOk
  <2>2. /\ \A i \in 1 .. Len(lines[d]) : LineOk(d, i)
        /\ Claims(d) = {lines[d][i] : i \in 1 .. Len(lines[d])}
        /\ Len(lines[d]) \in Nat /\ Len(lines[d]) # 0
    BY <2>1, LineFacts DEF LogOk
  <2>3. \A c \in Claims(d) : c \in Claim /\ refs[c.batch] \subseteq Claims(d)
    <3> SUFFICES ASSUME NEW i \in 1 .. Len(lines[d])
                 PROVE  /\ lines[d][i] \in Claim
                        /\ \A x \in refs[lines[d][i].batch] : x \in Claims(d)
      BY <2>2
    <3>1. LineOk(d, i) /\ \A j \in 1 .. i - 1 : j \in 1 .. Len(lines[d])
      BY <2>2
    <3> QED BY <2>2, <3>1 DEF LineOk
  <2>4. ~Corrupt(d)
    <3>1. Garbage \notin Claim
      BY BatchAssumption DEF Garbage, Claim
    <3> QED BY <2>3, <3>1 DEF Corrupt
  <2>5. IsCreate(Head(lines[d]))
    <3>1. Head(lines[d]) = lines[d][1] /\ 1 \in 1 .. Len(lines[d])
      BY <2>2
    <3> QED BY <2>2, <3>1 DEF LineOk
  <2>6. \A i \in 2 .. Len(lines[d]) : ~IsCreate(lines[d][i])
    BY <2>2 DEF LineOk
  <2> QED BY <2>3, <2>4, <2>5, <2>6 DEF Loads, Folds, Claims
<1> QED BY <1>1, Invariance, PTL

\* The claims of one command are never mixed with another's.
THEOREM BatchesWhole == Spec => []BatchesTogether
<1>1. Inductive => BatchesTogether
  <2> SUFFICES ASSUME Inductive, NEW d \in Doc, NEW i \in 1 .. Len(lines[d]),
                      lines[d][i].nth > 1
               PROVE  i > 1 /\ lines[d][i - 1] = [lines[d][i] EXCEPT !.nth = @ - 1]
    BY DEF BatchesTogether
  <2>1. LineOk(d, i)
    BY DEF Inductive, LogsOk, LogOk
  <2>2. lines[d][i] \in Claim
    BY <2>1 DEF LineOk
  <2>3. [lines[d][i] EXCEPT !.nth = @ - 1] = Nth(lines[d][i].batch, lines[d][i].nth - 1)
    BY <2>2 DEF Claim, Nth
  <2> QED BY <2>1, <2>3 DEF LineOk
<1> QED BY <1>1, Invariance, PTL

\* An acknowledged command's claims outlive every crash and power failure, once
\* the directory names the log.
THEOREM AcknowledgedKept == Spec => []AckedKept
<1>1. Inductive => AckedKept
  <2> SUFFICES ASSUME Inductive, NEW b \in Batch, pc[b] = "acked", DocOf[b] \in entered,
                      NEW k \in 1 .. Size[b]
               PROVE  Nth(b, k) \in Claims(DocOf[b])
    BY DEF AckedKept, ClaimsOf, Nth
  <2>1. TypeOK /\ KeptOk(b) /\ DocOf[b] \in Doc /\ DocOf[b] \in present
    BY BatchAssumption DEF Inductive, AllKept, TypeOK
  <2>2. PICK j \in 1 .. synced[DocOf[b]] : lines[DocOf[b]][j] = Nth(b, k)
    BY <2>1 DEF KeptOk
  <2>3. /\ Claims(DocOf[b]) = {lines[DocOf[b]][i] : i \in 1 .. Len(lines[DocOf[b]])}
        /\ Len(lines[DocOf[b]]) \in Nat
    BY <2>1, LineFacts
  <2>4. j \in 1 .. Len(lines[DocOf[b]])
    BY <2>1, <2>3 DEF TypeOK
  <2> QED BY <2>2, <2>3, <2>4
<1> QED BY <1>1, Invariance, PTL

\* No checkpoint holds claims of a command that still writes.
THEOREM CapturesSettled == Spec => []CaptureIsSettled
<1>1. Inductive => CaptureIsSettled
  BY DEF Inductive, WritersOk, WriterOk, Holds, CaptureIsSettled, ClaimsOf
<1> QED BY <1>1, Invariance, PTL

\* What a checkpoint holds refers to nothing outside of it.
CapturedWhole ==
  \A c \in published : c.batch \in Batch /\ refs[c.batch] \subseteq published

\* A batch that changes what it refers to has not been captured.
LEMMA BuildKeepsCaptured ==
  ASSUME Inductive, CapturedWhole, NEW b \in Batch, Build(b)
  PROVE  CapturedWhole'
<1>1. ~Begun(b) /\ published' = published
  BY DEF Build, Begun
<1>2. \A c \in published : c.batch # b
  BY <1>1 DEF Inductive, BatchesOk, BatchOk
<1>3. \A a \in Batch \ {b} : refs'[a] = refs[a]
  BY DEF Build, Inductive, TypeOK
<1> QED BY <1>1, <1>2, <1>3 DEF CapturedWhole

\* A capture reads whole logs only.
LEMMA CaptureIsWhole ==
  ASSUME Inductive, Capture
  PROVE  CapturedWhole'
<1>1. published' = UNION {Claims(d) : d \in present} /\ refs' = refs
  BY DEF Capture
<1> SUFFICES ASSUME NEW d \in present, NEW c \in Claims(d)
             PROVE  c.batch \in Batch /\ refs[c.batch] \subseteq published'
  BY <1>1 DEF CapturedWhole
<1>2. Loads(d) /\ d \in Doc
  BY DEF Capture, Inductive, TypeOK
<1>3. refs[c.batch] \subseteq Claims(d)
  BY <1>2 DEF Loads, Folds, Claims
<1>4. c.batch \in Batch
  <2>1. PICK i \in 1 .. Len(lines[d]) : c = lines[d][i]
    BY <1>2, LineFacts DEF Inductive
  <2>2. LineOk(d, i)
    BY <1>2 DEF Inductive, LogsOk, LogOk
  <2> QED BY <2>1, <2>2 DEF LineOk, Claim
<1> QED BY <1>1, <1>3, <1>4

\* A checkpoint never holds a claim without those it refers to, although it reads
\* logs that commands died on and power failures cut: what Publish takes for granted of
\* the ledgers it captures.
THEOREM CheckpointsAreWhole == Spec => []CapturedWhole
<1>1. Init => CapturedWhole
  BY DEF Init, CapturedWhole
<1>2. ASSUME Inductive, CapturedWhole, [Next]_vars
      PROVE  CapturedWhole'
  <2>1. ASSUME NEW b \in Batch, Build(b) PROVE CapturedWhole'
    BY <1>2, <2>1, BuildKeepsCaptured
  <2>2. CASE Capture
    BY <1>2, <2>2, CaptureIsWhole
  <2>3. ASSUME UNCHANGED <<refs, published>> PROVE CapturedWhole'
    BY <1>2, <2>3 DEF CapturedWhole
  <2>4. ASSUME NEW b \in Batch, Command(b), ~Build(b) PROVE UNCHANGED <<refs, published>>
    BY <2>4 DEF Command, Open, Reject, WritePart, WriteLine, Sync, SyncDirs, Die
  <2>5. PowerLoss => UNCHANGED <<refs, published>>
    BY DEF PowerLoss
  <2>6. UNCHANGED vars => UNCHANGED <<refs, published>>
    BY DEF vars
  <2> QED BY <1>2, <2>1, <2>2, <2>3, <2>4, <2>5, <2>6 DEF Next
<1> QED BY <1>1, <1>2, Invariance, PTL DEF Spec
=============================================================================
