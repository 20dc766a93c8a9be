-------------------------- MODULE ArtifactsProofs ---------------------------
(***************************************************************************)
(* The directory of a minute-order run, for every set of calls, run ids    *)
(* and evidence levels, and whatever the file system does: the marker is   *)
(* there only beside everything it vouches for, a call reports what it     *)
(* left, and no call touches a directory another one made.                 *)
(*                                                                         *)
(* Damage, errors, retries and kills may strike at any step, so nothing    *)
(* can be said of a directory but in terms of how far its owner has come.  *)
(* The invariant says it for every number of steps behind a call.          *)
(***************************************************************************)
EXTENDS Artifacts, SequenceTheorems, TLAPS

Verbs == {"compute", "write", "validate", "require", "verify", "stage", "check",
          "replace", "unlink", "report"}
Names == {"inputs", "rows", "sources", "failure", "contract.json", "inputs.json",
          "commands.jsonl", "source_provenance.json", "source_checks.json", "orders.jsonl",
          "fills.jsonl", "ledger.jsonl", "marks.jsonl", Postflight, "manifest.json",
          "summary.json", "failure.json"}
Step == Verbs \X Names

Writes(names) == {<<"write", n>> : n \in names}

Opening(w) ==
  <<<<"compute", "inputs">>>> \o Each("write", InputNames)
    \o (IF w \in Hybrid THEN Each("write", SourceNames) \o <<<<"validate", "sources">>>> ELSE <<>>)
    \o <<<<"compute", "rows">>>> \o Each("write", RowNames)

Postflights(w) ==
  IF w \in Hybrid THEN <<<<"write", Postflight>>, <<"require", Postflight>>>> ELSE <<>>

Ending == <<<<"write", "manifest.json">>, <<"verify", "manifest.json">>>> \o Publish("summary.json")

-----------------------------------------------------------------------------
(* The invariant: what a call has done is read off what it has still to do.*)

\* What is left of a program after its first k steps, and those steps.
Rest(P, k) == SubSeq(P, k + 1, Len(P))
Done(P, k) == {P[i] : i \in 1 .. k}

WrittenBy(steps) == {n \in Names : <<"write", n>> \in steps}

Meant(files) == [n \in DOMAIN files |-> [files[n] EXCEPT !.intact = TRUE]]

AllIntact(files) == \A n \in DOMAIN files : files[n].intact

\* A try block that has k steps of its l behind it.
WritingFits(w, succeeded, k, root) ==
  LET l == Len(Program(w, succeeded))
      files == root.files
      pending == root.pending
  IN  /\ DOMAIN files = WrittenBy(Done(Program(w, succeeded), k))
      /\ succeeded =>
           /\ (w \in Hybrid /\ k >= l - 5) => files[Postflight].says = "pinned"
           /\ k >= l - 4 =>
                /\ files["manifest.json"].says = "success"
                /\ files["manifest.json"].refs = Refs(Put(Meant(files), "summary.json", Summary))
           /\ k >= l - 3 => AllIntact(files)
           /\ k >= l - 2 =>
                /\ "summary.json" \in DOMAIN pending
                /\ [pending["summary.json"] EXCEPT !.intact = TRUE] = Summary
           /\ k >= l - 1 => pending["summary.json"].intact

FailureIsThere(root) ==
  /\ "failure.json" \in DOMAIN root.files
  /\ root.files["failure.json"].intact
  /\ root.files["failure.json"].says = "failed"

IsFailureManifest(c, files) == c.says = "failed" /\ c.refs = Refs(files)

\* A recording of a failure that has k of its seven steps behind it.
FailureFits(k, root) ==
  /\ k >= 1 => "summary.json" \notin DOMAIN root.files
  /\ k \in {2, 3} =>
       "failure.json" \in DOMAIN root.pending /\ root.pending["failure.json"].says = "failed"
  /\ k = 3 => root.pending["failure.json"].intact
  /\ k >= 4 => FailureIsThere(root)
  /\ k \in {5, 6} =>
       /\ "manifest.json" \in DOMAIN root.pending
       /\ IsFailureManifest(root.pending["manifest.json"], root.files)
  /\ k = 6 => root.pending["manifest.json"].intact
  /\ k = 7 =>
       /\ "manifest.json" \in DOMAIN root.files
       /\ root.files["manifest.json"].intact
       /\ IsFailureManifest(root.files["manifest.json"], root.files)

\* What a call is doing and its directory.
Fits(w, call, root) ==
  /\ call.mode = "writing" =>
       \E succeeded \in BOOLEAN : \E k \in 0 .. (Len(Program(w, succeeded)) - 1) :
         call.todo = Rest(Program(w, succeeded), k) /\ WritingFits(w, succeeded, k, root)
  /\ call.mode \in {"reporting", "recording"} =>
       \E k \in 0 .. 6 : call.todo = Rest(FailureProgram, k) /\ FailureFits(k, root)
  /\ call.mode = "success" => "summary.json" \in DOMAIN root.files
  /\ call.mode \in {"failed", "raised"} => FailureFits(7, root)

IsContent(c) == c = [says |-> c.says, refs |-> c.refs, intact |-> c.intact] /\ c.intact \in BOOLEAN

IsArea(files) ==
  files = [n \in DOMAIN files |-> files[n]] /\ \A n \in DOMAIN files : IsContent(files[n])

IsRoot(root) ==
  /\ root = [owner |-> root.owner, files |-> root.files, pending |-> root.pending]
  /\ root.owner \in Writers /\ IsArea(root.files) /\ IsArea(root.pending)

\* A marker vouches for everything beside it.
Complete(root) ==
  "summary.json" \in DOMAIN root.files =>
    /\ Expected(root.owner) \cup {"manifest.json"} = DOMAIN root.files
    /\ root.files["manifest.json"].says = "success"
    /\ root.files["manifest.json"].refs = Refs(root.files)
    /\ AllIntact(root.files)
    /\ root.owner \in Hybrid => root.files[Postflight].says = "pinned"

Working == {"writing", "reporting", "recording"}
Owning == Working \cup {"success", "failed", "raised", "raised without evidence"}

IsCall(call) ==
  /\ call = [mode |-> call.mode, todo |-> call.todo]
  /\ call.mode \in Active \cup Ended \cup {"ready"}
  /\ call.mode \notin Working => call.todo = <<>>

RootsFit ==
  /\ roots = [r \in DOMAIN roots |-> roots[r]]
  /\ \A r \in DOMAIN roots :
       IsRoot(roots[r]) /\ RunIdOf[roots[r].owner] = r /\ Complete(roots[r])

CallsFit ==
  /\ calls = [w \in Writers |-> calls[w]]
  /\ \A w \in Writers :
       /\ IsCall(calls[w])
       /\ calls[w].mode \in Owning =>
            /\ RunIdOf[w] \in DOMAIN roots
            /\ Root(w).owner = w
            /\ Fits(w, calls[w], Root(w))

ArtifactsIInv == RootsFit /\ CallsFit

-----------------------------------------------------------------------------
(* The programs: which steps they consist of, and how they end. *)

\* A function on an interval from 1 is a sequence.
LEMMA IsSequence ==
  ASSUME NEW S, NEW n \in Nat, NEW f \in [1 .. n -> S]
  PROVE  f \in Seq(S) /\ Len(f) = n
BY SeqDef

\* Writing the documents of a list in turn is a program, which writes just those.
LEMMA EachStep ==
  ASSUME NEW names \in Seq(Names)
  PROVE  /\ Each("write", names) \in Seq(Step)
         /\ Range(Each("write", names)) = Writes(Range(names))
<1>1. \A i \in 1 .. Len(names) : <<"write", names[i]>> \in Step
  BY DEF Step, Verbs
<1>2. Each("write", names) \in [1 .. Len(names) -> Step]
  BY <1>1 DEF Each
<1>3. Each("write", names) \in Seq(Step)
  BY <1>2, IsSequence, LenProperties
<1> QED BY <1>3 DEF Each, Range, Writes

\* Ranges of a concatenation of steps.
LEMMA TwoSteps ==
  ASSUME NEW s \in Seq(Step), NEW t \in Seq(Step)
  PROVE  s \o t \in Seq(Step) /\ Range(s \o t) = Range(s) \cup Range(t)
BY ConcatProperties, RangeConcatenation

\* How a program of three parts is grouped does not matter.
LEMMA Regroup ==
  ASSUME NEW s \in Seq(Step), NEW t \in Seq(Step), NEW u \in Seq(Step)
  PROVE  (s \o t) \o u = s \o (t \o u)
BY ConcatAssociative

\* Where the steps of two programs stand in the two run one after the other.
LEMMA Joined ==
  ASSUME NEW s \in Seq(Step), NEW t \in Seq(Step)
  PROVE  /\ s \o t \in Seq(Step) /\ Len(s \o t) = Len(s) + Len(t)
         /\ \A i \in 1 .. Len(s) : (s \o t)[i] = s[i]
         /\ \A i \in 1 .. Len(t) : (s \o t)[Len(s) + i] = t[i]
<1> SUFFICES ASSUME NEW a \in Nat, NEW b \in Nat, Len(s) = a, Len(t) = b
             PROVE  /\ s \o t \in Seq(Step) /\ Len(s \o t) = a + b
                    /\ \A i \in 1 .. a : (s \o t)[i] = s[i]
                    /\ \A i \in 1 .. b : (s \o t)[a + i] = t[i]
  OBVIOUS
<1>1. s \o t \in Seq(Step) /\ Len(s \o t) = a + b
  BY ConcatProperties
<1>2. \A i \in 1 .. a + b : (s \o t)[i] = IF i <= a THEN s[i] ELSE t[i - a]
  BY ConcatProperties
<1>3. ASSUME NEW i \in 1 .. a PROVE (s \o t)[i] = s[i]
  BY <1>2
<1>4. ASSUME NEW i \in 1 .. b PROVE (s \o t)[a + i] = t[i]
  <2>1. a + i \in 1 .. a + b /\ ~(a + i <= a) /\ (a + i) - a = i
    OBVIOUS
  <2>2. (s \o t)[a + i] = t[(a + i) - a]
    BY <1>2, <2>1
  <2> QED BY <2>1, <2>2
<1> QED BY <1>1, <1>3, <1>4

\* Every run opens with the documents of its kind, except the marker and the
\* postflight check, and a hybrid run has its sources validated on the way.
LEMMA OpeningSteps ==
  ASSUME NEW w
  PROVE  /\ Opening(w) \in Seq(Step)
         /\ Range(Opening(w)) = 
              {<<"compute", "inputs">>, <<"compute", "rows">>}
                \cup (IF w \in Hybrid THEN {<<"validate", "sources">>} ELSE {})
                \cup Writes(Expected(w) \ {"summary.json", Postflight})
<1> DEFINE hybrid == IF w \in Hybrid THEN Each("write", SourceNames) \o <<<<"validate", "sources">>>> ELSE <<>>
           inputs == <<<<"compute", "inputs">>>>
           rows == <<<<"compute", "rows">>>>
           a == Each("write", InputNames)
           b == Each("write", RowNames)
           A == Writes({"contract.json", "inputs.json", "commands.jsonl"})
           B == Writes({"orders.jsonl", "fills.jsonl", "ledger.jsonl", "marks.jsonl"})
           H == IF w \in Hybrid THEN {<<"validate", "sources">>} \cup Writes({"source_provenance.json", "source_checks.json"}) ELSE {}
<1>1. /\ InputNames \in Seq(Names) /\ SourceNames \in Seq(Names) /\ RowNames \in Seq(Names)
      /\ Range(InputNames) = {"contract.json", "inputs.json", "commands.jsonl"}
      /\ Range(SourceNames) = {"source_provenance.json", "source_checks.json"}
      /\ Range(RowNames) = {"orders.jsonl", "fills.jsonl", "ledger.jsonl", "marks.jsonl"}
  BY DEF InputNames, SourceNames, RowNames, Names, Range
<1>2. a \in Seq(Step) /\ Range(a) = A /\ b \in Seq(Step) /\ Range(b) = B
  BY <1>1, EachStep
<1>3. /\ inputs \in Seq(Step) /\ Range(inputs) = {<<"compute", "inputs">>}
      /\ rows \in Seq(Step) /\ Range(rows) = {<<"compute", "rows">>}
  BY DEF Step, Verbs, Names, Range
<1>4. hybrid \in Seq(Step) /\ Range(hybrid) = H
  <2>1. /\ <<<<"validate", "sources">>>> \in Seq(Step)
        /\ Range(<<<<"validate", "sources">>>>) = {<<"validate", "sources">>}
    BY DEF Step, Verbs, Names, Range
  <2>2. <<>> \in Seq(Step) /\ Range(<<>>) = {}
    BY DEF Range
  <2>3. /\ Each("write", SourceNames) \in Seq(Step)
        /\ Range(Each("write", SourceNames)) = Writes({"source_provenance.json", "source_checks.json"})
    BY <1>1, EachStep
  <2>4. /\ Each("write", SourceNames) \o <<<<"validate", "sources">>>> \in Seq(Step)
        /\ Range(Each("write", SourceNames) \o <<<<"validate", "sources">>>>)
             = Writes({"source_provenance.json", "source_checks.json"}) \cup {<<"validate", "sources">>}
    BY <2>1, <2>3, TwoSteps
  <2> QED BY <2>2, <2>4
<1>5. Opening(w) = inputs \o a \o hybrid \o rows \o b
  BY DEF Opening
<1> HIDE DEF inputs, a, hybrid, rows, b, A, B, H
<1>6. inputs \o a \in Seq(Step) /\ Range(inputs \o a) = {<<"compute", "inputs">>} \cup A
  BY <1>2, <1>3, TwoSteps
<1>7. inputs \o a \o hybrid \in Seq(Step) /\ Range(inputs \o a \o hybrid) = {<<"compute", "inputs">>} \cup A \cup H
  BY <1>4, <1>6, TwoSteps
<1>8. /\ inputs \o a \o hybrid \o rows \in Seq(Step)
      /\ Range(inputs \o a \o hybrid \o rows) = {<<"compute", "inputs">>} \cup A \cup H \cup {<<"compute", "rows">>}
  BY <1>3, <1>7, TwoSteps
<1>9. /\ Opening(w) \in Seq(Step)
      /\ Range(Opening(w)) = {<<"compute", "inputs">>} \cup A \cup H \cup {<<"compute", "rows">>} \cup B
  BY <1>2, <1>5, <1>8, TwoSteps, ZenonT(30)
<1>10. A \cup B \cup (IF w \in Hybrid THEN Writes({"source_provenance.json", "source_checks.json"}) ELSE {})
         = Writes(Expected(w) \ {"summary.json", Postflight})
  BY DEF A, B, Writes, Expected, Postflight
<1> QED BY <1>9, <1>10 DEF H

\* The two ways a run may go share their opening; the successful one ends with
\* the manifest and the marker.
LEMMA ProgramParts ==
  ASSUME NEW w
  PROVE  /\ Program(w, FALSE) = Opening(w) \o <<<<"report", "failure">>>>
         /\ Program(w, TRUE) = Opening(w) \o Postflights(w) \o Ending
         /\ Ending \in Seq(Step) /\ Len(Ending) = 5
         /\ Ending[1] = <<"write", "manifest.json">> /\ Ending[2] = <<"verify", "manifest.json">>
         /\ Ending[3] = <<"stage", "summary.json">> /\ Ending[4] = <<"check", "summary.json">>
         /\ Ending[5] = <<"replace", "summary.json">>
<1> DEFINE m == <<<<"write", "manifest.json">>, <<"verify", "manifest.json">>>>
<1>1. m \in Seq(Step) /\ Publish("summary.json") \in Seq(Step) /\ Postflights(w) \in Seq(Step)
  <2>1. m \in Seq(Step)
    BY DEF Step, Verbs, Names
  <2>2. Publish("summary.json") \in Seq(Step)
    BY DEF Step, Verbs, Names, Publish
  <2>3. <<<<"write", Postflight>>, <<"require", Postflight>>>> \in Seq(Step) /\ <<>> \in Seq(Step)
    BY DEF Step, Verbs, Names
  <2> QED BY <2>1, <2>2, <2>3 DEF Postflights
<1>2. Program(w, FALSE) = Opening(w) \o <<<<"report", "failure">>>>
  BY DEF Program, Opening
<1>3. Completion(w) = (Postflights(w) \o m) \o Publish("summary.json")
  BY DEF Completion, Postflights
<1>4. Program(w, TRUE) = Opening(w) \o Completion(w)
  BY DEF Program, Opening
<1>5. Completion(w) = Postflights(w) \o (m \o Publish("summary.json"))
  <2> HIDE DEF m
  <2> QED BY <1>1, <1>3, ConcatAssociative
<1>6. Ending = m \o Publish("summary.json") /\ Ending \in Seq(Step)
  BY <1>1, ConcatProperties DEF Ending
<1>7. Program(w, TRUE) = Opening(w) \o Postflights(w) \o Ending
  <2> HIDE DEF m
  <2>1. Opening(w) \in Seq(Step)
    BY OpeningSteps
  <2>2. (Opening(w) \o Postflights(w)) \o Ending = Opening(w) \o (Postflights(w) \o Ending)
    <3>1. Postflights(w) \in Seq(Step) /\ Ending \in Seq(Step)
      BY <1>1, <1>6
    <3> QED BY <2>1, <3>1, Regroup
  <2>3. Completion(w) = Postflights(w) \o Ending
    BY <1>5, <1>6
  <2> QED BY <1>4, <2>2, <2>3, Zenon
<1>8. /\ Len(m) = 2 /\ m[1] = <<"write", "manifest.json">> /\ m[2] = <<"verify", "manifest.json">>
      /\ Len(Publish("summary.json")) = 3
      /\ Publish("summary.json")[1] = <<"stage", "summary.json">>
      /\ Publish("summary.json")[2] = <<"check", "summary.json">>
      /\ Publish("summary.json")[3] = <<"replace", "summary.json">>
  BY DEF Publish
<1>9. /\ Len(Ending) = 5 /\ Ending[1] = m[1] /\ Ending[2] = m[2]
      /\ Ending[3] = Publish("summary.json")[1] /\ Ending[4] = Publish("summary.json")[2]
      /\ Ending[5] = Publish("summary.json")[3]
  <2> DEFINE p == Publish("summary.json")
  <2>1. m \in Seq(Step) /\ p \in Seq(Step) /\ Len(m) = 2 /\ Len(p) = 3 /\ Ending = m \o p
    BY <1>1, <1>6, <1>8
  <2> HIDE DEF m, p
  <2>2. /\ Len(m \o p) = Len(m) + Len(p)
        /\ \A i \in 1 .. Len(m) : (m \o p)[i] = m[i]
        /\ \A i \in 1 .. Len(p) : (m \o p)[Len(m) + i] = p[i]
    BY <2>1, Joined
  <2>3. /\ Len(m \o p) = 5 /\ \A i \in 1 .. 2 : (m \o p)[i] = m[i]
        /\ \A i \in 1 .. 3 : (m \o p)[2 + i] = p[i]
    BY <2>1, <2>2
  <2>4. /\ (m \o p)[1] = m[1] /\ (m \o p)[2] = m[2]
        /\ (m \o p)[3] = p[1] /\ (m \o p)[4] = p[2] /\ (m \o p)[5] = p[3]
    <3>1. 2 + 1 = 3 /\ 2 + 2 = 4 /\ 2 + 3 = 5 /\ 1 \in 1 .. 3 /\ 2 \in 1 .. 3 /\ 3 \in 1 .. 3
            /\ 1 \in 1 .. 2 /\ 2 \in 1 .. 2
      OBVIOUS
    <3> QED BY <2>3, <3>1
  <2> QED BY <2>1, <2>3, <2>4 DEF p
<1> HIDE DEF m
<1> QED BY <1>2, <1>6, <1>7, <1>8, <1>9

\* A program is a sequence of steps, and has some.
LEMMA ProgramType ==
  ASSUME NEW w, NEW succeeded \in BOOLEAN
  PROVE  /\ Program(w, succeeded) \in Seq(Step)
         /\ Len(Program(w, succeeded)) \in Nat \ {0}
         /\ Postflights(w) \in Seq(Step)
<1> DEFINE P == Program(w, succeeded)
           o == Opening(w)
           p == Postflights(w)
           r == <<<<"report", "failure">>>>
<1>1. o \in Seq(Step) /\ Len(o) \in Nat
  <2>1. o \in Seq(Step)
    BY OpeningSteps
  <2> HIDE DEF o
  <2> QED BY <2>1, LenProperties
<1>2. p \in Seq(Step)
  <2>1. <<<<"write", Postflight>>, <<"require", Postflight>>>> \in Seq(Step) /\ <<>> \in Seq(Step)
    BY DEF Step, Verbs, Names
  <2> QED BY <2>1 DEF Postflights
<1>3. r \in Seq(Step) /\ Len(r) = 1
  BY DEF Step, Verbs, Names
<1>4. CASE succeeded = TRUE
  <2>1. P = o \o p \o Ending /\ Ending \in Seq(Step) /\ Len(Ending) = 5
    BY <1>4, ProgramParts
  <2> HIDE DEF o, p, P
  <2> DEFINE q == o \o p
  <2>2. q \in Seq(Step)
    BY <1>1, <1>2, ConcatProperties
  <2>3. P = q \o Ending /\ Len(q) \in Nat
    BY <2>1, <2>2
  <2> HIDE DEF q
  <2>4. P \in Seq(Step) /\ Len(P) = Len(q) + Len(Ending)
    BY <2>1, <2>2, <2>3, ConcatProperties, ZenonT(30)
  <2> QED BY <1>2, <2>1, <2>3, <2>4 DEF P, p
<1>5. CASE succeeded = FALSE
  <2>1. P = o \o r
    BY <1>5, ProgramParts
  <2> HIDE DEF o, p, r, P
  <2>2. P \in Seq(Step) /\ Len(P) = Len(o) + Len(r)
    BY <1>1, <1>3, <2>1, ConcatProperties
  <2> QED BY <1>1, <1>2, <1>3, <2>2 DEF P, p
<1> QED BY <1>4, <1>5

\* Where a step may stand in a program of l steps that has k steps before it.
Stands(step, w, succeeded, k, l) ==
  LET early == succeeded => (k < l - 5 /\ (w \in Hybrid => k < l - 6))
  IN  \/ step[1] \in {"compute", "validate"} /\ k < l - 1 /\ early
      \/ /\ step[1] = "write" /\ step[2] \notin {"summary.json", "manifest.json"}
         /\ k < l - 1 /\ early
      \/ step = <<"require", Postflight>> /\ succeeded /\ k = l - 6
      \/ step = <<"write", "manifest.json">> /\ succeeded /\ k = l - 5
      \/ step = <<"verify", "manifest.json">> /\ succeeded /\ k = l - 4
      \/ step = <<"stage", "summary.json">> /\ succeeded /\ k = l - 3
      \/ step = <<"check", "summary.json">> /\ succeeded /\ k = l - 2
      \/ step = <<"replace", "summary.json">> /\ succeeded /\ k = l - 1
      \/ step = <<"report", "failure">> /\ ~succeeded /\ k = l - 1

\* Every step of a program stands where it may.
LEMMA ProgramSteps ==
  ASSUME NEW w, NEW succeeded \in BOOLEAN,
         NEW k \in 0 .. (Len(Program(w, succeeded)) - 1)
  PROVE  LET P == Program(w, succeeded)
         IN  /\ P \in Seq(Step) /\ Len(P) \in Nat /\ P[k + 1] \in Step
             /\ Stands(P[k + 1], w, succeeded, k, Len(P))
<1> SUFFICES ASSUME NEW P, P = Program(w, succeeded), k \in 0 .. (Len(P) - 1)
             PROVE  /\ P \in Seq(Step) /\ Len(P) \in Nat /\ P[k + 1] \in Step
                    /\ Stands(P[k + 1], w, succeeded, k, Len(P))
  OBVIOUS
<1> DEFINE o == Opening(w)
           n == Len(o)
           quiet(step) == /\ step \in Step
                          /\ \/ step[1] \in {"compute", "validate"}
                             \/ step[1] = "write" /\ step[2] \notin {"summary.json", "manifest.json"}
<1>1. o \in Seq(Step) /\ n \in Nat /\ \A i \in 1 .. n : o[i] \in Step /\ o[i] \in Range(o)
  <2>1. o \in Seq(Step)
    BY OpeningSteps
  <2> HIDE DEF o
  <2> QED BY <2>1, LenProperties DEF Range
<1>2. \A i \in 1 .. n : quiet(o[i])
  <2> SUFFICES ASSUME NEW i \in 1 .. n PROVE quiet(o[i])
    OBVIOUS
  <2>1. \/ o[i] \in {<<"compute", "inputs">>, <<"compute", "rows">>, <<"validate", "sources">>}
        \/ o[i] \in Writes(Expected(w) \ {"summary.json", Postflight})
    BY <1>1, OpeningSteps
  <2>2. "manifest.json" \notin Expected(w)
    BY DEF Expected, Postflight
  <2> HIDE DEF o
  <2> QED BY <1>1, <2>1, <2>2 DEF Writes
<1>3. CASE ~succeeded
  <2> DEFINE r == <<<<"report", "failure">>>>
  <2>1. r \in Seq(Step) /\ Len(r) = 1 /\ r[1] = <<"report", "failure">> /\ r[1] \in Step
    BY DEF Step, Verbs, Names
  <2>2. P = o \o r
    BY <1>3, ProgramParts
  <2> HIDE DEF o, r
  <2>3. /\ P \in Seq(Step) /\ Len(P) = n + 1
        /\ \A i \in 1 .. n : P[i] = o[i]
        /\ P[n + 1] = r[1]
    <3>1. /\ o \o r \in Seq(Step) /\ Len(o \o r) = Len(o) + Len(r)
          /\ \A i \in 1 .. Len(o) : (o \o r)[i] = o[i]
          /\ \A i \in 1 .. Len(r) : (o \o r)[Len(o) + i] = r[i]
      BY <1>1, <2>1, Joined
    <3> QED BY <2>1, <2>2, <3>1
  <2>4. CASE k < n
    <3>1. k + 1 \in 1 .. n
      BY <1>1, <2>4
    <3>2. quiet(P[k + 1])
      BY <1>2, <2>3, <3>1
    <3>3. k < Len(P) - 1 /\ Len(P) \in Nat
      BY <1>1, <2>3, <2>4
    <3> QED BY <1>3, <2>3, <3>2, <3>3 DEF Stands
  <2>5. CASE k = n
    <3>1. P[k + 1] = <<"report", "failure">> /\ P[k + 1] \in Step
      BY <1>1, <2>1, <2>3, <2>5
    <3>2. k = Len(P) - 1 /\ Len(P) \in Nat
      BY <1>1, <2>3, <2>5
    <3> QED BY <1>3, <2>3, <3>1, <3>2, Zenon DEF Stands
  <2>6. k \in 0 .. n
    BY <1>1, <2>3
  <2> QED BY <1>1, <2>4, <2>5, <2>6
<1>4. CASE succeeded
  <2> DEFINE p == Postflights(w)
             e == Ending
             m == Len(p)
  <2>1. /\ e \in Seq(Step) /\ Len(e) = 5
        /\ e[1] = <<"write", "manifest.json">> /\ e[2] = <<"verify", "manifest.json">>
        /\ e[3] = <<"stage", "summary.json">> /\ e[4] = <<"check", "summary.json">>
        /\ e[5] = <<"replace", "summary.json">>
    BY ProgramParts
  <2>2. /\ p \in Seq(Step) /\ m \in Nat
        /\ m = IF w \in Hybrid THEN 2 ELSE 0
        /\ w \in Hybrid => p[1] = <<"write", Postflight>> /\ p[2] = <<"require", Postflight>>
    <3>1. <<<<"write", Postflight>>, <<"require", Postflight>>>> \in Seq(Step) /\ <<>> \in Seq(Step)
      BY DEF Step, Verbs, Names
    <3> QED BY <3>1 DEF Postflights
  <2>3. P = (o \o p) \o e
    BY <1>4, ProgramParts
  <2> HIDE DEF o, p, e
  <2>4. /\ o \o p \in Seq(Step) /\ Len(o \o p) = n + m
        /\ \A i \in 1 .. n : (o \o p)[i] = o[i]
        /\ \A i \in 1 .. m : (o \o p)[n + i] = p[i]
    BY <1>1, <2>2, Joined
  <2>5. /\ P \in Seq(Step) /\ Len(P) = (n + m) + 5
        /\ \A i \in 1 .. n + m : P[i] = (o \o p)[i]
        /\ \A i \in 1 .. 5 : P[(n + m) + i] = e[i]
    <3> DEFINE q == o \o p
    <3>1. q \in Seq(Step) /\ Len(q) = n + m /\ P = q \o e
      BY <2>3, <2>4
    <3> HIDE DEF q
    <3>2. /\ q \o e \in Seq(Step) /\ Len(q \o e) = Len(q) + Len(e)
          /\ \A i \in 1 .. Len(q) : (q \o e)[i] = q[i]
          /\ \A i \in 1 .. Len(e) : (q \o e)[Len(q) + i] = e[i]
      BY <2>1, <3>1, Joined
    <3>3. /\ P \in Seq(Step) /\ Len(P) = (n + m) + 5
          /\ \A i \in 1 .. n + m : P[i] = q[i]
          /\ \A i \in 1 .. 5 : P[(n + m) + i] = e[i]
      BY <2>1, <3>1, <3>2
    <3> QED BY <3>3 DEF q
  <2>6. k \in 0 .. n + m + 4
    BY <1>1, <2>2, <2>5
  <2>7. CASE k < n
    <3>1. k + 1 \in 1 .. n /\ k + 1 \in 1 .. n + m
      BY <1>1, <2>2, <2>6, <2>7
    <3>2. quiet(P[k + 1])
      BY <1>2, <2>4, <2>5, <3>1
    <3>3. k < Len(P) - 1 /\ k < Len(P) - 5 /\ (w \in Hybrid => k < Len(P) - 6) /\ Len(P) \in Nat
      BY <1>1, <2>2, <2>5, <2>7, SMTT(30)
    <3> QED BY <2>5, <3>2, <3>3, Zenon DEF Stands
  <2>8. CASE k >= n /\ k < n + m
    <3>1. w \in Hybrid /\ m = 2
      BY <1>1, <2>2, <2>8
    <3>2. k = n \/ k = n + 1
      BY <1>1, <2>6, <2>8, <3>1
    <3>3. P[n + 1] = p[1] /\ P[n + 2] = p[2] /\ p[1] \in Step /\ p[2] \in Step
      <4>1. /\ 1 \in 1 .. m /\ 2 \in 1 .. m /\ n + 1 \in 1 .. n + m /\ n + 2 \in 1 .. n + m
        BY <1>1, <3>1
      <4> QED BY <2>2, <2>4, <2>5, <4>1, ElementOfSeq
    <3>4. CASE k = n
      <4>1. P[k + 1] = <<"write", Postflight>> /\ P[k + 1] \in Step
        BY <1>1, <2>2, <3>1, <3>3, <3>4
      <4>2. k < Len(P) - 6 /\ k < Len(P) - 5 /\ k < Len(P) - 1 /\ Len(P) \in Nat
        BY <1>1, <2>5, <3>1, <3>4
      <4>3. P[k + 1][1] = "write" /\ P[k + 1][2] \notin {"summary.json", "manifest.json"}
        BY <4>1 DEF Postflight
      <4> QED BY <2>5, <3>1, <4>1, <4>2, <4>3, Zenon DEF Stands
    <3>5. CASE k = n + 1
      <4>1. P[k + 1] = <<"require", Postflight>> /\ P[k + 1] \in Step
        BY <1>1, <2>2, <3>1, <3>3, <3>5
      <4>2. k = Len(P) - 6 /\ Len(P) \in Nat
        BY <1>1, <2>5, <3>1, <3>5
      <4> QED BY <1>4, <2>5, <4>1, <4>2, Zenon DEF Stands
    <3> QED BY <3>2, <3>4, <3>5
  <2>9. CASE k >= n + m
    <3>0. n + m \in Nat
      BY <1>1, <2>2
    <3>1. PICK i \in 1 .. 5 : k + 1 = (n + m) + i
      <4>1. (k + 1) - (n + m) \in 1 .. 5 /\ k + 1 = (n + m) + ((k + 1) - (n + m))
        BY <2>6, <2>9, <3>0
      <4> QED BY <4>1
    <3>2. P[k + 1] = e[i] /\ e[i] \in Step /\ k = Len(P) - (6 - i)
      <4>1. e[i] \in Step
        BY <2>1, ElementOfSeq
      <4> QED BY <2>5, <3>0, <3>1, <4>1, SMTT(30)
    <3>3. i = 1 \/ i = 2 \/ i = 3 \/ i = 4 \/ i = 5
      OBVIOUS
    <3>4. Len(P) \in Nat /\ P[k + 1] \in Step /\ P \in Seq(Step)
      BY <2>5, <3>0, <3>2
    <3>5. CASE i = 1
      <4>1. P[k + 1] = e[1] /\ k = Len(P) - 5
        BY <3>2, <3>4, <3>5
      <4> QED BY <1>4, <2>1, <3>4, <4>1, Zenon DEF Stands
    <3>6. CASE i = 2
      <4>1. P[k + 1] = e[2] /\ k = Len(P) - 4
        BY <3>2, <3>4, <3>6
      <4> QED BY <1>4, <2>1, <3>4, <4>1, Zenon DEF Stands
    <3>7. CASE i = 3
      <4>1. P[k + 1] = e[3] /\ k = Len(P) - 3
        BY <3>2, <3>4, <3>7
      <4> QED BY <1>4, <2>1, <3>4, <4>1, Zenon DEF Stands
    <3>8. CASE i = 4
      <4>1. P[k + 1] = e[4] /\ k = Len(P) - 2
        BY <3>2, <3>4, <3>8
      <4> QED BY <1>4, <2>1, <3>4, <4>1, Zenon DEF Stands
    <3>9. CASE i = 5
      <4>1. P[k + 1] = e[5] /\ k = Len(P) - 1
        BY <3>2, <3>4, <3>9
      <4> QED BY <1>4, <2>1, <3>4, <4>1, Zenon DEF Stands
    <3> QED BY <3>3, <3>5, <3>6, <3>7, <3>8, <3>9
  <2> QED BY <1>1, <2>2, <2>6, <2>7, <2>8, <2>9
<1> QED BY <1>3, <1>4

\* What is left of a program loses its first step at a time.
LEMMA RestSteps ==
  ASSUME NEW P \in Seq(Step), NEW k \in 0 .. (Len(P) - 1)
  PROVE  /\ Rest(P, k) # <<>> /\ Head(Rest(P, k)) = P[k + 1] /\ P[k + 1] \in Step
         /\ Tail(Rest(P, k)) = Rest(P, k + 1)
         /\ k + 1 = Len(P) <=> Rest(P, k + 1) = <<>>
<1>1. Len(P) \in Nat /\ k + 1 \in 1 .. Len(P) /\ Len(P) \in (k + 1) .. Len(P)
  BY LenProperties
<1>2. Head(Rest(P, k)) = P[k + 1] /\ Tail(Rest(P, k)) = Rest(P, k + 1)
  BY <1>1, HeadTailOfSubSeq DEF Rest
<1>3. \A j \in 0 .. Len(P) : /\ Len(Rest(P, j)) = Len(P) - j
                             /\ Rest(P, j) \in Seq(Step)
  <2> TAKE j \in 0 .. Len(P)
  <2>1. j + 1 \in Int /\ Len(P) \in Int /\ j <= Len(P)
    BY <1>1
  <2>2. \A i \in (j + 1) .. Len(P) : P[i] \in Step
    BY <2>1, ElementOfSeq
  <2>3. /\ SubSeq(P, j + 1, Len(P)) \in Seq(Step)
        /\ Len(SubSeq(P, j + 1, Len(P))) = IF j + 1 <= Len(P) THEN Len(P) - (j + 1) + 1 ELSE 0
    BY <2>1, <2>2, SubSeqProperties
  <2> QED BY <2>1, <2>3 DEF Rest
<1>4. Len(Rest(P, k)) = Len(P) - k /\ Len(Rest(P, k + 1)) = Len(P) - (k + 1)
        /\ Rest(P, k) \in Seq(Step) /\ Rest(P, k + 1) \in Seq(Step)
  BY <1>1, <1>3
<1>5. Rest(P, k) # <<>> /\ (k + 1 = Len(P) <=> Rest(P, k + 1) = <<>>)
  BY <1>1, <1>4, EmptySeq
<1>6. P[k + 1] \in Step
  BY <1>1, ElementOfSeq
<1> QED BY <1>2, <1>5, <1>6

\* A program is all that is left of it before its first step.
LEMMA RestOfAll ==
  ASSUME NEW P \in Seq(Step)
  PROVE  Rest(P, 0) = P
BY SubSeqFull DEF Rest

\* One more step is behind the call.
LEMMA DoneNext ==
  ASSUME NEW P \in Seq(Step), NEW k \in 0 .. (Len(P) - 1)
  PROVE  WrittenBy(Done(P, k + 1))
           = WrittenBy(Done(P, k)) \cup (IF P[k + 1][1] = "write" THEN {P[k + 1][2]} ELSE {})
<1>1. k + 1 \in 1 .. Len(P) /\ 1 .. (k + 1) = (1 .. k) \cup {k + 1}
  BY LenProperties
<1>2. P[k + 1] \in Step
  BY <1>1, ElementOfSeq
<1>3. Done(P, k + 1) = Done(P, k) \cup {P[k + 1]}
  BY <1>1 DEF Done
<1>4. WrittenBy({P[k + 1]}) = IF P[k + 1][1] = "write" THEN {P[k + 1][2]} ELSE {}
  BY <1>2 DEF WrittenBy, Step
<1>5. WrittenBy(Done(P, k + 1)) = WrittenBy(Done(P, k)) \cup WrittenBy({P[k + 1]})
  BY <1>3 DEF WrittenBy
<1> QED BY <1>4, <1>5

\* Nothing is behind a call that has not begun.
LEMMA DoneNothing ==
  ASSUME NEW P
  PROVE  WrittenBy(Done(P, 0)) = {}
BY DEF WrittenBy, Done

\* The marker is never among the files written in place.
LEMMA NoMarkerWritten ==
  ASSUME NEW w, NEW succeeded \in BOOLEAN,
         NEW k \in 0 .. (Len(Program(w, succeeded)) - 1)
  PROVE  "summary.json" \notin WrittenBy(Done(Program(w, succeeded), k))
<1> DEFINE P == Program(w, succeeded)
<1>1. Len(P) \in Nat
  BY ProgramSteps
<1>2. ASSUME NEW i \in 1 .. k PROVE P[i] # <<"write", "summary.json">>
  <2>1. i - 1 \in 0 .. (Len(P) - 1) /\ (i - 1) + 1 = i
    BY <1>1
  <2>2. Stands(P[i], w, succeeded, i - 1, Len(P))
    BY <2>1, ProgramSteps
  <2> HIDE DEF P
  <2> QED BY <2>2 DEF Stands
<1> HIDE DEF P
<1>3. <<"write", "summary.json">> \notin Done(P, k)
  BY <1>2 DEF Done
<1> QED BY <1>3 DEF WrittenBy, P

\* What a successful program has written before its last step.
LEMMA SuccessWrites ==
  ASSUME NEW w
  PROVE  LET P == Program(w, TRUE)
         IN  WrittenBy(Done(P, Len(P) - 1)) = (Expected(w) \ {"summary.json"}) \cup {"manifest.json"}
<1> DEFINE P == Program(w, TRUE)
           o == Opening(w)
           p == Postflights(w)
           l == Len(P)
<1>1. l \in Nat /\ P \in Seq(Step) /\ l >= 1
  <2>1. P \in Seq(Step) /\ l \in Nat \ {0}
    BY ProgramType
  <2> HIDE DEF l, P
  <2>2. l \in Nat /\ l # 0
    BY <2>1
  <2>3. l >= 1
    BY <2>2
  <2> QED BY <2>1, <2>2, <2>3
<1>2. Range(P) = Range(o) \cup Range(p) \cup Range(Ending)
  <2>1. P = o \o p \o Ending /\ Ending \in Seq(Step)
    BY ProgramParts
  <2>2. o \in Seq(Step) /\ p \in Seq(Step)
    BY OpeningSteps, ProgramType
  <2> HIDE DEF o, p, P
  <2>3. o \o p \in Seq(Step) /\ Range(o \o p) = Range(o) \cup Range(p)
    BY <2>2, TwoSteps
  <2> DEFINE q == o \o p
  <2>4. q \in Seq(Step) /\ P = q \o Ending /\ Range(q) = Range(o) \cup Range(p)
    BY <2>1, <2>3
  <2> HIDE DEF q
  <2> QED BY <2>1, <2>4, TwoSteps
<1>3. Range(Ending) = {<<"write", "manifest.json">>, <<"verify", "manifest.json">>,
                       <<"stage", "summary.json">>, <<"check", "summary.json">>,
                       <<"replace", "summary.json">>}
  <2>1. /\ Ending \in Seq(Step) /\ Len(Ending) = 5
        /\ Ending[1] = <<"write", "manifest.json">> /\ Ending[2] = <<"verify", "manifest.json">>
        /\ Ending[3] = <<"stage", "summary.json">> /\ Ending[4] = <<"check", "summary.json">>
        /\ Ending[5] = <<"replace", "summary.json">>
    BY ProgramParts
  <2>2. DOMAIN Ending = {1, 2, 3, 4, 5}
    BY <2>1
  <2> QED BY <2>1, <2>2 DEF Range
<1>4. Range(p) = IF w \in Hybrid THEN {<<"write", Postflight>>, <<"require", Postflight>>} ELSE {}
  BY DEF Postflights, Range
<1>5. WrittenBy(Range(P)) = (Expected(w) \ {"summary.json"}) \cup {"manifest.json"}
  <2>1. WrittenBy(Range(o)) = Expected(w) \ {"summary.json", Postflight}
    <3>1. Expected(w) \subseteq Names
      BY DEF Expected, Names, Postflight
    <3>2. Range(o) = {<<"compute", "inputs">>, <<"compute", "rows">>}
                       \cup (IF w \in Hybrid THEN {<<"validate", "sources">>} ELSE {})
                       \cup Writes(Expected(w) \ {"summary.json", Postflight})
      BY OpeningSteps
    <3> HIDE DEF o
    <3> QED BY <3>1, <3>2 DEF WrittenBy, Writes
  <2>2. WrittenBy(Range(Ending)) = {"manifest.json"}
    BY <1>3 DEF WrittenBy, Names
  <2>3. WrittenBy(Range(p)) = IF w \in Hybrid THEN {Postflight} ELSE {}
    <3> HIDE DEF p
    <3> QED BY <1>4 DEF WrittenBy, Names
  <2>4. WrittenBy(Range(P)) = WrittenBy(Range(o)) \cup WrittenBy(Range(p)) \cup WrittenBy(Range(Ending))
    <3> HIDE DEF P, o, p
    <3> QED BY <1>2 DEF WrittenBy
  <2>5. Postflight \in Expected(w) <=> w \in Hybrid
    BY DEF Expected, Postflight
  <2>6. Postflight # "summary.json"
    BY DEF Postflight
  <2> HIDE DEF P, o, p
  <2> QED BY <2>1, <2>2, <2>3, <2>4, <2>5, <2>6
<1>6. Done(P, l) = Range(P)
  <2> HIDE DEF P
  <2> QED BY <1>1, LenProperties DEF Done, Range
<1>7. l - 1 \in 0 .. (l - 1) /\ (l - 1) + 1 = l
  <2> HIDE DEF l
  <2> QED BY <1>1
<1>8. Stands(P[l], w, TRUE, l - 1, l)
  BY <1>7, ProgramSteps
<1>9. P[l][1] # "write"
  <2> HIDE DEF P
  <2> QED BY <1>1, <1>8 DEF Stands
<1>10. WrittenBy(Done(P, l)) = WrittenBy(Done(P, l - 1))
  <2>1. WrittenBy(Done(P, (l - 1) + 1))
          = WrittenBy(Done(P, l - 1)) \cup (IF P[(l - 1) + 1][1] = "write" THEN {P[(l - 1) + 1][2]} ELSE {})
    BY <1>1, <1>7, DoneNext
  <2> HIDE DEF P, l
  <2> QED BY <1>7, <1>9, <2>1
<1> QED BY <1>5, <1>6, <1>10

\* The seven steps that record a failure.
LEMMA FailureSteps ==
  /\ FailureProgram \in Seq(Step) /\ Len(FailureProgram) = 7
  /\ FailureProgram[1] = <<"unlink", "summary.json">>
  /\ FailureProgram[2] = <<"stage", "failure.json">>
  /\ FailureProgram[3] = <<"check", "failure.json">>
  /\ FailureProgram[4] = <<"replace", "failure.json">>
  /\ FailureProgram[5] = <<"stage", "manifest.json">>
  /\ FailureProgram[6] = <<"check", "manifest.json">>
  /\ FailureProgram[7] = <<"replace", "manifest.json">>
<1> DEFINE u == <<<<"unlink", "summary.json">>>>
           f == Publish("failure.json")
           m == Publish("manifest.json")
<1>1. u \in Seq(Step) /\ Len(u) = 1 /\ u[1] = <<"unlink", "summary.json">>
  BY DEF Step, Verbs, Names
<1>2. /\ f \in Seq(Step) /\ Len(f) = 3 /\ f[1] = <<"stage", "failure.json">>
      /\ f[2] = <<"check", "failure.json">> /\ f[3] = <<"replace", "failure.json">>
  BY DEF Step, Verbs, Names, Publish
<1>3. /\ m \in Seq(Step) /\ Len(m) = 3 /\ m[1] = <<"stage", "manifest.json">>
      /\ m[2] = <<"check", "manifest.json">> /\ m[3] = <<"replace", "manifest.json">>
  BY DEF Step, Verbs, Names, Publish
<1>4. FailureProgram = (u \o f) \o m
  BY DEF FailureProgram
<1> HIDE DEF u, f, m
<1> DEFINE q == u \o f
<1>5. /\ q \in Seq(Step) /\ Len(q) = Len(u) + Len(f)
      /\ \A i \in 1 .. Len(u) : q[i] = u[i]
      /\ \A i \in 1 .. Len(f) : q[Len(u) + i] = f[i]
  BY <1>1, <1>2, Joined
<1>6. /\ Len(q) = 4 /\ q[1] = u[1] /\ \A i \in 1 .. 3 : q[1 + i] = f[i]
  BY <1>1, <1>2, <1>5
<1>7. q[2] = f[1] /\ q[3] = f[2] /\ q[4] = f[3]
  <2>1. 1 + 1 = 2 /\ 1 + 2 = 3 /\ 1 + 3 = 4 /\ 1 \in 1 .. 3 /\ 2 \in 1 .. 3 /\ 3 \in 1 .. 3
    OBVIOUS
  <2> HIDE DEF q
  <2> QED BY <1>6, <2>1
<1> HIDE DEF q
<1>8. /\ q \o m \in Seq(Step) /\ Len(q \o m) = Len(q) + Len(m)
      /\ \A i \in 1 .. Len(q) : (q \o m)[i] = q[i]
      /\ \A i \in 1 .. Len(m) : (q \o m)[Len(q) + i] = m[i]
  BY <1>3, <1>5, Joined
<1>9. /\ Len(q \o m) = 7 /\ \A i \in 1 .. 4 : (q \o m)[i] = q[i]
      /\ \A i \in 1 .. 3 : (q \o m)[4 + i] = m[i]
  BY <1>3, <1>6, <1>8
<1>10. /\ (q \o m)[1] = q[1] /\ (q \o m)[2] = q[2] /\ (q \o m)[3] = q[3] /\ (q \o m)[4] = q[4]
       /\ (q \o m)[5] = m[1] /\ (q \o m)[6] = m[2] /\ (q \o m)[7] = m[3]
  <2>1. 4 + 1 = 5 /\ 4 + 2 = 6 /\ 4 + 3 = 7 /\ 1 \in 1 .. 3 /\ 2 \in 1 .. 3 /\ 3 \in 1 .. 3
          /\ 1 \in 1 .. 4 /\ 2 \in 1 .. 4 /\ 3 \in 1 .. 4 /\ 4 \in 1 .. 4
    OBVIOUS
  <2> QED BY <1>9, <2>1
<1>11. FailureProgram = q \o m
  BY <1>4 DEF q
<1> QED BY <1>1, <1>2, <1>3, <1>6, <1>7, <1>8, <1>9, <1>10, <1>11

-----------------------------------------------------------------------------
(* What a step does to its own call and directory is all it does. *)

Good(w, call, root) ==
  /\ IsCall(call) /\ call.mode \in Owning
  /\ IsRoot(root) /\ root.owner = w /\ Complete(root)
  /\ Fits(w, call, root)

Settles(w, call, root) ==
  /\ calls' = [calls EXCEPT ![w] = call]
  /\ roots' = [roots EXCEPT ![RunIdOf[w]] = root]

AdvancesTo(w, root) == Advance(w) /\ roots' = [roots EXCEPT ![RunIdOf[w]] = root]
RaisesTo(w, root) == Raise(w) /\ roots' = [roots EXCEPT ![RunIdOf[w]] = root]

\* No other call has anything to do with the directory.
LEMMA SettledIsGood ==
  ASSUME ArtifactsIInv, NEW w \in Writers, calls[w].mode \in Owning,
         NEW call, NEW root, Settles(w, call, root), Good(w, call, root)
  PROVE  ArtifactsIInv'
<1>1. /\ calls = [v \in Writers |-> calls[v]]
      /\ RunIdOf[w] \in DOMAIN roots /\ Root(w).owner = w
  BY DEF ArtifactsIInv, CallsFit
<1>2. /\ calls' = [v \in Writers |-> calls'[v]] /\ calls'[w] = call
      /\ \A v \in Writers \ {w} : calls'[v] = calls[v]
  BY <1>1 DEF Settles
<1>3. /\ roots' = [r \in DOMAIN roots' |-> roots'[r]] /\ DOMAIN roots' = DOMAIN roots
      /\ roots'[RunIdOf[w]] = root
      /\ \A r \in DOMAIN roots \ {RunIdOf[w]} : roots'[r] = roots[r]
  BY <1>1 DEF Settles, ArtifactsIInv, RootsFit
<1>4. RootsFit'
  <2>1. ASSUME NEW r \in DOMAIN roots'
        PROVE  IsRoot(roots'[r]) /\ RunIdOf[roots'[r].owner] = r /\ Complete(roots'[r])
    <3>1. CASE r = RunIdOf[w]
      BY <1>3, <3>1 DEF Good
    <3>2. CASE r # RunIdOf[w]
      BY <1>3, <2>1, <3>2 DEF ArtifactsIInv, RootsFit
    <3> QED BY <3>1, <3>2
  <2> QED BY <1>3, <2>1 DEF RootsFit, IsRoot, IsArea, IsContent, Complete
<1>5. CallsFit'
  <2>1. ASSUME NEW v \in Writers
        PROVE  /\ IsCall(calls'[v])
               /\ calls'[v].mode \in Owning =>
                    /\ RunIdOf[v] \in DOMAIN roots'
                    /\ roots'[RunIdOf[v]].owner = v
                    /\ Fits(v, calls'[v], roots'[RunIdOf[v]])
    <3>1. CASE v = w
      BY <1>1, <1>2, <1>3, <3>1 DEF Good
    <3>2. CASE v # w
      <4>1. calls'[v] = calls[v]
        BY <1>2, <3>2
      <4>2. IsCall(calls[v])
        BY DEF ArtifactsIInv, CallsFit
      <4>3. ASSUME calls[v].mode \in Owning
            PROVE  /\ RunIdOf[v] \in DOMAIN roots
                   /\ roots[RunIdOf[v]].owner = v
                   /\ Fits(v, calls[v], roots[RunIdOf[v]])
        BY <4>3 DEF ArtifactsIInv, CallsFit, Root
      <4>4. ASSUME calls[v].mode \in Owning PROVE RunIdOf[v] # RunIdOf[w]
        BY <1>1, <3>2, <4>3, <4>4 DEF Root
      <4> QED BY <1>3, <4>1, <4>2, <4>3, <4>4
    <3> QED BY <3>1, <3>2
  <2> QED BY <1>2, <2>1 DEF CallsFit, Root
<1> QED BY <1>4, <1>5 DEF ArtifactsIInv

\* An exception may strike at any step: nothing is asked of what it leaves but
\* that it does not vouch for more than is there.
LEMMA RaiseIsGood ==
  ASSUME ArtifactsIInv, NEW w \in Writers, calls[w].mode \in Working,
         NEW root, RaisesTo(w, root), IsRoot(root), root.owner = w, Complete(root)
  PROVE  ArtifactsIInv'
<1>1. calls[w].mode \in Owning
  BY DEF Owning
<1>2. CASE calls[w].mode = "recording"
  <2> DEFINE call == [mode |-> "raised without evidence", todo |-> <<>>]
  <2>1. Settles(w, call, root)
    BY <1>2 DEF RaisesTo, Raise, Become, Settles
  <2>2. Good(w, call, root)
    BY DEF Good, IsCall, Owning, Working, Ended, Fits
  <2> HIDE DEF call
  <2> QED BY <1>1, <2>1, <2>2, SettledIsGood
<1>3. CASE calls[w].mode # "recording"
  <2> DEFINE call == [mode |-> "recording", todo |-> FailureProgram]
  <2>1. Settles(w, call, root)
    BY <1>3 DEF RaisesTo, Raise, Become, Settles
  <2>2. FailureFits(0, root) /\ 0 \in 0 .. 6
    BY DEF FailureFits
  <2>3. call.todo = Rest(FailureProgram, 0)
    BY FailureSteps, RestOfAll
  <2>4. Fits(w, call, root)
    BY <2>2, <2>3 DEF Fits
  <2>5. Good(w, call, root)
    BY <2>4 DEF Good, IsCall, Owning, Working, Active
  <2> HIDE DEF call
  <2> QED BY <1>1, <2>1, <2>5, SettledIsGood
<1> QED BY <1>2, <1>3

\* One more step of the try block is done.
LEMMA WritingAdvances ==
  ASSUME ArtifactsIInv, NEW w \in Writers, calls[w].mode = "writing",
         NEW succeeded \in BOOLEAN, NEW k \in 0 .. (Len(Program(w, succeeded)) - 1),
         calls[w].todo = Rest(Program(w, succeeded), k),
         NEW root, AdvancesTo(w, root), IsRoot(root), root.owner = w, Complete(root),
         k + 1 < Len(Program(w, succeeded)) => WritingFits(w, succeeded, k + 1, root),
         k + 1 = Len(Program(w, succeeded)) => "summary.json" \in DOMAIN root.files
  PROVE  ArtifactsIInv'
<1> DEFINE P == Program(w, succeeded)
<1>1. calls[w].mode \in Owning
  BY DEF Owning, Working
<1>2. P \in Seq(Step) /\ Len(P) \in Nat
  BY ProgramSteps
<1>3. Tail(calls[w].todo) = Rest(P, k + 1) /\ (k + 1 = Len(P) <=> Rest(P, k + 1) = <<>>)
  BY <1>2, RestSteps
<1>4. CASE k + 1 < Len(P)
  <2> DEFINE call == [mode |-> "writing", todo |-> Rest(P, k + 1)]
  <2>0. k + 1 # Len(P) /\ k + 1 \in 0 .. (Len(P) - 1)
    BY <1>2, <1>4
  <2>1. Settles(w, call, root)
    BY <1>3, <2>0 DEF AdvancesTo, Advance, Become, Settles
  <2>2. Fits(w, call, root)
    BY <1>4, <2>0 DEF Fits
  <2>3. Good(w, call, root)
    BY <2>2 DEF Good, IsCall, Owning, Working, Active
  <2> HIDE DEF call
  <2> QED BY <1>1, <2>1, <2>3, SettledIsGood
<1>5. CASE k + 1 = Len(P)
  <2> DEFINE call == [mode |-> "success", todo |-> <<>>]
  <2>1. Settles(w, call, root)
    BY <1>3, <1>5 DEF AdvancesTo, Advance, Become, Settles
  <2>2. Fits(w, call, root)
    BY <1>5 DEF Fits
  <2>3. Good(w, call, root)
    BY <2>2 DEF Good, IsCall, Owning, Working, Ended
  <2> HIDE DEF call
  <2> QED BY <1>1, <2>1, <2>3, SettledIsGood
<1> QED BY <1>2, <1>4, <1>5

\* One more step of recording a failure is done.
LEMMA RecordingAdvances ==
  ASSUME ArtifactsIInv, NEW w \in Writers, calls[w].mode \in {"reporting", "recording"},
         NEW k \in 0 .. 6, calls[w].todo = Rest(FailureProgram, k),
         NEW root, AdvancesTo(w, root), IsRoot(root), root.owner = w, Complete(root),
         FailureFits(k + 1, root)
  PROVE  ArtifactsIInv'
<1>1. calls[w].mode \in Owning
  BY DEF Owning, Working
<1>2. FailureProgram \in Seq(Step) /\ Len(FailureProgram) = 7 /\ k \in 0 .. (Len(FailureProgram) - 1)
  BY FailureSteps
<1>3. /\ Tail(calls[w].todo) = Rest(FailureProgram, k + 1)
      /\ k + 1 = 7 <=> Rest(FailureProgram, k + 1) = <<>>
  BY <1>2, RestSteps
<1>4. CASE k < 6
  <2> DEFINE call == [mode |-> calls[w].mode, todo |-> Rest(FailureProgram, k + 1)]
  <2>0. k + 1 # 7 /\ k + 1 \in 0 .. 6
    BY <1>4
  <2>1. Settles(w, call, root)
    BY <1>3, <2>0 DEF AdvancesTo, Advance, Become, Settles
  <2>2. Fits(w, call, root)
    BY <2>0 DEF Fits
  <2>3. Good(w, call, root)
    BY <2>2 DEF Good, IsCall, Owning, Working, Active
  <2> HIDE DEF call
  <2> QED BY <1>1, <2>1, <2>3, SettledIsGood
<1>5. CASE k = 6
  <2> DEFINE call == [mode |-> IF calls[w].mode = "reporting" THEN "failed" ELSE "raised", todo |-> <<>>]
  <2>0. k + 1 = 7
    BY <1>5
  <2>1. Settles(w, call, root)
    BY <1>3, <2>0 DEF AdvancesTo, Advance, Become, Settles
  <2>2. Fits(w, call, root)
    BY <2>0 DEF Fits
  <2>3. Good(w, call, root)
    BY <2>2 DEF Good, IsCall, Owning, Working, Ended
  <2> HIDE DEF call
  <2> QED BY <1>1, <2>1, <2>3, SettledIsGood
<1> QED BY <1>4, <1>5

-----------------------------------------------------------------------------
(* What one call on the file system may leave. *)

\* The bytes of a new file: those meant for it, or damaged ones.
IsBody(w, name, body) ==
  IsContent(body) /\ [body EXCEPT !.intact = TRUE] = Body(w, name)

WithFile(root, name, body) ==
  [owner |-> root.owner, files |-> Put(root.files, name, body), pending |-> root.pending]

WithPending(root, name, body) ==
  [owner |-> root.owner, files |-> root.files, pending |-> Put(root.pending, name, body)]

\* Updates of the two kinds of record, field by field.
LEMMA RootUpdate ==
  ASSUME NEW root, NEW v,
         root = [owner |-> root.owner, files |-> root.files, pending |-> root.pending]
  PROVE  /\ [root EXCEPT !["files"] = v]
              = [owner |-> root.owner, files |-> v, pending |-> root.pending]
         /\ [root EXCEPT !["pending"] = v]
              = [owner |-> root.owner, files |-> root.files, pending |-> v]
         /\ \A u : [root EXCEPT !.files = u, !.pending = v]
                     = [owner |-> root.owner, files |-> u, pending |-> v]
<1>1. \A u : [root EXCEPT !.files = u] = [owner |-> root.owner, files |-> u, pending |-> root.pending]
  OBVIOUS
<1>2. [root EXCEPT !.pending = v] = [owner |-> root.owner, files |-> root.files, pending |-> v]
  OBVIOUS
<1>3. [root EXCEPT !["files"] = v] = [root EXCEPT !.files = v]
      /\ [root EXCEPT !["pending"] = v] = [root EXCEPT !.pending = v]
  OBVIOUS
<1>4. ASSUME NEW u
      PROVE  [root EXCEPT !.files = u, !.pending = v]
               = [owner |-> root.owner, files |-> u, pending |-> v]
  <2>1. [root EXCEPT !.files = u, !.pending = v] = [[root EXCEPT !.files = u] EXCEPT !.pending = v]
    OBVIOUS
  <2>2. \A o, p : [[owner |-> o, files |-> u, pending |-> p] EXCEPT !.pending = v]
                    = [owner |-> o, files |-> u, pending |-> v]
    OBVIOUS
  <2> QED BY <1>1, <2>1, <2>2
<1> QED BY <1>1, <1>2, <1>3, <1>4

\* A file damaged while it is written still says what it says.
LEMMA ContentUpdate ==
  ASSUME NEW says, NEW refs, NEW before, NEW after
  PROVE  [[says |-> says, refs |-> refs, intact |-> before] EXCEPT !.intact = after]
           = [says |-> says, refs |-> refs, intact |-> after]
OBVIOUS

\* A directory stays one when a file is added or taken away.
LEMMA AreaType ==
  ASSUME NEW files, IsArea(files), NEW name
  PROVE  /\ \A body : IsContent(body) => IsArea(Put(files, name, body))
         /\ IsArea(Without(files, name))
BY DEF IsArea, Put, Without

\* Whatever is meant for a file is a content.
LEMMA BodyType ==
  ASSUME NEW w, NEW name
  PROVE  IsContent(Body(w, name)) /\ Body(w, name).intact = TRUE
<1>1. \A says, refs : IsContent(Content(says, refs)) /\ Content(says, refs).intact = TRUE
  BY DEF IsContent, Content
<1>2. \E says, refs : Body(w, name) = Content(says, refs)
  BY DEF Body, Summary
<1> QED BY <1>1, <1>2

\* Damage changes the bytes, not what they were meant to be.
LEMMA DamagedType ==
  ASSUME NEW body, IsContent(body), body.intact = TRUE
  PROVE  /\ IsContent([body EXCEPT !.intact = FALSE])
         /\ [[body EXCEPT !.intact = FALSE] EXCEPT !.intact = TRUE] = body
         /\ [body EXCEPT !.intact = TRUE] = body
<1> DEFINE damaged == [says |-> body.says, refs |-> body.refs, intact |-> FALSE]
<1>1. body = [says |-> body.says, refs |-> body.refs, intact |-> TRUE]
  BY DEF IsContent
<1>2. [body EXCEPT !.intact = FALSE] = damaged
  <2>1. \A v : [body EXCEPT !.intact = v] = [says |-> body.says, refs |-> body.refs, intact |-> v]
    BY ContentUpdate DEF IsContent
  <2> QED BY <2>1, Zenon
<1>3. [damaged EXCEPT !.intact = TRUE] = body /\ [body EXCEPT !.intact = TRUE] = body
  BY <1>1, ContentUpdate
<1>4. IsContent(damaged)
  BY DEF IsContent
<1> QED BY <1>2, <1>3, <1>4

\* What the invariant says of the directory of a call that is at work.
LEMMA RootType ==
  ASSUME ArtifactsIInv, NEW w \in Writers, calls[w].mode \in Working
  PROVE  /\ RunIdOf[w] \in DOMAIN roots /\ IsRoot(Root(w)) /\ Root(w).owner = w
         /\ Complete(Root(w)) /\ Fits(w, calls[w], Root(w))
         /\ roots = [roots EXCEPT ![RunIdOf[w]] = Root(w)]
BY DEF ArtifactsIInv, RootsFit, CallsFit, Owning, Root

\* A write is done, damaged or not, or raises with or without a damaged file.
LEMMA WriteOutcome ==
  ASSUME ArtifactsIInv, NEW w \in Writers, calls[w].mode \in Working,
         NEW name, WriteFile(w, name)
  PROVE  \/ RaisesTo(w, Root(w))
         \/ \E body : /\ IsBody(w, name, body)
                      /\ \/ AdvancesTo(w, WithFile(Root(w), name, body))
                         \/ RaisesTo(w, WithFile(Root(w), name, body))
<1> DEFINE Store(body) == roots' = [roots EXCEPT ![RunIdOf[w]]["files"] = Put(@, name, body)]
           damaged == [Body(w, name) EXCEPT !.intact = FALSE]
<1>1. \/ Store(Body(w, name)) /\ Advance(w)
      \/ Store(damaged) /\ (Advance(w) \/ Raise(w))
      \/ UNCHANGED roots /\ Raise(w)
  BY DEF WriteFile, Create
<1>2. IsBody(w, name, Body(w, name)) /\ IsBody(w, name, damaged)
  BY BodyType, DamagedType DEF IsBody
<1>3. ASSUME NEW body, Store(body)
      PROVE  roots' = [roots EXCEPT ![RunIdOf[w]] = WithFile(Root(w), name, body)]
  <2>1. /\ RunIdOf[w] \in DOMAIN roots
        /\ Root(w) = [owner |-> Root(w).owner, files |-> Root(w).files, pending |-> Root(w).pending]
    BY RootType DEF IsRoot
  <2>2. [Root(w) EXCEPT !["files"] = Put(@, name, body)] = WithFile(Root(w), name, body)
    <3>1. [Root(w) EXCEPT !["files"] = Put(@, name, body)]
            = [Root(w) EXCEPT !["files"] = Put(Root(w).files, name, body)]
      BY <2>1
    <3> QED BY <2>1, <3>1, RootUpdate DEF WithFile
  <2>3. roots' = [roots EXCEPT ![RunIdOf[w]] = [Root(w) EXCEPT !["files"] = Put(@, name, body)]]
    BY <1>3 DEF Root
  <2> QED BY <2>2, <2>3
<1>4. CASE UNCHANGED roots /\ Raise(w)
  BY <1>4, RootType DEF RaisesTo
<1> HIDE DEF Store, damaged
<1> QED BY <1>1, <1>2, <1>3, <1>4 DEF AdvancesTo, RaisesTo

\* The same of staging, which touches no document.
LEMMA StageOutcome ==
  ASSUME ArtifactsIInv, NEW w \in Writers, calls[w].mode \in Working,
         NEW name, StageFile(w, name)
  PROVE  \/ RaisesTo(w, Root(w))
         \/ \E body : /\ IsBody(w, name, body)
                      /\ \/ AdvancesTo(w, WithPending(Root(w), name, body))
                         \/ RaisesTo(w, WithPending(Root(w), name, body))
<1> DEFINE Store(body) == roots' = [roots EXCEPT ![RunIdOf[w]]["pending"] = Put(@, name, body)]
           damaged == [Body(w, name) EXCEPT !.intact = FALSE]
<1>1. \/ Store(Body(w, name)) /\ Advance(w)
      \/ Store(damaged) /\ (Advance(w) \/ Raise(w))
      \/ UNCHANGED roots /\ Raise(w)
  BY DEF StageFile, Create
<1>2. IsBody(w, name, Body(w, name)) /\ IsBody(w, name, damaged)
  BY BodyType, DamagedType DEF IsBody
<1>3. ASSUME NEW body, Store(body)
      PROVE  roots' = [roots EXCEPT ![RunIdOf[w]] = WithPending(Root(w), name, body)]
  <2>1. /\ RunIdOf[w] \in DOMAIN roots
        /\ Root(w) = [owner |-> Root(w).owner, files |-> Root(w).files, pending |-> Root(w).pending]
    BY RootType DEF IsRoot
  <2>2. [Root(w) EXCEPT !["pending"] = Put(@, name, body)] = WithPending(Root(w), name, body)
    <3>1. [Root(w) EXCEPT !["pending"] = Put(@, name, body)]
            = [Root(w) EXCEPT !["pending"] = Put(Root(w).pending, name, body)]
      BY <2>1
    <3> QED BY <2>1, <3>1, RootUpdate DEF WithPending
  <2>3. roots' = [roots EXCEPT ![RunIdOf[w]] = [Root(w) EXCEPT !["pending"] = Put(@, name, body)]]
    BY <1>3 DEF Root
  <2> QED BY <2>2, <2>3
<1>4. CASE UNCHANGED roots /\ Raise(w)
  BY <1>4, RootType DEF RaisesTo
<1> HIDE DEF Store, damaged
<1> QED BY <1>1, <1>2, <1>3, <1>4 DEF AdvancesTo, RaisesTo

Renamed(root, name) ==
  [owner |-> root.owner, files |-> Put(root.files, name, root.pending[name]),
   pending |-> Without(root.pending, name)]

\* A rename takes effect or does not, and may raise in both cases.
LEMMA ReplaceOutcome ==
  ASSUME ArtifactsIInv, NEW w \in Writers, calls[w].mode \in Working,
         NEW name, ReplaceFile(w, name)
  PROVE  \/ RaisesTo(w, Root(w))
         \/ AdvancesTo(w, Renamed(Root(w), name))
         \/ RaisesTo(w, Renamed(Root(w), name))
<1> DEFINE root == Root(w)
<1>1. root = [owner |-> root.owner, files |-> root.files, pending |-> root.pending]
  BY RootType DEF IsRoot
<1>2. [root EXCEPT !.files = Put(@, name, root.pending[name]), !.pending = Without(@, name)]
        = Renamed(root, name)
  <2> HIDE DEF root
  <2>1. [root EXCEPT !.files = Put(@, name, root.pending[name]), !.pending = Without(@, name)]
          = [root EXCEPT !.files = Put(root.files, name, root.pending[name]),
                         !.pending = Without(root.pending, name)]
    BY <1>1
  <2> QED BY <1>1, <2>1, RootUpdate DEF Renamed
<1>3. CASE UNCHANGED roots /\ Raise(w)
  BY <1>3, RootType DEF RaisesTo
<1> HIDE DEF root
<1> QED BY <1>2, <1>3 DEF ReplaceFile, AdvancesTo, RaisesTo, root

\* The marker is taken away, or an error raises.
LEMMA UnlinkOutcome ==
  ASSUME ArtifactsIInv, NEW w \in Writers, calls[w].mode \in Working,
         NEW name, UnlinkFile(w, name)
  PROVE  \/ RaisesTo(w, Root(w))
         \/ AdvancesTo(w, [owner |-> Root(w).owner, files |-> Without(Root(w).files, name),
                           pending |-> Root(w).pending])
<1> DEFINE root == Root(w)
<1>1. /\ RunIdOf[w] \in DOMAIN roots
      /\ root = [owner |-> root.owner, files |-> root.files, pending |-> root.pending]
  BY RootType DEF IsRoot
<1>2. [root EXCEPT !.files = Without(@, name)]
        = [owner |-> root.owner, files |-> Without(root.files, name), pending |-> root.pending]
  <2> HIDE DEF root
  <2> QED BY <1>1
<1>3. CASE UNCHANGED roots /\ Raise(w)
  BY <1>3, RootType DEF RaisesTo
<1>4. CASE roots' = [roots EXCEPT ![RunIdOf[w]].files = Without(@, name)] /\ Advance(w)
  <2>1. roots' = [roots EXCEPT ![RunIdOf[w]] = [root EXCEPT !.files = Without(@, name)]]
    BY <1>4 DEF Root
  <2> QED BY <1>2, <1>4, <2>1 DEF AdvancesTo
<1> QED BY <1>3, <1>4 DEF UnlinkFile

\* Reading back what is wrong raises.
LEMMA ReadBackOutcome ==
  ASSUME ArtifactsIInv, NEW w \in Writers, calls[w].mode \in Working,
         NEW contents, ReadBack(w, contents)
  PROVE  \/ RaisesTo(w, Root(w))
         \/ AdvancesTo(w, Root(w)) /\ \A c \in contents : c.intact
BY RootType DEF ReadBack, AdvancesTo, RaisesTo

-----------------------------------------------------------------------------
(* The try block, step by step. *)

\* What a step of the program does is told by its first word.
LEMMA Dispatch ==
  ASSUME NEW w, NEW verb, NEW name, Operate(w), Head(calls[w].todo) = <<verb, name>>
  PROVE  /\ verb = "write" => WriteFile(w, name)
         /\ verb = "stage" => StageFile(w, name)
         /\ verb = "check" => ReadBack(w, {Root(w).pending[name]})
         /\ verb = "verify" => ReadBack(w, Contents(Root(w).files))
         /\ verb = "replace" => ReplaceFile(w, name)
         /\ verb = "unlink" => UnlinkFile(w, name)
         /\ verb \in {"compute", "validate"} => (Advance(w) \/ Raise(w)) /\ UNCHANGED roots
         /\ verb = "require" =>
              /\ IF MayProceed(Root(w).files[name].says) THEN Advance(w) ELSE Raise(w)
              /\ UNCHANGED roots
         /\ verb = "report" => Become(w, "reporting", FailureProgram) /\ UNCHANGED roots
<1>1. Head(calls[w].todo)[1] = verb /\ Head(calls[w].todo)[2] = name
  OBVIOUS
<1>2. CASE verb \in {"write", "stage", "check", "verify"}
  BY <1>1, <1>2 DEF Operate
<1>3. CASE verb \in {"replace", "unlink"}
  BY <1>1, <1>3 DEF Operate
<1>4. CASE verb = "compute"
  BY <1>1, <1>4 DEF Operate
<1>5. CASE verb = "validate"
  BY <1>1, <1>5 DEF Operate, Validate
<1>6. CASE verb \in {"require", "report"}
  BY <1>1, <1>6 DEF Operate
<1> QED BY <1>2, <1>3, <1>4, <1>5, <1>6

\* The last result a hybrid run writes is there when it is judged, and stays.
LEMMA PostflightWritten ==
  ASSUME NEW w \in Hybrid, NEW k \in 0 .. (Len(Program(w, TRUE)) - 1),
         k >= Len(Program(w, TRUE)) - 6
  PROVE  Postflight \in WrittenBy(Done(Program(w, TRUE), k))
<1> DEFINE P == Program(w, TRUE)
           l == Len(P)
           there(j) == Postflight \in WrittenBy(Done(P, j))
<1>1. P \in Seq(Step) /\ l \in Nat
  BY ProgramSteps
<1>2. there(l - 1)
  BY SuccessWrites DEF Expected, Postflight
<1>3. ASSUME NEW j \in 0 .. (l - 2), j >= l - 6, there(j + 1) PROVE there(j)
  <2>1. j \in 0 .. (l - 1)
    <3> HIDE DEF l
    <3> QED BY <1>1
  <2>2. Stands(P[j + 1], w, TRUE, j, l)
    BY <2>1, ProgramSteps
  <2>3. P[j + 1] # <<"write", Postflight>>
    <3> HIDE DEF P, l
    <3>1. ~(j < l - 6)
      BY <1>1, <1>3
    <3> QED BY <2>2, <3>1 DEF Stands, Postflight
  <2>4. WrittenBy(Done(P, j + 1))
          = WrittenBy(Done(P, j)) \cup (IF P[j + 1][1] = "write" THEN {P[j + 1][2]} ELSE {})
    BY <1>1, <2>1, DoneNext
  <2>5. P[j + 1] \in Step
    BY <2>1, ProgramSteps
  <2> HIDE DEF P, l
  <2>6. ~(P[j + 1][1] = "write" /\ P[j + 1][2] = Postflight)
    BY <2>3, <2>5 DEF Step
  <2> QED BY <1>3, <2>4, <2>6
<1>4. k \in {l - 1, l - 2, l - 3, l - 4, l - 5, l - 6}
  <2> HIDE DEF P
  <2>1. k \in 0 .. (l - 1) /\ k >= l - 6
    BY DEF P
  <2> QED BY <1>1, <2>1
<1>5. \A j \in 0 .. (l - 1) : j >= l - 6 => there(j)
  <2> HIDE DEF P, there
  <2>1. ASSUME l - 2 \in 0 .. (l - 2) PROVE there(l - 2)
    BY <1>1, <1>2, <1>3, <2>1
  <2>2. ASSUME l - 3 \in 0 .. (l - 2) PROVE there(l - 3)
    BY <1>1, <1>3, <2>1, <2>2
  <2>3. ASSUME l - 4 \in 0 .. (l - 2) PROVE there(l - 4)
    BY <1>1, <1>3, <2>2, <2>3
  <2>4. ASSUME l - 5 \in 0 .. (l - 2) PROVE there(l - 5)
    BY <1>1, <1>3, <2>3, <2>4
  <2>5. ASSUME l - 6 \in 0 .. (l - 2) PROVE there(l - 6)
    BY <1>1, <1>3, <2>4, <2>5
  <2> QED BY <1>1, <1>2, <2>1, <2>2, <2>3, <2>4, <2>5, SMTT(30)
<1> QED BY <1>5

\* A manifest does not list itself.
LEMMA RefsOfManifest ==
  ASSUME NEW files, NEW body
  PROVE  Refs(Put(files, "manifest.json", body)) = Refs(files)
<1> DEFINE with == Put(files, "manifest.json", body)
<1>1. /\ DOMAIN with \ {"manifest.json"} = DOMAIN files \ {"manifest.json"}
      /\ \A n \in DOMAIN files \ {"manifest.json"} : with[n] = files[n]
  BY DEF Put
<1> HIDE DEF with
<1> QED BY <1>1 DEF Refs, with

\* Nor does the manifest that is being planned, with the marker it vouches for.
LEMMA RefsOfMeantManifest ==
  ASSUME NEW files, NEW body
  PROVE  Refs(Put(Meant(Put(files, "manifest.json", body)), "summary.json", Summary))
           = Refs(Put(Meant(files), "summary.json", Summary))
<1> DEFINE with == Put(Meant(Put(files, "manifest.json", body)), "summary.json", Summary)
           without == Put(Meant(files), "summary.json", Summary)
<1>1. /\ DOMAIN with \ {"manifest.json"} = DOMAIN without \ {"manifest.json"}
      /\ \A n \in DOMAIN without \ {"manifest.json"} : with[n] = without[n]
  BY DEF Put, Meant
<1> HIDE DEF with, without
<1> QED BY <1>1 DEF Refs, with, without

\* Nothing is meant but what is there once all of it is intact.
LEMMA MeantIsThere ==
  ASSUME NEW files, IsArea(files), AllIntact(files)
  PROVE  Meant(files) = files
<1>1. \A n \in DOMAIN files : [files[n] EXCEPT !.intact = TRUE] = files[n]
  <2> TAKE n \in DOMAIN files
  <2>1. IsContent(files[n]) /\ files[n].intact = TRUE
    BY DEF IsArea, AllIntact, IsContent
  <2> QED BY <2>1, DamagedType
<1>2. files = [n \in DOMAIN files |-> files[n]]
  BY DEF IsArea
<1> QED BY <1>1, <1>2 DEF Meant

\* A step of the try block keeps the invariant.
LEMMA WritingStep ==
  ASSUME ArtifactsIInv, NEW w \in Writers, calls[w].mode = "writing", Operate(w)
  PROVE  ArtifactsIInv'
<1> DEFINE root == Root(w)
           files == root.files
<1>1. /\ calls[w].mode \in Working /\ RunIdOf[w] \in DOMAIN roots
      /\ IsRoot(root) /\ root.owner = w /\ Complete(root)
      /\ roots = [roots EXCEPT ![RunIdOf[w]] = root]
  <2>1. calls[w].mode \in Working
    BY DEF Working
  <2>2. /\ RunIdOf[w] \in DOMAIN roots /\ IsRoot(root) /\ root.owner = w /\ Complete(root)
        /\ roots = [roots EXCEPT ![RunIdOf[w]] = root]
    BY <2>1, RootType, Zenon
  <2> QED BY <2>1, <2>2
<1>2a. PICK succeeded \in BOOLEAN : \E k \in 0 .. (Len(Program(w, succeeded)) - 1) :
         calls[w].todo = Rest(Program(w, succeeded), k) /\ WritingFits(w, succeeded, k, root)
  <2>1. Fits(w, calls[w], root)
    BY <1>1, RootType
  <2> QED BY <2>1 DEF Fits
<1>2. PICK k \in 0 .. (Len(Program(w, succeeded)) - 1) :
        calls[w].todo = Rest(Program(w, succeeded), k) /\ WritingFits(w, succeeded, k, root)
  BY <1>2a
<1> DEFINE P == Program(w, succeeded)
           l == Len(P)
           step == P[k + 1]
<1>3. /\ P \in Seq(Step) /\ l \in Nat /\ step \in Step /\ Stands(step, w, succeeded, k, l)
      /\ k \in 0 .. (l - 1)
  BY ProgramSteps
<1>4. Head(calls[w].todo) = step /\ step = <<step[1], step[2]>>
  <2>1. Head(calls[w].todo) = step
    BY <1>2, <1>3, RestSteps
  <2> HIDE DEF step
  <2> QED BY <1>3, <2>1 DEF Step
<1>5. /\ "summary.json" \notin DOMAIN files
      /\ DOMAIN files = WrittenBy(Done(P, k))
      /\ WrittenBy(Done(P, k + 1)) = DOMAIN files \cup (IF step[1] = "write" THEN {step[2]} ELSE {})
  BY <1>2, <1>3, NoMarkerWritten, DoneNext DEF WritingFits
<1>6. IsArea(files) /\ IsArea(root.pending)
        /\ root = [owner |-> w, files |-> files, pending |-> root.pending]
  BY <1>1 DEF IsRoot
<1>7. ASSUME NEW r, RaisesTo(w, r), IsRoot(r), r.owner = w, Complete(r)
      PROVE  ArtifactsIInv'
  BY <1>1, <1>7, RaiseIsGood
<1>8. ASSUME NEW r, AdvancesTo(w, r), IsRoot(r), r.owner = w, Complete(r),
             k + 1 < l => WritingFits(w, succeeded, k + 1, r),
             k + 1 = l => "summary.json" \in DOMAIN r.files
      PROVE  ArtifactsIInv'
  BY <1>2, <1>8, WritingAdvances
<1>9. ASSUME RaisesTo(w, root) PROVE ArtifactsIInv'
  BY <1>1, <1>7, <1>9
<1>10. ASSUME Advance(w), UNCHANGED roots PROVE AdvancesTo(w, root)
  BY <1>1, <1>10 DEF AdvancesTo
<1>11. ASSUME Raise(w), UNCHANGED roots PROVE ArtifactsIInv'
  BY <1>1, <1>9, <1>11 DEF RaisesTo
<1> HIDE DEF root, P, l, step
\* Computing and validating leave the directory alone.
<1>12. CASE step[1] \in {"compute", "validate"}
  <2>1. (Advance(w) \/ Raise(w)) /\ UNCHANGED roots
    BY <1>4, <1>12, Dispatch
  <2>2. succeeded => (k < l - 5 /\ (w \in Hybrid => k < l - 6))
    BY <1>12, <1>3 DEF Stands
  <2>3. k + 1 < l => WritingFits(w, succeeded, k + 1, root)
    <3>1. succeeded => k + 1 < l - 4 /\ (w \in Hybrid => k + 1 < l - 5)
      BY <1>3, <2>2
    <3>2. DOMAIN files = WrittenBy(Done(P, k + 1))
      BY <1>5, <1>12
    <3>3. succeeded => /\ ~(w \in Hybrid /\ k + 1 >= l - 5) /\ ~(k + 1 >= l - 4)
                       /\ ~(k + 1 >= l - 3) /\ ~(k + 1 >= l - 2) /\ ~(k + 1 >= l - 1)
      BY <1>3, <3>1
    <3> QED BY <3>2, <3>3 DEF WritingFits, P, l
  <2>4. k + 1 # l
    BY <1>12, <1>3 DEF Stands
  <2> QED BY <1>1, <1>8, <1>10, <1>11, <2>1, <2>3, <2>4
\* The judgement of a hybrid run's sources.
<1>13. CASE step = <<"require", Postflight>> /\ succeeded /\ k = l - 6
  <2>1. /\ UNCHANGED roots
        /\ Advance(w) \/ Raise(w)
        /\ Raise(w) \/ files[Postflight].says = "pinned"
    BY <1>4, <1>13, Dispatch DEF MayProceed, root
  <2>2. ASSUME Advance(w), files[Postflight].says = "pinned" PROVE ArtifactsIInv'
    <3>1. DOMAIN files = WrittenBy(Done(P, k + 1))
      BY <1>5, <1>13
    <3>2. ~(k + 1 >= l - 4) /\ ~(k + 1 >= l - 3) /\ ~(k + 1 >= l - 2) /\ ~(k + 1 >= l - 1) /\ k + 1 # l
      BY <1>3, <1>13
    <3>3. WritingFits(w, succeeded, k + 1, root)
      BY <2>2, <3>1, <3>2 DEF WritingFits, P, l
    <3> QED BY <1>1, <1>8, <1>10, <2>1, <2>2, <3>2, <3>3
  <2> QED BY <1>11, <2>1, <2>2
\* A document, written in place.
<1>14. CASE /\ step[1] = "write" /\ step[2] \notin {"summary.json", "manifest.json"}
            /\ k < l - 1 /\ (succeeded => (k < l - 5 /\ (w \in Hybrid => k < l - 6)))
  <2> DEFINE name == step[2]
  <2>1. WriteFile(w, name)
    BY <1>4, <1>14, Dispatch
  <2>2. ASSUME NEW body, IsBody(w, name, body)
        PROVE  LET r == WithFile(root, name, body)
               IN  /\ IsRoot(r) /\ r.owner = w /\ Complete(r)
                   /\ WritingFits(w, succeeded, k + 1, r) /\ k + 1 # l
    <3> DEFINE r == WithFile(root, name, body)
    <3>1. /\ r.owner = w /\ r.files = Put(files, name, body) /\ r.pending = root.pending
          /\ r = [owner |-> r.owner, files |-> r.files, pending |-> r.pending]
      BY <1>6 DEF WithFile
    <3>2. IsRoot(r)
      <4>1. IsContent(body)
        BY <2>2 DEF IsBody
      <4>2. IsArea(r.files) /\ IsArea(r.pending) /\ r.owner \in Writers
        <5> HIDE DEF r, name
        <5> QED BY <1>6, <3>1, <4>1, AreaType
      <4> HIDE DEF r
      <4> QED BY <3>1, <4>2 DEF IsRoot
    <3>3. DOMAIN r.files = DOMAIN files \cup {name}
      BY <3>1 DEF Put
    <3>4. DOMAIN r.files = WrittenBy(Done(P, k + 1))
      BY <1>5, <1>14, <3>3
    <3>5. Complete(r)
      BY <1>5, <1>14, <3>3 DEF Complete
    <3>6. succeeded => /\ ~(w \in Hybrid /\ k + 1 >= l - 5) /\ ~(k + 1 >= l - 4)
                       /\ ~(k + 1 >= l - 3) /\ ~(k + 1 >= l - 2) /\ ~(k + 1 >= l - 1)
      <4>1. k \in Int /\ l \in Int
        BY <1>3
      <4> QED BY <1>14, <4>1
    <3>7. k + 1 # l
      BY <1>3, <1>14
    <3> HIDE DEF r
    <3> QED BY <3>1, <3>2, <3>4, <3>5, <3>6, <3>7 DEF WritingFits, P, l, r
  <2>3. \/ RaisesTo(w, root)
        \/ \E body : /\ IsBody(w, name, body)
                     /\ \/ AdvancesTo(w, WithFile(root, name, body))
                        \/ RaisesTo(w, WithFile(root, name, body))
    BY <1>1, <2>1, WriteOutcome DEF root
  <2> HIDE DEF name
  <2> QED BY <1>7, <1>8, <1>9, <2>2, <2>3
\* The manifest of a successful run.
<1>15. CASE step = <<"write", "manifest.json">> /\ succeeded /\ k = l - 5
  <2> DEFINE name == "manifest.json"
  <2>1. WriteFile(w, name)
    BY <1>4, <1>15, Dispatch
  <2>2. ASSUME NEW body, IsBody(w, name, body)
        PROVE  LET r == WithFile(root, name, body)
               IN  /\ IsRoot(r) /\ r.owner = w /\ Complete(r)
                   /\ WritingFits(w, succeeded, k + 1, r) /\ k + 1 # l
    <3> DEFINE r == WithFile(root, name, body)
    <3>1. /\ r.owner = w /\ r.files = Put(files, name, body) /\ r.pending = root.pending
          /\ r = [owner |-> r.owner, files |-> r.files, pending |-> r.pending]
      BY <1>6 DEF WithFile
    <3>2. IsRoot(r)
      <4>1. IsContent(body)
        BY <2>2 DEF IsBody
      <4>2. IsArea(r.files) /\ IsArea(r.pending) /\ r.owner \in Writers
        <5> HIDE DEF r, name
        <5> QED BY <1>6, <3>1, <4>1, AreaType
      <4> HIDE DEF r
      <4> QED BY <3>1, <4>2 DEF IsRoot
    <3>3. DOMAIN r.files = DOMAIN files \cup {name} /\ r.files[name] = body
          /\ \A n \in DOMAIN files \ {name} : r.files[n] = files[n]
      BY <3>1 DEF Put
    <3>4. DOMAIN r.files = WrittenBy(Done(P, k + 1))
      BY <1>5, <1>15, <3>3
    <3>5. Complete(r)
      BY <1>5, <3>3 DEF Complete
    <3>6. body.says = "success" /\ body.refs = Refs(Put(Meant(files), "summary.json", Summary))
      <4>1. [body EXCEPT !.intact = TRUE]
              = Content("success", Refs(Put(Meant(files), "summary.json", Summary)))
        BY <2>2 DEF IsBody, Body, Meant, root
      <4>2. /\ [body EXCEPT !.intact = TRUE].says = body.says
            /\ [body EXCEPT !.intact = TRUE].refs = body.refs
        BY <2>2 DEF IsBody, IsContent
      <4> QED BY <4>1, <4>2 DEF Content
    <3>7. body.refs = Refs(Put(Meant(r.files), "summary.json", Summary))
      BY <3>1, <3>6, RefsOfMeantManifest
    <3>8. w \in Hybrid => r.files[Postflight].says = "pinned"
      <4> SUFFICES ASSUME w \in Hybrid PROVE r.files[Postflight].says = "pinned"
        OBVIOUS
      <4>1. Postflight \in DOMAIN files
        <5>1. P = Program(w, TRUE)
          BY <1>15 DEF P
        <5>2. k >= l - 6
          BY <1>3, <1>15
        <5>3. k \in 0 .. (Len(P) - 1) /\ k >= Len(P) - 6
          BY <1>3, <5>2 DEF l
        <5> QED BY <1>5, <5>1, <5>3, PostflightWritten
      <4>2. files[Postflight].says = "pinned"
        <5>1. k >= l - 5
          BY <1>3, <1>15
        <5> QED BY <1>2, <1>15, <5>1 DEF WritingFits, P, l
      <4>3. Postflight # name
        BY DEF Postflight
      <4> QED BY <3>3, <4>1, <4>2, <4>3
    <3>9. /\ ~(k + 1 >= l - 3) /\ ~(k + 1 >= l - 2) /\ ~(k + 1 >= l - 1) /\ k + 1 # l
      BY <1>3, <1>15
    <3> HIDE DEF r
    <3>10. WritingFits(w, succeeded, k + 1, r)
      BY <3>3, <3>4, <3>6, <3>7, <3>8, <3>9 DEF WritingFits, P, l
    <3> QED BY <3>1, <3>2, <3>5, <3>9, <3>10 DEF r
  <2>3. \/ RaisesTo(w, root)
        \/ \E body : /\ IsBody(w, name, body)
                     /\ \/ AdvancesTo(w, WithFile(root, name, body))
                        \/ RaisesTo(w, WithFile(root, name, body))
    BY <1>1, <2>1, WriteOutcome DEF root
  <2> HIDE DEF name
  <2> QED BY <1>7, <1>8, <1>9, <2>2, <2>3
\* What was written is read back.
<1>16. CASE step = <<"verify", "manifest.json">> /\ succeeded /\ k = l - 4
  <2>1. ReadBack(w, Contents(files))
    BY <1>4, <1>16, Dispatch DEF root
  <2>2. RaisesTo(w, root) \/ (AdvancesTo(w, root) /\ \A c \in Contents(files) : c.intact)
    BY <1>1, <2>1, ReadBackOutcome DEF root
  <2>3. ASSUME AdvancesTo(w, root), \A c \in Contents(files) : c.intact PROVE ArtifactsIInv'
    <3>1. DOMAIN files = WrittenBy(Done(P, k + 1))
      BY <1>5, <1>16
    <3>2. ~(k + 1 >= l - 2) /\ ~(k + 1 >= l - 1) /\ k + 1 # l /\ k >= l - 4 /\ k >= l - 5
      BY <1>3, <1>16
    <3>3. AllIntact(files)
      BY <2>3 DEF AllIntact, Contents
    <3>4. WritingFits(w, succeeded, k + 1, root)
      BY <1>2, <1>16, <3>1, <3>2, <3>3 DEF WritingFits, P, l
    <3> QED BY <1>1, <1>8, <2>3, <3>2, <3>4
  <2> QED BY <1>9, <2>2, <2>3
\* The marker is staged.
<1>17. CASE step = <<"stage", "summary.json">> /\ succeeded /\ k = l - 3
  <2> DEFINE name == "summary.json"
  <2>1. StageFile(w, name)
    BY <1>4, <1>17, Dispatch
  <2>2. ASSUME NEW body, IsBody(w, name, body)
        PROVE  LET r == WithPending(root, name, body)
               IN  /\ IsRoot(r) /\ r.owner = w /\ Complete(r)
                   /\ WritingFits(w, succeeded, k + 1, r) /\ k + 1 # l
    <3> DEFINE r == WithPending(root, name, body)
    <3>1. /\ r.owner = w /\ r.files = files /\ r.pending = Put(root.pending, name, body)
          /\ r = [owner |-> r.owner, files |-> r.files, pending |-> r.pending]
      BY <1>6 DEF WithPending
    <3>2. IsRoot(r)
      <4>1. IsContent(body)
        BY <2>2 DEF IsBody
      <4>2. IsArea(r.files) /\ IsArea(r.pending) /\ r.owner \in Writers
        <5> HIDE DEF r, name
        <5> QED BY <1>6, <3>1, <4>1, AreaType
      <4> HIDE DEF r
      <4> QED BY <3>1, <4>2 DEF IsRoot
    <3>3. name \in DOMAIN r.pending /\ r.pending[name] = body
      BY <3>1 DEF Put
    <3>4. DOMAIN r.files = WrittenBy(Done(P, k + 1))
      BY <1>5, <1>17, <3>1
    <3>5. Complete(r)
      BY <1>5, <3>1 DEF Complete
    <3>6. [body EXCEPT !.intact = TRUE] = Summary
      BY <2>2 DEF IsBody, Body
    <3>7. ~(k + 1 >= l - 1) /\ k + 1 # l /\ k >= l - 3 /\ k >= l - 4 /\ k >= l - 5
      BY <1>3, <1>17
    <3> HIDE DEF r
    <3>8. WritingFits(w, succeeded, k + 1, r)
      BY <1>2, <1>17, <3>1, <3>3, <3>4, <3>6, <3>7 DEF WritingFits, P, l
    <3> QED BY <3>1, <3>2, <3>5, <3>7, <3>8 DEF r
  <2>3. \/ RaisesTo(w, root)
        \/ \E body : /\ IsBody(w, name, body)
                     /\ \/ AdvancesTo(w, WithPending(root, name, body))
                        \/ RaisesTo(w, WithPending(root, name, body))
    BY <1>1, <2>1, StageOutcome DEF root
  <2> HIDE DEF name
  <2> QED BY <1>7, <1>8, <1>9, <2>2, <2>3
\* The staged marker is read back.
<1>18. CASE step = <<"check", "summary.json">> /\ succeeded /\ k = l - 2
  <2>1. ReadBack(w, {root.pending["summary.json"]})
    BY <1>4, <1>18, Dispatch DEF root
  <2>2. RaisesTo(w, root) \/ (AdvancesTo(w, root) /\ root.pending["summary.json"].intact)
    BY <1>1, <2>1, ReadBackOutcome DEF root
  <2>3. ASSUME AdvancesTo(w, root), root.pending["summary.json"].intact PROVE ArtifactsIInv'
    <3>1. DOMAIN files = WrittenBy(Done(P, k + 1))
      BY <1>5, <1>18
    <3>2. k + 1 # l /\ k >= l - 2 /\ k >= l - 3 /\ k >= l - 4 /\ k >= l - 5
      BY <1>3, <1>18
    <3>3. WritingFits(w, succeeded, k + 1, root)
      BY <1>2, <1>18, <2>3, <3>1, <3>2 DEF WritingFits, P, l
    <3> QED BY <1>1, <1>8, <2>3, <3>2, <3>3
  <2> QED BY <1>9, <2>2, <2>3
\* The marker is published: everything it vouches for is there.
<1>19. CASE step = <<"replace", "summary.json">> /\ succeeded /\ k = l - 1
  <2> DEFINE name == "summary.json"
             r == Renamed(root, name)
  <2>1. ReplaceFile(w, name)
    BY <1>4, <1>19, Dispatch
  <2>2. RaisesTo(w, root) \/ AdvancesTo(w, r) \/ RaisesTo(w, r)
    BY <1>1, <2>1, ReplaceOutcome DEF root
  <2>3. k >= l - 1 /\ k >= l - 2 /\ k >= l - 3 /\ k >= l - 4 /\ k >= l - 5
    BY <1>3, <1>19
  <2>4. /\ w \in Hybrid => files[Postflight].says = "pinned"
        /\ files["manifest.json"].says = "success"
        /\ files["manifest.json"].refs = Refs(Put(Meant(files), name, Summary))
        /\ AllIntact(files)
        /\ name \in DOMAIN root.pending
        /\ [root.pending[name] EXCEPT !.intact = TRUE] = Summary
        /\ root.pending[name].intact
    BY <1>2, <1>19, <2>3 DEF WritingFits, P, l
  <2>5. DOMAIN files = (Expected(w) \ {name}) \cup {"manifest.json"}
    <3>1. P = Program(w, TRUE) /\ k = Len(P) - 1
      BY <1>19 DEF P, l
    <3> QED BY <1>5, <3>1, SuccessWrites
  <2>6. IsContent(root.pending[name]) /\ root.pending[name] = Summary
    <3>1. IsContent(root.pending[name]) /\ root.pending[name].intact = TRUE
      BY <1>6, <2>4 DEF IsArea, IsContent
    <3> QED BY <2>4, <3>1, DamagedType
  <2>7. /\ r.owner = w /\ r.files = Put(files, name, Summary)
        /\ r.pending = Without(root.pending, name)
        /\ r = [owner |-> r.owner, files |-> r.files, pending |-> r.pending]
    BY <1>6, <2>6 DEF Renamed
  <2>8. IsRoot(r)
    BY <1>6, <2>6, <2>7, AreaType DEF IsRoot
  <2>9. /\ DOMAIN r.files = DOMAIN files \cup {name} /\ r.files[name] = Summary
        /\ \A n \in DOMAIN files : n # name => r.files[n] = files[n]
    BY <2>7 DEF Put
  <2>10. Complete(r)
    <3>1. DOMAIN r.files = Expected(w) \cup {"manifest.json"}
      <4>1. name \in Expected(w)
        BY DEF Expected
      <4> QED BY <2>5, <2>9, <4>1
    <3>2. "manifest.json" \in DOMAIN files /\ r.files["manifest.json"] = files["manifest.json"]
      BY <2>5, <2>9
    <3>3. files["manifest.json"].refs = Refs(r.files)
      BY <1>6, <2>4, <2>7, MeantIsThere
    <3>4. AllIntact(r.files)
      BY <2>4, <2>9 DEF AllIntact, Summary, Content
    <3>5. w \in Hybrid => r.files[Postflight].says = "pinned"
      <4>1. w \in Hybrid => Postflight \in DOMAIN files
        BY <2>5 DEF Expected, Postflight
      <4>2. Postflight # name
        BY DEF Postflight
      <4> QED BY <2>4, <2>9, <4>1, <4>2
    <3> HIDE DEF r
    <3> QED BY <2>4, <2>7, <3>1, <3>2, <3>3, <3>4, <3>5 DEF Complete
  <2>11. k + 1 = l /\ name \in DOMAIN r.files
    BY <1>3, <1>19, <2>9
  <2> HIDE DEF r, name
  <2>12. ASSUME AdvancesTo(w, r) PROVE ArtifactsIInv'
    BY <1>8, <2>7, <2>8, <2>10, <2>11, <2>12 DEF name
  <2>13. ASSUME RaisesTo(w, r) PROVE ArtifactsIInv'
    BY <1>7, <2>7, <2>8, <2>10, <2>13
  <2> QED BY <1>9, <2>2, <2>12, <2>13
\* A run that failed goes on to report it.
<1>20. CASE step = <<"report", "failure">>
  <2> DEFINE call == [mode |-> "reporting", todo |-> FailureProgram]
  <2>1. Settles(w, call, root)
    BY <1>1, <1>4, <1>20, Dispatch DEF Become, Settles
  <2>2. FailureFits(0, root) /\ 0 \in 0 .. 6
    BY DEF FailureFits
  <2>3. call.todo = Rest(FailureProgram, 0)
    BY FailureSteps, RestOfAll
  <2>4. Good(w, call, root)
    BY <1>1, <2>2, <2>3 DEF Good, IsCall, Owning, Working, Active, Fits
  <2>5. calls[w].mode \in Owning
    BY DEF Owning, Working
  <2> HIDE DEF call
  <2> QED BY <2>1, <2>4, <2>5, SettledIsGood
<1> QED
  <2>1. \/ step[1] \in {"compute", "validate"}
        \/ /\ step[1] = "write" /\ step[2] \notin {"summary.json", "manifest.json"}
           /\ k < l - 1 /\ (succeeded => (k < l - 5 /\ (w \in Hybrid => k < l - 6)))
        \/ step = <<"require", Postflight>> /\ succeeded /\ k = l - 6
        \/ step = <<"write", "manifest.json">> /\ succeeded /\ k = l - 5
        \/ step = <<"verify", "manifest.json">> /\ succeeded /\ k = l - 4
        \/ step = <<"stage", "summary.json">> /\ succeeded /\ k = l - 3
        \/ step = <<"check", "summary.json">> /\ succeeded /\ k = l - 2
        \/ step = <<"replace", "summary.json">> /\ succeeded /\ k = l - 1
        \/ step = <<"report", "failure">>
    BY <1>3, Zenon DEF Stands
  <2> QED BY <1>12, <1>13, <1>14, <1>15, <1>16, <1>17, <1>18, <1>19, <1>20, <2>1

\* A step of recording a failure keeps the invariant.
LEMMA RecordingStep ==
  ASSUME ArtifactsIInv, NEW w \in Writers, calls[w].mode \in {"reporting", "recording"},
         Operate(w)
  PROVE  ArtifactsIInv'
<1> DEFINE root == Root(w)
           files == root.files
<1>1. /\ calls[w].mode \in Working /\ calls[w].mode # "writing" /\ RunIdOf[w] \in DOMAIN roots
      /\ IsRoot(root) /\ root.owner = w /\ Complete(root)
  <2>1. calls[w].mode \in Working /\ calls[w].mode # "writing"
    BY DEF Working
  <2>2. RunIdOf[w] \in DOMAIN roots /\ IsRoot(root) /\ root.owner = w /\ Complete(root)
    BY <2>1, RootType, Zenon
  <2> QED BY <2>1, <2>2
<1>2. PICK k \in 0 .. 6 : calls[w].todo = Rest(FailureProgram, k) /\ FailureFits(k, root)
  <2>1. Fits(w, calls[w], root)
    BY <1>1, RootType
  <2> QED BY <2>1 DEF Fits
<1> DEFINE step == FailureProgram[k + 1]
<1>3. /\ k = 0 => step = <<"unlink", "summary.json">>
      /\ k = 1 => step = <<"stage", "failure.json">>
      /\ k = 2 => step = <<"check", "failure.json">>
      /\ k = 3 => step = <<"replace", "failure.json">>
      /\ k = 4 => step = <<"stage", "manifest.json">>
      /\ k = 5 => step = <<"check", "manifest.json">>
      /\ k = 6 => step = <<"replace", "manifest.json">>
  BY FailureSteps
<1>4. Head(calls[w].todo) = step
  <2>1. FailureProgram \in Seq(Step) /\ k \in 0 .. (Len(FailureProgram) - 1)
    BY FailureSteps
  <2> QED BY <1>2, <2>1, RestSteps
<1>5. k >= 1 => "summary.json" \notin DOMAIN files
  BY <1>2 DEF FailureFits
<1>6. IsArea(files) /\ IsArea(root.pending) /\ w \in Writers
        /\ root = [owner |-> w, files |-> files, pending |-> root.pending]
  BY <1>1 DEF IsRoot
<1>7. ASSUME NEW r, RaisesTo(w, r), IsRoot(r), r.owner = w, Complete(r)
      PROVE  ArtifactsIInv'
  BY <1>1, <1>7, RaiseIsGood
<1>8. ASSUME NEW r, AdvancesTo(w, r), IsRoot(r), r.owner = w, Complete(r), FailureFits(k + 1, r)
      PROVE  ArtifactsIInv'
  BY <1>2, <1>8, RecordingAdvances
<1>9. ASSUME RaisesTo(w, root) PROVE ArtifactsIInv'
  BY <1>1, <1>7, <1>9
<1> HIDE DEF root, step
<1>10. CASE k = 0
  <2> DEFINE name == "summary.json"
             r == [owner |-> root.owner, files |-> Without(files, name), pending |-> root.pending]
  <2>1. UnlinkFile(w, name)
    BY <1>3, <1>4, <1>10, Dispatch
  <2>2. RaisesTo(w, root) \/ AdvancesTo(w, r)
    BY <1>1, <2>1, UnlinkOutcome DEF root
  <2>3. /\ r.owner = w /\ r.files = Without(files, name) /\ r.pending = root.pending
        /\ r = [owner |-> r.owner, files |-> r.files, pending |-> r.pending]
    BY <1>6
  <2>4. IsRoot(r)
    <3>1. IsArea(r.files) /\ IsArea(r.pending) /\ r.owner \in Writers
      <4> HIDE DEF r, name
      <4> QED BY <1>6, <2>3, AreaType
    <3> HIDE DEF r
    <3> QED BY <2>3, <3>1 DEF IsRoot
  <2>5. name \notin DOMAIN r.files
    BY <2>3 DEF Without
  <2>6. Complete(r)
    BY <2>5 DEF Complete
  <2>7. FailureFits(k + 1, r)
    BY <1>10, <2>5 DEF FailureFits
  <2> HIDE DEF r
  <2> QED BY <1>8, <1>9, <2>2, <2>3, <2>4, <2>6, <2>7
<1>11. CASE k = 1
  <2> DEFINE name == "failure.json"
  <2>1. StageFile(w, name)
    BY <1>3, <1>4, <1>11, Dispatch
  <2>2. ASSUME NEW body, IsBody(w, name, body)
        PROVE  LET r == WithPending(root, name, body)
               IN  IsRoot(r) /\ r.owner = w /\ Complete(r) /\ FailureFits(k + 1, r)
    <3> DEFINE r == WithPending(root, name, body)
    <3>1. /\ r.owner = w /\ r.files = files /\ r.pending = Put(root.pending, name, body)
          /\ r = [owner |-> r.owner, files |-> r.files, pending |-> r.pending]
      BY <1>6 DEF WithPending
    <3>2. IsRoot(r)
      <4>1. IsContent(body)
        BY <2>2 DEF IsBody
      <4>2. IsArea(r.files) /\ IsArea(r.pending) /\ r.owner \in Writers
        <5> HIDE DEF r, name
        <5> QED BY <1>6, <3>1, <4>1, AreaType
      <4> HIDE DEF r
      <4> QED BY <3>1, <4>2 DEF IsRoot
    <3>3. name \in DOMAIN r.pending /\ r.pending[name] = body
      BY <3>1 DEF Put
    <3>4. Complete(r)
      BY <1>5, <1>11, <3>1 DEF Complete
    <3>5. body.says = "failed" /\ body.refs = Refs(files)
      <4>1. [body EXCEPT !.intact = TRUE] = Content("failed", Refs(files))
        BY <1>1, <2>2 DEF IsBody, Body, root
      <4>2. /\ [body EXCEPT !.intact = TRUE].says = body.says
            /\ [body EXCEPT !.intact = TRUE].refs = body.refs
        BY <2>2 DEF IsBody, IsContent
      <4> QED BY <4>1, <4>2 DEF Content
    <3> HIDE DEF r
    <3>6. FailureFits(k + 1, r)
      BY <1>2, <1>5, <1>11, <3>1, <3>3, <3>5 DEF FailureFits, FailureIsThere, IsFailureManifest
    <3> QED BY <3>1, <3>2, <3>4, <3>6 DEF r
  <2>3. \/ RaisesTo(w, root)
        \/ \E body : /\ IsBody(w, name, body)
                     /\ \/ AdvancesTo(w, WithPending(root, name, body))
                        \/ RaisesTo(w, WithPending(root, name, body))
    BY <1>1, <2>1, StageOutcome DEF root
  <2> HIDE DEF name
  <2> QED BY <1>7, <1>8, <1>9, <2>2, <2>3
<1>12. CASE k = 2
  <2>1. ReadBack(w, {root.pending["failure.json"]})
    BY <1>3, <1>4, <1>12, Dispatch DEF root
  <2>2. RaisesTo(w, root) \/ (AdvancesTo(w, root) /\ root.pending["failure.json"].intact)
    BY <1>1, <2>1, ReadBackOutcome DEF root
  <2>3. ASSUME root.pending["failure.json"].intact PROVE FailureFits(k + 1, root)
    BY <1>2, <1>12, <2>3 DEF FailureFits
  <2> QED BY <1>1, <1>8, <1>9, <2>2, <2>3
<1>13. CASE k = 3
  <2> DEFINE name == "failure.json"
             r == Renamed(root, name)
  <2>1. ReplaceFile(w, name)
    BY <1>3, <1>4, <1>13, Dispatch
  <2>2. RaisesTo(w, root) \/ AdvancesTo(w, r) \/ RaisesTo(w, r)
    BY <1>1, <2>1, ReplaceOutcome DEF root
  <2>3. /\ name \in DOMAIN root.pending /\ root.pending[name].intact
        /\ root.pending[name].says = "failed"
    BY <1>2, <1>13 DEF FailureFits
  <2>4. /\ r.owner = w /\ r.files = Put(files, name, root.pending[name])
        /\ r.pending = Without(root.pending, name)
        /\ r = [owner |-> r.owner, files |-> r.files, pending |-> r.pending]
    BY <1>6 DEF Renamed
  <2>5. IsRoot(r)
    <3>1. IsContent(root.pending[name])
      BY <1>6, <2>3 DEF IsArea
    <3>2. IsArea(r.files) /\ IsArea(r.pending) /\ r.owner \in Writers
      <4> HIDE DEF r, name
      <4> QED BY <1>6, <2>4, <3>1, AreaType
    <3> HIDE DEF r
    <3> QED BY <2>4, <3>2 DEF IsRoot
  <2>6. /\ DOMAIN r.files = DOMAIN files \cup {name} /\ r.files[name] = root.pending[name]
        /\ \A n \in DOMAIN files : n # name => r.files[n] = files[n]
    BY <2>4 DEF Put
  <2>7. Complete(r)
    BY <1>5, <1>13, <2>6 DEF Complete
  <2> HIDE DEF r
  <2>8. FailureFits(k + 1, r)
    BY <1>5, <1>13, <2>3, <2>6 DEF FailureFits, FailureIsThere
  <2> QED BY <1>7, <1>8, <1>9, <2>2, <2>4, <2>5, <2>7, <2>8
<1>14. CASE k = 4
  <2> DEFINE name == "manifest.json"
  <2>1. StageFile(w, name)
    BY <1>3, <1>4, <1>14, Dispatch
  <2>2. ASSUME NEW body, IsBody(w, name, body)
        PROVE  LET r == WithPending(root, name, body)
               IN  IsRoot(r) /\ r.owner = w /\ Complete(r) /\ FailureFits(k + 1, r)
    <3> DEFINE r == WithPending(root, name, body)
    <3>1. /\ r.owner = w /\ r.files = files /\ r.pending = Put(root.pending, name, body)
          /\ r = [owner |-> r.owner, files |-> r.files, pending |-> r.pending]
      BY <1>6 DEF WithPending
    <3>2. IsRoot(r)
      <4>1. IsContent(body)
        BY <2>2 DEF IsBody
      <4>2. IsArea(r.files) /\ IsArea(r.pending) /\ r.owner \in Writers
        <5> HIDE DEF r, name
        <5> QED BY <1>6, <3>1, <4>1, AreaType
      <4> HIDE DEF r
      <4> QED BY <3>1, <4>2 DEF IsRoot
    <3>3. name \in DOMAIN r.pending /\ r.pending[name] = body
      BY <3>1 DEF Put
    <3>4. Complete(r)
      BY <1>5, <1>14, <3>1 DEF Complete
    <3>5. body.says = "failed" /\ body.refs = Refs(files)
      <4>1. [body EXCEPT !.intact = TRUE] = Content("failed", Refs(files))
        BY <1>1, <2>2 DEF IsBody, Body, root
      <4>2. /\ [body EXCEPT !.intact = TRUE].says = body.says
            /\ [body EXCEPT !.intact = TRUE].refs = body.refs
        BY <2>2 DEF IsBody, IsContent
      <4> QED BY <4>1, <4>2 DEF Content
    <3> HIDE DEF r
    <3>6. FailureFits(k + 1, r)
      BY <1>2, <1>5, <1>14, <3>1, <3>3, <3>5 DEF FailureFits, FailureIsThere, IsFailureManifest
    <3> QED BY <3>1, <3>2, <3>4, <3>6 DEF r
  <2>3. \/ RaisesTo(w, root)
        \/ \E body : /\ IsBody(w, name, body)
                     /\ \/ AdvancesTo(w, WithPending(root, name, body))
                        \/ RaisesTo(w, WithPending(root, name, body))
    BY <1>1, <2>1, StageOutcome DEF root
  <2> HIDE DEF name
  <2> QED BY <1>7, <1>8, <1>9, <2>2, <2>3
<1>15. CASE k = 5
  <2>1. ReadBack(w, {root.pending["manifest.json"]})
    BY <1>3, <1>4, <1>15, Dispatch DEF root
  <2>2. RaisesTo(w, root) \/ (AdvancesTo(w, root) /\ root.pending["manifest.json"].intact)
    BY <1>1, <2>1, ReadBackOutcome DEF root
  <2>3. ASSUME root.pending["manifest.json"].intact PROVE FailureFits(k + 1, root)
    BY <1>2, <1>15, <2>3 DEF FailureFits
  <2> QED BY <1>1, <1>8, <1>9, <2>2, <2>3
<1>16. CASE k = 6
  <2> DEFINE name == "manifest.json"
             r == Renamed(root, name)
  <2>1. ReplaceFile(w, name)
    BY <1>3, <1>4, <1>16, Dispatch
  <2>2. RaisesTo(w, root) \/ AdvancesTo(w, r) \/ RaisesTo(w, r)
    BY <1>1, <2>1, ReplaceOutcome DEF root
  <2>3. /\ name \in DOMAIN root.pending /\ root.pending[name].intact
        /\ IsFailureManifest(root.pending[name], files) /\ FailureIsThere(root)
    BY <1>2, <1>16 DEF FailureFits
  <2>4. /\ r.owner = w /\ r.files = Put(files, name, root.pending[name])
        /\ r.pending = Without(root.pending, name)
        /\ r = [owner |-> r.owner, files |-> r.files, pending |-> r.pending]
    BY <1>6 DEF Renamed
  <2>5. IsRoot(r)
    <3>1. IsContent(root.pending[name])
      BY <1>6, <2>3 DEF IsArea
    <3>2. IsArea(r.files) /\ IsArea(r.pending) /\ r.owner \in Writers
      <4> HIDE DEF r, name
      <4> QED BY <1>6, <2>4, <3>1, AreaType
    <3> HIDE DEF r
    <3> QED BY <2>4, <3>2 DEF IsRoot
  <2>6. /\ DOMAIN r.files = DOMAIN files \cup {name} /\ r.files[name] = root.pending[name]
        /\ \A n \in DOMAIN files : n # name => r.files[n] = files[n]
    BY <2>4 DEF Put
  <2>7. Complete(r)
    BY <1>5, <1>16, <2>6 DEF Complete
  <2>8. Refs(r.files) = Refs(files)
    BY <2>4, RefsOfManifest
  <2> HIDE DEF r
  <2>9. FailureFits(k + 1, r)
    BY <1>5, <1>16, <2>3, <2>6, <2>8 DEF FailureFits, FailureIsThere, IsFailureManifest
  <2> QED BY <1>7, <1>8, <1>9, <2>2, <2>4, <2>5, <2>7, <2>9
<1>17. k \in {0, 1, 2, 3, 4, 5, 6}
  OBVIOUS
<1> QED BY <1>10, <1>11, <1>12, <1>13, <1>14, <1>15, <1>16, <1>17

-----------------------------------------------------------------------------
(* The invariant holds, and what it implies. *)

\* A successful program is longer than its ending.
LEMMA SuccessLength ==
  ASSUME NEW w
  PROVE  LET l == Len(Program(w, TRUE))
         IN  l \in Nat /\ 0 < l - 5 /\ (w \in Hybrid => 0 < l - 6)
<1> DEFINE P == Program(w, TRUE)
           l == Len(P)
<1>1. l \in Nat
  BY ProgramType
<1>2. <<"write", "contract.json">> \in Done(P, l - 1)
  BY SuccessWrites DEF Expected, WrittenBy
<1>3. PICK i \in 1 .. (l - 1) : P[i] = <<"write", "contract.json">>
  BY <1>2 DEF Done
<1>4. i - 1 \in 0 .. (l - 1) /\ (i - 1) + 1 = i
  <2> HIDE DEF P, l
  <2> QED BY <1>1, <1>3
<1>5. Stands(P[i], w, TRUE, i - 1, l)
  BY <1>4, ProgramSteps
<1> HIDE DEF P
<1>6. i - 1 < l - 5 /\ (w \in Hybrid => i - 1 < l - 6)
  BY <1>3, <1>5 DEF Stands
<1>7. 0 < l - 5 /\ (w \in Hybrid => 0 < l - 6)
  <2> HIDE DEF l
  <2> QED BY <1>1, <1>6
<1> QED BY <1>1, <1>7 DEF P

\* A directory that has just been made.
LEMMA ClaimIsGood ==
  ASSUME ArtifactsIInv, NEW w \in Writers, Claim(w)
  PROVE  ArtifactsIInv'
<1>1. calls[w].mode \in {"ran", "failed run"} /\ calls = [v \in Writers |-> calls[v]]
  BY DEF Claim, ArtifactsIInv, CallsFit
<1>2. CASE Become(w, "refused", <<>>) /\ UNCHANGED roots
  <2>1. /\ calls' = [v \in Writers |-> calls'[v]]
        /\ calls'[w] = [mode |-> "refused", todo |-> <<>>]
        /\ \A v \in Writers \ {w} : calls'[v] = calls[v]
    BY <1>1, <1>2 DEF Become
  <2>2. RootsFit'
    BY <1>2 DEF ArtifactsIInv, RootsFit, IsRoot, IsArea, IsContent, Complete
  <2>3. IsCall(calls'[w]) /\ calls'[w].mode \notin Owning
    BY <2>1 DEF IsCall, Ended, Working, Owning
  <2>4. CallsFit'
    <3>1. ASSUME NEW v \in Writers
          PROVE  /\ IsCall(calls'[v])
                 /\ calls'[v].mode \in Owning =>
                      /\ RunIdOf[v] \in DOMAIN roots
                      /\ roots[RunIdOf[v]].owner = v
                      /\ Fits(v, calls'[v], roots[RunIdOf[v]])
      BY <2>1, <2>3 DEF ArtifactsIInv, CallsFit, Root
    <3> QED BY <1>2, <2>1, <3>1 DEF CallsFit, Root
  <2> QED BY <2>2, <2>4 DEF ArtifactsIInv
<1>3. CASE /\ RootIsNew(w)
           /\ roots' = IF RunIdOf[w] \in DOMAIN roots THEN roots
                       ELSE Put(roots, RunIdOf[w], [owner |-> w, files |-> Empty, pending |-> Empty])
           /\ Become(w, "writing", Program(w, calls[w].mode = "ran"))
  <2> DEFINE succeeded == calls[w].mode = "ran"
             P == Program(w, succeeded)
             call == [mode |-> "writing", todo |-> P]
             root == [owner |-> w, files |-> Empty, pending |-> Empty]
  <2>1. RunIdOf[w] \notin DOMAIN roots /\ roots' = Put(roots, RunIdOf[w], root)
    BY <1>3 DEF RootIsNew
  <2>2. /\ roots' = [r \in DOMAIN roots' |-> roots'[r]]
        /\ DOMAIN roots' = DOMAIN roots \cup {RunIdOf[w]}
        /\ roots'[RunIdOf[w]] = root
        /\ \A r \in DOMAIN roots : roots'[r] = roots[r]
    BY <2>1 DEF Put
  <2>3. /\ calls' = [v \in Writers |-> calls'[v]] /\ calls'[w] = call
        /\ \A v \in Writers \ {w} : calls'[v] = calls[v]
    BY <1>1, <1>3 DEF Become
  <2>4. succeeded \in BOOLEAN
    OBVIOUS
  <2>5. root.owner = w /\ DOMAIN root.files = {} /\ IsRoot(root) /\ Complete(root)
    BY DEF IsRoot, IsArea, Empty, Complete
  <2>6. WritingFits(w, succeeded, 0, root)
    <3>1. DOMAIN root.files = WrittenBy(Done(P, 0))
      BY <2>5, DoneNothing
    <3>2. CASE succeeded
      <4> DEFINE l == Len(P)
      <4>1. P = Program(w, TRUE)
        BY <3>2
      <4>2. l \in Nat /\ 0 < l - 5 /\ (w \in Hybrid => 0 < l - 6)
        BY <4>1, SuccessLength
      <4> HIDE DEF l
      <4>3. ~(0 >= l - 5) /\ ~(0 >= l - 4) /\ ~(0 >= l - 3) /\ ~(0 >= l - 2) /\ ~(0 >= l - 1)
        BY <4>2
      <4> HIDE DEF root, succeeded
      <4> QED BY <3>1, <4>3 DEF WritingFits, l
    <3>3. CASE ~succeeded
      BY <3>1, <3>3 DEF WritingFits
    <3> QED BY <3>2, <3>3
  <2> HIDE DEF succeeded, root
  <2>7. P \in Seq(Step) /\ 0 \in 0 .. (Len(P) - 1)
    <3>1. P \in Seq(Step) /\ Len(P) \in Nat \ {0}
      BY <2>4, ProgramType
    <3> HIDE DEF P
    <3> QED BY <3>1
  <2>8. call.todo = Rest(P, 0)
    BY <2>7, RestOfAll
  <2>9. IsCall(call) /\ Fits(w, call, root)
    <3>1. IsCall(call)
      BY DEF IsCall, Working, Active
    <3>2. Fits(w, call, root)
      BY <2>4, <2>6, <2>7, <2>8 DEF Fits
    <3> QED BY <3>1, <3>2
  <2> HIDE DEF call
  <2>10. RootsFit'
    <3>1. ASSUME NEW r \in DOMAIN roots'
          PROVE  IsRoot(roots'[r]) /\ RunIdOf[roots'[r].owner] = r /\ Complete(roots'[r])
      <4>1. CASE r = RunIdOf[w]
        BY <2>2, <2>5, <4>1
      <4>2. CASE r # RunIdOf[w]
        BY <2>2, <3>1, <4>2 DEF ArtifactsIInv, RootsFit
      <4> QED BY <4>1, <4>2
    <3> QED BY <2>2, <3>1 DEF RootsFit, IsRoot, IsArea, IsContent, Complete
  <2>11. CallsFit'
    <3>1. ASSUME NEW v \in Writers
          PROVE  /\ IsCall(calls'[v])
                 /\ calls'[v].mode \in Owning =>
                      /\ RunIdOf[v] \in DOMAIN roots'
                      /\ roots'[RunIdOf[v]].owner = v
                      /\ Fits(v, calls'[v], roots'[RunIdOf[v]])
      <4>1. CASE v = w
        BY <2>2, <2>3, <2>5, <2>9, <4>1
      <4>2. CASE v # w
        <5>1. calls'[v] = calls[v]
          BY <2>3, <4>2
        <5>2. IsCall(calls[v])
          BY DEF ArtifactsIInv, CallsFit
        <5>3. ASSUME calls[v].mode \in Owning
              PROVE  /\ RunIdOf[v] \in DOMAIN roots
                     /\ roots[RunIdOf[v]].owner = v
                     /\ Fits(v, calls[v], roots[RunIdOf[v]])
          BY <5>3 DEF ArtifactsIInv, CallsFit, Root
        <5> QED BY <2>2, <5>1, <5>2, <5>3
      <4> QED BY <4>1, <4>2
    <3> QED BY <2>3, <3>1 DEF CallsFit, Root
  <2> QED BY <2>10, <2>11 DEF ArtifactsIInv
<1> QED BY <1>2, <1>3 DEF Claim

\* A step that touches no directory and takes a call out of it, or not into it.
LEMMA LeaveIsGood ==
  ASSUME ArtifactsIInv, NEW w \in Writers, NEW mode, Become(w, mode, <<>>), UNCHANGED roots,
         mode \in Active \cup Ended, mode \notin Owning
  PROVE  ArtifactsIInv'
<1>1. calls = [v \in Writers |-> calls[v]]
  BY DEF ArtifactsIInv, CallsFit
<1>2. /\ calls' = [v \in Writers |-> calls'[v]]
      /\ calls'[w] = [mode |-> mode, todo |-> <<>>]
      /\ \A v \in Writers \ {w} : calls'[v] = calls[v]
  BY <1>1 DEF Become
<1>3. RootsFit'
  BY DEF ArtifactsIInv, RootsFit, IsRoot, IsArea, IsContent, Complete
<1>4. IsCall(calls'[w]) /\ calls'[w].mode \notin Owning
  <2>1. calls'[w].mode = mode /\ calls'[w].todo = <<>>
    BY <1>2
  <2> QED BY <1>2, <2>1 DEF IsCall
<1>5. CallsFit'
  <2>1. ASSUME NEW v \in Writers
        PROVE  /\ IsCall(calls'[v])
               /\ calls'[v].mode \in Owning =>
                    /\ RunIdOf[v] \in DOMAIN roots
                    /\ roots[RunIdOf[v]].owner = v
                    /\ Fits(v, calls'[v], roots[RunIdOf[v]])
    BY <1>2, <1>4 DEF ArtifactsIInv, CallsFit, Root
  <2> QED BY <1>2, <2>1 DEF CallsFit, Root
<1> QED BY <1>3, <1>5 DEF ArtifactsIInv

\* Only a call at work has a step to take.
LEMMA OnlyWorkingOperate ==
  ASSUME ArtifactsIInv, NEW w \in Writers, Operate(w)
  PROVE  calls[w].mode \in Working
BY DEF ArtifactsIInv, CallsFit, IsCall, Operate

\* Every step keeps the invariant.
LEMMA ArtifactsStep ==
  ASSUME ArtifactsIInv, [Next]_vars
  PROVE  ArtifactsIInv'
<1>1. CASE ChangeSources \/ UNCHANGED vars
  <2>1. UNCHANGED roots /\ UNCHANGED calls
    BY <1>1 DEF ChangeSources, vars
  <2>2. RootsFit' /\ CallsFit'
    BY <2>1 DEF ArtifactsIInv, RootsFit, CallsFit, IsRoot, IsArea, IsContent, Complete, Root
  <2> QED BY <2>2 DEF ArtifactsIInv
<1>2. ASSUME NEW w \in Writers, Progress(w) \/ Kill(w) PROVE ArtifactsIInv'
  <2>1. CASE Run(w)
    <3>1. PICK outcome \in {"ran", "failed run"} : Become(w, outcome, <<>>)
      BY <2>1 DEF Run
    <3>2. outcome \in Active \cup Ended /\ outcome \notin Owning /\ UNCHANGED roots
      BY <2>1 DEF Run, Active, Ended, Owning, Working
    <3> QED BY <3>1, <3>2, LeaveIsGood
  <2>2. CASE Claim(w)
    BY <2>2, ClaimIsGood
  <2>3. CASE Operate(w)
    <3>1. calls[w].mode \in Working
      BY <2>3, OnlyWorkingOperate
    <3>2. calls[w].mode = "writing" \/ calls[w].mode \in {"reporting", "recording"}
      BY <3>1 DEF Working
    <3> QED BY <2>3, <3>2, WritingStep, RecordingStep
  <2>4. CASE Kill(w)
    <3>1. Become(w, "killed", <<>>) /\ UNCHANGED roots
      BY <2>4 DEF Kill
    <3>2. "killed" \in Active \cup Ended /\ "killed" \notin Owning
      BY DEF Ended, Owning, Working
    <3> QED BY <3>1, <3>2, LeaveIsGood
  <2> QED BY <1>2, <2>1, <2>2, <2>3, <2>4 DEF Progress
<1> QED BY <1>1, <1>2 DEF Next

\* The invariant of the directories and the calls that write them: how far a call
\* has come tells what its directory holds, whatever the file system did to it.
THEOREM ArtifactsInvariant == Spec => []ArtifactsIInv
<1>1. Init => ArtifactsIInv
  <2> SUFFICES ASSUME Init PROVE ArtifactsIInv
    OBVIOUS
  <2>1. RootsFit
    BY DEF Init, RootsFit, Empty
  <2>2. CallsFit
    BY DEF Init, CallsFit, IsCall, Owning, Working
  <2> QED BY <2>1, <2>2 DEF ArtifactsIInv
<1>2. ArtifactsIInv /\ [Next]_vars => ArtifactsIInv'
  BY ArtifactsStep
<1> QED BY <1>1, <1>2, PTL DEF Spec

\* summary.json, at whatever moment a directory is read and however its call ends,
\* stands beside every document with the bytes the success manifest lists.
THEOREM MarkerMeansComplete == Spec => []SummaryMeansComplete
<1>1. ArtifactsIInv => SummaryMeansComplete
  <2> SUFFICES ASSUME ArtifactsIInv, NEW r \in DOMAIN roots, HasSummary(r)
               PROVE  LET files == roots[r].files
                      IN  /\ Expected(roots[r].owner) \cup {"manifest.json"} = DOMAIN files
                          /\ files["manifest.json"].says = "success"
                          /\ files["manifest.json"].refs = Refs(files)
                          /\ \A c \in Contents(files) : c.intact
    BY DEF SummaryMeansComplete
  <2>1. Complete(roots[r]) /\ "summary.json" \in DOMAIN roots[r].files
    BY DEF ArtifactsIInv, RootsFit, HasSummary
  <2> QED BY <2>1 DEF Complete, AllIntact, Contents
<1> QED BY <1>1, ArtifactsInvariant, PTL

\* A call reports what it left: success with its marker, or a failure without one
\* whose evidence is whole and whose manifest lists exactly the files that are there.
THEOREM ReportIsHonest == Spec => []ReportMatchesDirectory
<1>1. ArtifactsIInv => ReportMatchesDirectory
  <2> SUFFICES ASSUME ArtifactsIInv, NEW w \in Writers
               PROVE  LET files == Root(w).files
                      IN  /\ calls[w].mode = "success" => HasSummary(RunIdOf[w])
                          /\ calls[w].mode \in {"failed", "raised"} =>
                               /\ ~HasSummary(RunIdOf[w])
                               /\ files["failure.json"].intact /\ files["failure.json"].says = "failed"
                               /\ files["manifest.json"].intact /\ files["manifest.json"].says = "failed"
                               /\ files["manifest.json"].refs = Refs(files)
    BY DEF ReportMatchesDirectory
  <2>1. calls[w].mode \in {"success", "failed", "raised"} => Fits(w, calls[w], Root(w))
    BY DEF ArtifactsIInv, CallsFit, Owning
  <2>2. calls[w].mode = "success" => HasSummary(RunIdOf[w])
    BY <2>1 DEF Fits, HasSummary, Root
  <2>3. calls[w].mode \in {"failed", "raised"} => FailureFits(7, Root(w))
    BY <2>1 DEF Fits
  <2> QED BY <2>2, <2>3 DEF FailureFits, FailureIsThere, IsFailureManifest, HasSummary, Root
<1> QED BY <1>1, ArtifactsInvariant, PTL

\* A hybrid run only succeeds on sources that were still what the loader had read
\* when the last of its results had been written.
THEOREM SuccessIsPinned == Spec => []SuccessSawPinnedSources
<1>1. ArtifactsIInv => SuccessSawPinnedSources
  BY DEF ArtifactsIInv, RootsFit, Complete, HasSummary, SuccessSawPinnedSources
<1> QED BY <1>1, ArtifactsInvariant, PTL

\* A second call for the same run id, a retry after a crash included, changes
\* nothing in a directory that is there.
THEOREM DirectoriesAreOwned == Spec => OnlyTheOwnerWrites
<1> DEFINE Owned == \A r \in DOMAIN roots :
                      /\ r \in DOMAIN roots' /\ roots'[r].owner = roots[r].owner
                      /\ roots'[r] # roots[r] =>
                           \A w \in Writers \ {roots[r].owner} : calls'[w] = calls[w]
<1>1. ArtifactsIInv /\ [Next]_vars => [Owned]_vars
  <2> SUFFICES ASSUME ArtifactsIInv, Next PROVE Owned
    OBVIOUS
  <2>1. ASSUME UNCHANGED roots PROVE Owned
    BY <2>1
  <2>2. CASE ChangeSources
    BY <2>1, <2>2 DEF ChangeSources
  <2>3. ASSUME NEW w \in Writers, Run(w) \/ Kill(w) PROVE Owned
    BY <2>1, <2>3 DEF Run, Kill
  <2>4. ASSUME NEW w \in Writers, Claim(w) PROVE Owned
    <3>1. \A r \in DOMAIN roots : r \in DOMAIN roots' /\ roots'[r] = roots[r]
      BY <2>4 DEF Claim, Put
    <3> QED BY <3>1
  <2>5. ASSUME NEW w \in Writers, Operate(w) PROVE Owned
    <3>1. /\ calls[w].mode \in Working /\ calls[w].mode \in Owning
          /\ RunIdOf[w] \in DOMAIN roots /\ Root(w).owner = w
      BY <2>5, OnlyWorkingOperate DEF ArtifactsIInv, CallsFit, Owning
    <3>2. \A v \in Writers \ {w} : calls'[v] = calls[v]
      BY <2>5 DEF Operate, WriteFile, StageFile, Create, ReadBack, ReplaceFile, UnlinkFile,
                  Validate, Advance, Raise, Become, ArtifactsIInv, CallsFit
    <3>3. /\ DOMAIN roots' = DOMAIN roots
          /\ \A r \in DOMAIN roots \ {RunIdOf[w]} : roots'[r] = roots[r]
          /\ roots'[RunIdOf[w]].owner = roots[RunIdOf[w]].owner
      <4>1. ASSUME NEW r, roots' = [roots EXCEPT ![RunIdOf[w]] = r], r.owner = w
            PROVE  /\ DOMAIN roots' = DOMAIN roots
                   /\ \A q \in DOMAIN roots \ {RunIdOf[w]} : roots'[q] = roots[q]
                   /\ roots'[RunIdOf[w]].owner = roots[RunIdOf[w]].owner
        BY <3>1, <4>1 DEF Root
      <4>2. ASSUME UNCHANGED roots
            PROVE  /\ DOMAIN roots' = DOMAIN roots
                   /\ \A q \in DOMAIN roots \ {RunIdOf[w]} : roots'[q] = roots[q]
                   /\ roots'[RunIdOf[w]].owner = roots[RunIdOf[w]].owner
        BY <4>2
      <4> DEFINE name == Head(calls[w].todo)[2]
                 Stays == \E r : r.owner = w /\ roots' = [roots EXCEPT ![RunIdOf[w]] = r]
      <4>o. ASSUME NEW r, r.owner = w, AdvancesTo(w, r) \/ RaisesTo(w, r) PROVE Stays
        BY <4>o DEF AdvancesTo, RaisesTo
      <4> HIDE DEF name, Stays
      <4>3. ASSUME WriteFile(w, name) PROVE Stays
        <5>1. \/ RaisesTo(w, Root(w))
              \/ \E body : /\ IsBody(w, name, body)
                           /\ \/ AdvancesTo(w, WithFile(Root(w), name, body))
                              \/ RaisesTo(w, WithFile(Root(w), name, body))
          BY <3>1, <4>3, WriteOutcome
        <5>2. \A body : WithFile(Root(w), name, body).owner = w
          BY <3>1 DEF WithFile
        <5> QED BY <3>1, <4>o, <5>1, <5>2
      <4>4. ASSUME StageFile(w, name) PROVE Stays
        <5>1. \/ RaisesTo(w, Root(w))
              \/ \E body : /\ IsBody(w, name, body)
                           /\ \/ AdvancesTo(w, WithPending(Root(w), name, body))
                              \/ RaisesTo(w, WithPending(Root(w), name, body))
          BY <3>1, <4>4, StageOutcome
        <5>2. \A body : WithPending(Root(w), name, body).owner = w
          BY <3>1 DEF WithPending
        <5> QED BY <3>1, <4>o, <5>1, <5>2
      <4>5. ASSUME ReplaceFile(w, name) PROVE Stays
        <5>1. \/ RaisesTo(w, Root(w)) \/ AdvancesTo(w, Renamed(Root(w), name))
              \/ RaisesTo(w, Renamed(Root(w), name))
          BY <3>1, <4>5, ReplaceOutcome
        <5>2. Renamed(Root(w), name).owner = w
          BY <3>1 DEF Renamed
        <5> QED BY <3>1, <4>o, <5>1, <5>2
      <4>6. ASSUME UnlinkFile(w, name) PROVE Stays
        <5> DEFINE left == [owner |-> Root(w).owner, files |-> Without(Root(w).files, name),
                            pending |-> Root(w).pending]
        <5>1. RaisesTo(w, Root(w)) \/ AdvancesTo(w, left)
          BY <3>1, <4>6, UnlinkOutcome
        <5>2. left.owner = w
          BY <3>1
        <5> HIDE DEF left
        <5> QED BY <3>1, <4>o, <5>1, <5>2
      <4>7. \/ UNCHANGED roots \/ WriteFile(w, name) \/ StageFile(w, name)
            \/ ReplaceFile(w, name) \/ UnlinkFile(w, name)
        BY <2>5 DEF Operate, ReadBack, name
      <4>8. Stays => /\ DOMAIN roots' = DOMAIN roots
                     /\ \A q \in DOMAIN roots \ {RunIdOf[w]} : roots'[q] = roots[q]
                     /\ roots'[RunIdOf[w]].owner = roots[RunIdOf[w]].owner
        BY <4>1 DEF Stays
      <4> QED BY <4>2, <4>3, <4>4, <4>5, <4>6, <4>7, <4>8
    <3> QED BY <3>1, <3>2, <3>3 DEF Root
  <2> QED BY <2>2, <2>3, <2>4, <2>5 DEF Next, Progress
<1>2. Spec => [][Owned]_vars
  BY <1>1, ArtifactsInvariant, PTL DEF Spec
<1> QED BY <1>2 DEF OnlyTheOwnerWrites

=============================================================================
