----------------------------- MODULE Artifacts ------------------------------
(***************************************************************************)
(* The evidence a minute-order run leaves on disk: the wrapper of          *)
(* minute_orders_backend/runner.py, which runs the broker once, and the    *)
(* writer of artifacts.py, which turns the outcome into a directory of its *)
(* own.  A reader of that directory trusts one thing: summary.json is      *)
(* there exactly when the run succeeded and everything else is in place.   *)
(*                                                                         *)
(* One step is one call on the file system.  Each may fail, leave a file   *)
(* half written, or (for the bytes of a file) go wrong without an error;   *)
(* the process may be killed between any two.  A kill during a write looks *)
(* like a damaged write followed by a kill.  The sources a hybrid run was  *)
(* loaded from may change while it is being written.                       *)
(***************************************************************************)
EXTENDS Integers, Sequences, FiniteSets, Totals

CONSTANTS
  Writers,   \* calls of run_minute_orders_research_with_artifacts
  RunIdOf,   \* the run id each one asks for
  Hybrid,    \* those with evidence_level "hybrid", the others being synthetic
  MaxDamage  \* bound: how many files of a directory may hold wrong bytes at once

ASSUME ArtifactsAssumption ==
  Hybrid \subseteq Writers /\ DOMAIN RunIdOf = Writers /\ MaxDamage \in Nat

VARIABLES
  roots,    \* run id -> [owner, files, pending]: its directory, once there is one
  calls,    \* writer -> [mode, todo]: what the call is doing and still has to do
  sources   \* what the sources of the hybrid runs hold

vars == <<roots, calls, sources>>

Active == {"ran", "failed run", "writing", "reporting", "recording"}
Ended == {"success", "failed", "raised", "raised without evidence", "refused", "killed"}

-----------------------------------------------------------------------------
(* What a call does once it owns its directory. *)

Each(verb, names) == [i \in DOMAIN names |-> <<verb, names[i]>>]

\* _publish: stage the bytes, read them back, rename.
Publish(name) == <<<<"stage", name>>, <<"check", name>>, <<"replace", name>>>>

InputNames == <<"contract.json", "inputs.json", "commands.jsonl">>
SourceNames == <<"source_provenance.json", "source_checks.json">>
RowNames == <<"orders.jsonl", "fills.jsonl", "ledger.jsonl", "marks.jsonl">>
Postflight == "source_postflight.json"

\* Fault: the marker is published before what it vouches for is read back.
SummaryBeforeVerify(w) ==
  (IF w \in Hybrid THEN <<<<"write", Postflight>>, <<"require", Postflight>>>> ELSE <<>>)
    \o <<<<"write", "manifest.json">>>> \o Publish("summary.json") \o <<<<"verify", "manifest.json">>>>

\* The end of a successful run: all is read back, then the marker is published.
Completion(w) ==
  (IF w \in Hybrid THEN <<<<"write", Postflight>>, <<"require", Postflight>>>> ELSE <<>>)
    \o <<<<"write", "manifest.json">>, <<"verify", "manifest.json">>>> \o Publish("summary.json")

\* The try block of write_minute_orders_artifacts.
Program(w, succeeded) ==
  <<<<"compute", "inputs">>>> \o Each("write", InputNames)
    \o (IF w \in Hybrid THEN Each("write", SourceNames) \o <<<<"validate", "sources">>>> ELSE <<>>)
    \o <<<<"compute", "rows">>>> \o Each("write", RowNames)
    \o (IF succeeded THEN Completion(w) ELSE <<<<"report", "failure">>>>)

\* Fault: the manifest of a failure is published before what it has to list.
ManifestBeforeFailure ==
  <<<<"unlink", "summary.json">>>> \o Publish("manifest.json") \o Publish("failure.json")

\* _failure: the marker goes first, then the evidence of the failure is published.
FailureProgram ==
  <<<<"unlink", "summary.json">>>> \o Publish("failure.json") \o Publish("manifest.json")

Init ==
  /\ roots = Empty
  /\ calls = [w \in Writers |-> [mode |-> "ready", todo |-> <<>>]]
  /\ sources = "pinned"

-----------------------------------------------------------------------------
(* Running the broker and claiming the directory. *)

Become(w, mode, todo) == calls' = [calls EXCEPT ![w] = [mode |-> mode, todo |-> todo]]

\* The broker returns or raises; a hybrid run whose sources have changed raises.
Run(w) ==
  /\ calls[w].mode = "ready"
  /\ \E outcome \in {"ran", "failed run"} :
       /\ (w \in Hybrid /\ sources = "changed") => outcome = "failed run"
       /\ Become(w, outcome, <<>>)
  /\ UNCHANGED <<roots, sources>>

\* Fault: a directory that exists is used as if it had just been made.
ReusesRoot(w) == TRUE

RootIsNew(w) == RunIdOf[w] \notin DOMAIN roots

\* _new_root: the one exclusive mkdir; whatever fails here leaves no evidence.
Claim(w) ==
  /\ calls[w].mode \in {"ran", "failed run"}
  /\ \/ /\ RootIsNew(w)
        /\ roots' = IF RunIdOf[w] \in DOMAIN roots THEN roots
                    ELSE Put(roots, RunIdOf[w], [owner |-> w, files |-> Empty, pending |-> Empty])
        /\ Become(w, "writing", Program(w, calls[w].mode = "ran"))
     \/ /\ Become(w, "refused", <<>>)
        /\ UNCHANGED roots
  /\ UNCHANGED sources

-----------------------------------------------------------------------------
(* One call on the file system. *)

Root(w) == roots[RunIdOf[w]]

\* The step is done; after the last one the call returns, or raises what it caught.
Advance(w) ==
  LET mode == calls[w].mode
      rest == Tail(calls[w].todo)
  IN  IF rest # <<>>
      THEN Become(w, mode, rest)
      ELSE Become(w, IF mode = "writing" THEN "success"
                     ELSE IF mode = "reporting" THEN "failed" ELSE "raised", <<>>)

\* Fault: failing to record a failure is a failure to record.
RecordsForever(w) == Become(w, "recording", FailureProgram)

\* An exception: it is recorded once, and one while recording is attached to it.
Raise(w) ==
  IF calls[w].mode = "recording"
  THEN Become(w, "raised without evidence", <<>>)
  ELSE Become(w, "recording", FailureProgram)

\* What every file but the manifest holds, by name: _refs.
Refs(files) == {<<n, files[n]>> : n \in DOMAIN files \ {"manifest.json"}}

Damaged(w) == {n \in DOMAIN Root(w).files : ~Root(w).files[n].intact}

Content(says, refs) == [says |-> says, refs |-> refs, intact |-> TRUE]

Summary == Content("success", {})

\* The bytes meant for a file.  The success manifest lists the bodies that were
\* meant, the failed one and failure.json what is there, damaged or not.
Body(w, name) ==
  LET files == Root(w).files
      meant == [n \in DOMAIN files |-> [files[n] EXCEPT !.intact = TRUE]]
  IN  IF name \in {"failure.json", "manifest.json"} /\ calls[w].mode # "writing"
      THEN Content("failed", Refs(files))
      ELSE IF name = "manifest.json"
      THEN Content("success", Refs(Put(meant, "summary.json", Summary)))
      ELSE IF name = "summary.json" THEN Summary
      ELSE IF name \in {"source_checks.json", Postflight} THEN Content(sources, {})
      ELSE Content("data", {})

\* The three ways a new file can go wrong: wrong bytes and no error, half of it and
\* an error, none of it and an error.  A file of that name is always an error.
Create(w, area, name) ==
  LET there == name \in DOMAIN Root(w)[area]
      Store(body) == roots' = [roots EXCEPT ![RunIdOf[w]][area] = Put(@, name, body)]
      damaged == [Body(w, name) EXCEPT !.intact = FALSE]
      mayDamage == Cardinality(Damaged(w)) < MaxDamage
  IN  \/ ~there /\ Store(Body(w, name)) /\ Advance(w)
      \/ ~there /\ mayDamage /\ Store(damaged) /\ (Advance(w) \/ Raise(w))
      \/ UNCHANGED roots /\ Raise(w)

\* _write_file: mode "xb" never replaces a file, nor does staging one.
WriteFile(w, name) == Create(w, "files", name)

StageFile(w, name) == Create(w, "pending", name)

\* Reading back: an error, or other bytes than were written, raises.
ReadBack(w, contents) ==
  /\ \/ (\A c \in contents : c.intact) /\ Advance(w)
     \/ Raise(w)
  /\ UNCHANGED roots

\* os.replace, which may report an error after it has taken effect.
ReplaceFile(w, name) ==
  LET root == Root(w)
      renamed == [root EXCEPT !.files = Put(@, name, root.pending[name]),
                              !.pending = Without(@, name)]
  IN  \/ roots' = [roots EXCEPT ![RunIdOf[w]] = renamed] /\ Advance(w)
      \/ roots' = [roots EXCEPT ![RunIdOf[w]] = renamed] /\ Raise(w)
      \/ UNCHANGED roots /\ Raise(w)

UnlinkFile(w, name) ==
  \/ roots' = [roots EXCEPT ![RunIdOf[w]].files = Without(@, name)] /\ Advance(w)
  \/ UNCHANGED roots /\ Raise(w)

\* Fault: what the check of the sources found is written down and ignored.
ToleratesChange(found) == TRUE

MayProceed(found) == found = "pinned"

\* validate_source_provenance: refuses changed sources, and whatever else is wrong.
Validate(w) == (sources = "pinned" /\ Advance(w)) \/ Raise(w)

Contents(files) == {files[n] : n \in DOMAIN files}

Operate(w) ==
  /\ calls[w].todo # <<>>
  /\ LET verb == Head(calls[w].todo)[1]
         name == Head(calls[w].todo)[2]
     IN  \/ verb = "write" /\ WriteFile(w, name)
         \/ verb = "stage" /\ StageFile(w, name)
         \/ verb = "check" /\ ReadBack(w, {Root(w).pending[name]})
         \/ verb = "verify" /\ ReadBack(w, Contents(Root(w).files))
         \/ verb = "replace" /\ ReplaceFile(w, name)
         \/ verb = "unlink" /\ UnlinkFile(w, name)
         \/ verb = "compute" /\ (Advance(w) \/ Raise(w)) /\ UNCHANGED roots
         \/ verb = "validate" /\ Validate(w) /\ UNCHANGED roots
         \/ /\ verb = "require"
            /\ IF MayProceed(Root(w).files[name].says) THEN Advance(w) ELSE Raise(w)
            /\ UNCHANGED roots
         \/ verb = "report" /\ Become(w, "reporting", FailureProgram) /\ UNCHANGED roots
  /\ UNCHANGED sources

\* The process dies, or an interrupt passes the `except Exception'.
Kill(w) ==
  /\ calls[w].mode \in Active
  /\ Become(w, "killed", <<>>)
  /\ UNCHANGED <<roots, sources>>

\* Someone edits a source of the hybrid runs.
ChangeSources ==
  /\ sources = "pinned" /\ sources' = "changed"
  /\ UNCHANGED <<roots, calls>>

Progress(w) == Run(w) \/ Claim(w) \/ Operate(w)

Next == ChangeSources \/ \E w \in Writers : Progress(w) \/ Kill(w)

\* A call that is not killed runs to its end.
Spec == Init /\ [][Next]_vars /\ \A w \in Writers : WF_vars(Progress(w))

-----------------------------------------------------------------------------
(* What a reader of the directories may rely on. *)

HasSummary(r) == "summary.json" \in DOMAIN roots[r].files

\* The documents a successful run of the writer consists of.
Expected(w) ==
  {"contract.json", "inputs.json", "commands.jsonl", "orders.jsonl", "fills.jsonl",
   "ledger.jsonl", "marks.jsonl", "summary.json"}
    \cup (IF w \in Hybrid
          THEN {"source_provenance.json", "source_checks.json", Postflight} ELSE {})

\* "Sole completion marker": whenever summary.json is there, at whatever moment the
\* directory is read and however the call ends, every document is there with the
\* bytes the success manifest lists, and no failure is recorded beside it.
SummaryMeansComplete ==
  \A r \in DOMAIN roots :
    LET files == roots[r].files
    IN  HasSummary(r) =>
          /\ Expected(roots[r].owner) \cup {"manifest.json"} = DOMAIN files
          /\ files["manifest.json"].says = "success"
          /\ files["manifest.json"].refs = Refs(files)
          /\ \A c \in Contents(files) : c.intact

\* What a call reports is what it left: success with its marker, or a failure whose
\* evidence is whole and whose manifest lists exactly the files that are there.
ReportMatchesDirectory ==
  \A w \in Writers :
    LET files == Root(w).files
    IN  /\ calls[w].mode = "success" => HasSummary(RunIdOf[w])
        /\ calls[w].mode \in {"failed", "raised"} =>
             /\ ~HasSummary(RunIdOf[w])
             /\ files["failure.json"].intact /\ files["failure.json"].says = "failed"
             /\ files["manifest.json"].intact /\ files["manifest.json"].says = "failed"
             /\ files["manifest.json"].refs = Refs(files)

\* A hybrid run only succeeds on sources that were still what the loader had read
\* when the last of its results had been written.
SuccessSawPinnedSources ==
  \A r \in DOMAIN roots :
    (HasSummary(r) /\ roots[r].owner \in Hybrid) => roots[r].files[Postflight].says = "pinned"

\* A directory is only ever touched by the call that made it: a second call for the
\* same run id, a retry after a crash included, changes nothing in it.
OnlyTheOwnerWrites ==
  [][\A r \in DOMAIN roots :
       /\ r \in DOMAIN roots' /\ roots'[r].owner = roots[r].owner
       /\ roots'[r] # roots[r] =>
            \A w \in Writers \ {roots[r].owner} : calls'[w] = calls[w]]_vars

\* Every call ends, whatever the file system does to it.
CallsEnd == \A w \in Writers : <>(calls[w].mode \in Ended)
=============================================================================
