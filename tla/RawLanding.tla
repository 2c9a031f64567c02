------------------------------- MODULE RawLanding -------------------------------
(***************************************************************************)
(* notebooks/load_eval_raw.py: the one-time landing of the raw files of    *)
(* transaction_cat and fresh_retail.  The job may be started again after   *)
(* it failed, and also after it succeeded.                                 *)
(*                                                                         *)
(* A file is absent, or a part of it is there, or it holds what the hub    *)
(* has; the snapshot of the transactions may hold the generated sample     *)
(* instead.  The lookups are rewritten by every landing and left out, but  *)
(* for the exception of their copy.                                        *)
(***************************************************************************)
EXTENDS Naturals

CONSTANTS
  MaxLandings,  \* bound on the times the job is started
  Faults        \* what may go wrong, see AllFaults

AllFaults == {
  "copy",   \* a download, copy or removal raises, a copy with a part of the file or none written
  "spark",  \* a statement of Spark raises
  "ls",     \* dbutils.fs.ls raises although the file is there
  "kill" }  \* the notebook's process dies, also in the middle of a copy

VARIABLES
  files,     \* contents of the raw files
  at,        \* the statement the landing is at
  blind,     \* history: an existing file has been taken for a missing one
  landings   \* how many landings were started

vars == <<files, at, blind, landings>>

Names == {"transactions", "snapshot", "train", "eval"}  \* transactions is canonical_tx
Contents == {"absent", "partial", "hub", "sample"}
Steps == {"download", "materialize", "lookups", "train", "eval", "peeks"}

There(name) == files[name] # "absent"
Complete(name) == files[name] \in {"hub", "sample"}

\* What exists() may say: any exception of the listing is a missing file.
Exists(name) == {There(name)} \cup {answer \in {FALSE} : "ls" \in Faults}
Deceived(name, answer) == There(name) /\ ~answer

Raised == at' = "over"
MayStop(faults) == faults \cap Faults # {}
Broken(name) == [files EXCEPT ![name] = "partial"]

Init ==
  /\ files = [name \in Names |-> "absent"]
  /\ at = "over" /\ blind = FALSE /\ landings = 0

Start ==
  /\ at \in {"over", "landed"} /\ landings < MaxLandings
  /\ at' = "download" /\ landings' = landings + 1 /\ blind' = FALSE
  /\ UNCHANGED files

\* What the failed download left is removed, and the sample goes to the snapshot.
PartLeft == Broken("transactions")  \* deviation: a failed download is not removed
Cleared == [files EXCEPT !["transactions"] = "absent"]

SampleInstead ==
  \/ at' = "materialize" /\ files' = [Cleared EXCEPT !["snapshot"] = "sample"]
  \/ MayStop({"copy", "spark", "kill"}) /\ Raised
       /\ files' \in {Cleared, [Cleared EXCEPT !["snapshot"] = "partial"]}

WithoutTransactions(transactions, snapshot) == ~transactions  \* deviation: asks for one file only
NothingLanded(transactions, snapshot) == ~transactions /\ ~snapshot

Download ==
  /\ at = "download"
  /\ \E transactions \in Exists("transactions"), snapshot \in Exists("snapshot") :
       /\ blind' = (blind \/ Deceived("transactions", transactions)
                          \/ (~transactions /\ Deceived("snapshot", snapshot)))
       /\ IF NothingLanded(transactions, snapshot)
            THEN \/ at' = "materialize" /\ files' = [files EXCEPT !["transactions"] = "hub"]
                 \/ MayStop({"copy"}) /\ SampleInstead
                 \/ MayStop({"copy", "kill"}) /\ Raised /\ files' \in {files, Broken("transactions")}
            ELSE at' = "materialize" /\ UNCHANGED files
  /\ UNCHANGED landings

\* A million rows of the download become the snapshot the slice reads.
Materialize ==
  /\ at = "materialize"
  /\ \E transactions \in Exists("transactions"), snapshot \in Exists("snapshot") :
       /\ blind' = (blind \/ Deceived("transactions", transactions)
                          \/ (transactions /\ Deceived("snapshot", snapshot)))
       /\ IF transactions /\ ~snapshot
            THEN \/ Complete("transactions") /\ at' = "lookups"
                      /\ files' = [files EXCEPT !["snapshot"] = "hub"]
                 \/ ~Complete("transactions") /\ Raised /\ UNCHANGED files
                 \/ MayStop({"copy", "spark", "kill"}) /\ Raised
                      /\ files' \in {files, Broken("snapshot")}
            ELSE at' = "lookups" /\ UNCHANGED files
  /\ UNCHANGED landings

Lookups ==
  /\ at = "lookups"
  /\ at' = "train" \/ (MayStop({"copy"}) /\ Raised)
  /\ UNCHANGED <<files, blind, landings>>

\* A retail file.  copy_http reports an exception and goes on; a file that is there after all
\* may be found by the search for one of its name, and is then copied onto itself.
Fetch(name, next) ==
  /\ at = name
  /\ \E answer \in Exists(name) :
       /\ blind' = (blind \/ Deceived(name, answer))
       /\ \/ answer /\ at' = next /\ UNCHANGED files
          \/ ~answer /\ at' = next /\ files' = [files EXCEPT ![name] = "hub"]
          \/ Deceived(name, answer) /\ at' = next /\ UNCHANGED files
          \/ ~answer /\ MayStop({"copy"}) /\ at' \in {next, "over"}
                     /\ files' \in {files, Broken(name)}
          \/ ~answer /\ MayStop({"kill"}) /\ Raised /\ files' = Broken(name)
  /\ UNCHANGED landings

\* peek reads every file to its end; missing makes the landing fail.
Peeks ==
  /\ at = "peeks"
  /\ \/ /\ \A name \in {"snapshot", "train", "eval"} : Complete(name)
        /\ \E transactions \in Exists("transactions") : transactions => Complete("transactions")
        /\ at' = "landed"
     \/ \E name \in {"snapshot", "train", "eval", "transactions"} :
          /\ name # "transactions" \/ There(name)
          /\ ~Complete(name) \/ MayStop({"ls", "spark"})
          /\ Raised
  /\ UNCHANGED <<files, blind, landings>>

\* The process dies between two writes, or a listing that no exists() guards raises.
Stop ==
  /\ MayStop({"kill", "ls"}) /\ at \in Steps /\ Raised
  /\ UNCHANGED <<files, blind, landings>>

Next ==
  \/ Start \/ Download \/ Materialize \/ Lookups
  \/ Fetch("train", "eval") \/ Fetch("eval", "peeks")
  \/ Peeks \/ Stop

Spec == Init /\ [][Next]_vars
-----------------------------------------------------------------------------
TypeOK ==
  /\ files \in [Names -> Contents] /\ at \in Steps \cup {"over", "landed"}
  /\ blind \in BOOLEAN /\ landings \in 0..MaxLandings

\* The generated sample never comes to stand beside a file of the hub, or a part of one, unless
\* a listing fails: what a failed download left is removed before the sample is written, and
\* a landing that finds the sample of an earlier one downloads nothing.
Apart == files["snapshot"] = "sample" => ~There("transactions")
SampleStandsAlone == [][Apart => Apart' \/ blind']_vars

\* A complete file is landed once: unless a listing fails, no later landing replaces it,
\* the sample by the hub's rows included, or leaves a part of it.
LandedOnce ==
  [][\A name \in {"snapshot", "train", "eval"} :
       Complete(name) /\ files'[name] # files[name] => blind']_vars
=============================================================================
