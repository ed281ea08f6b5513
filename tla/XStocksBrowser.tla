--------------------------- MODULE XStocksBrowser ---------------------------
(***************************************************************************)
(* The audit browser over XStocksSync: XStocksAuditService.load, which a   *)
(* refresh ends with and "Load Saved History" consists of.  It reads the   *)
(* progress of the pending run and the published history in two            *)
(* transactions, with anything in between: a page, a pause, a publication  *)
(* or a restart, by this application or by another one.                    *)
(***************************************************************************)
EXTENDS XStocksSync

VARIABLES
  load,      \* what the load has read
  since,     \* HISTORY: the tables when the load was asked for
  replaced   \* HISTORY: was the run of that moment given up for a new one?

loadVars == <<load, since, replaced>>
browserVars == <<vars, loadVars>>

\* A load that has read nothing; run 0 is "no pending run".
NothingRead == [at |-> "idle", run |-> 0, records |-> Nothing]

NoTables == [run |-> 0, staged |-> Nothing, published |-> Nothing]
Tables == [run |-> row.run, staged |-> staged, published |-> published.records]

BrowserInit ==
  /\ Init
  /\ load = NothingRead
  /\ since = NoTables
  /\ replaced = FALSE

Ask ==
  /\ load.at = "idle"
  /\ load' = [load EXCEPT !.at = "first"]
  /\ since' = Tables
  /\ replaced' = FALSE
  /\ UNCHANGED vars

ReadProgress(at, next) ==
  /\ load.at = at
  /\ load' = [load EXCEPT !.at = next, !.run = row.run]
  /\ UNCHANGED <<vars, since, replaced>>

ReadHistory(at, next) ==
  /\ load.at = at
  /\ load' = [load EXCEPT !.at = next, !.records = published.records]
  /\ UNCHANGED <<vars, since, replaced>>

\* Mutant: the history is read before the progress.
ReadHistoryFirst == ReadHistory("first", "second") \/ ReadProgress("second", "read")

Read == ReadProgress("first", "second") \/ ReadHistory("second", "read")

\* The result is shown or, after a move to another contract, dropped; or a read
\* fails, or the application ends.
EndLoad ==
  /\ load.at # "idle"
  /\ load' = NothingRead
  /\ since' = NoTables
  /\ replaced' = FALSE
  /\ UNCHANGED vars

\* A restart gives up the run that was pending when the load was asked for.
GivenUp == row.run # 0 /\ row.run = since.run /\ row'.run \notin {0, row.run}

\* What the tasks of XStocksSync do meanwhile.
Sync ==
  /\ Next
  /\ replaced' = (replaced \/ GivenUp)
  /\ UNCHANGED <<load, since>>

BrowserNext == Ask \/ Read \/ EndLoad \/ Sync

BrowserSpec == BrowserInit /\ [][BrowserNext]_browserVars

-----------------------------------------------------------------------------
(* Properties.                                                             *)

Includes(R, S) == \A f \in Feeds : S[f] \subseteq R[f]

\* What was saved when the user asked is accounted for in what is shown: published
\* records are listed, and staged ones are listed too, or their run is shown as
\* pending, unless it was given up for a new one.  In particular, a run that is
\* published between the two reads does not drop out of both, and "Both feed
\* traversals finished." is never said over a history without them.
LoadMissesNothing ==
  load.at = "read" =>
    /\ Includes(load.records, since.published)
    /\ \/ Includes(load.records, since.staged)
       \/ load.run = since.run
       \/ replaced
=============================================================================
