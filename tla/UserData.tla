------------------------------ MODULE UserData ------------------------------
(***************************************************************************)
(* What the user keeps: snapshots of wallet overviews, and entries that    *)
(* are kept by a key (watched wallets, notes, saved views).  Each window is*)
(* of another process over the same database.  The two halves share no     *)
(* state: SnapshotsNext and EntriesNext are two state machines.            *)
(***************************************************************************)
EXTENDS Integers, FiniteSets

CONSTANTS
  Window,
  Accounts,       \* wallets, each an address on a chain
  MaxBalance,     \* largest balance of the one token there is; 0 is not listed
  MaxSnapshots, MaxLoads, MaxRemovals, MaxEntries,   \* bounds
  NoAccount

ASSUME UserDataAssumption ==
  /\ {MaxBalance, MaxSnapshots, MaxLoads, MaxRemovals, MaxEntries} \subseteq Nat
  /\ NoAccount \notin Accounts /\ Accounts # {}

VARIABLES
  snapshots,    \* the table
  lastId,       \* the last id the table has given
  overview,     \* [window -> its overview page]
  album,        \* [window -> its snapshots page]
  spentOn       \* bounds used up

snapshotVars == <<snapshots, lastId, overview, album, spentOn>>

\* The form's wallet, the one being loaded, the one last loaded with its balance.
NoOverview(account) == [form |-> account, pending |-> NoAccount, loaded |-> NoAccount,
                        input |-> NoAccount, tokens |-> 0]
\* Rows listed, rows selected, a pruning between its two statements.
NoAlbum == [listed |-> {}, picked |-> {}, pruning |-> NoAccount, protected |-> {}]

SnapshotsInit ==
  /\ snapshots = {} /\ lastId = 0
  /\ overview = [w \in Window |-> NoOverview(CHOOSE a \in Accounts : TRUE)]
  /\ album = [w \in Window |-> NoAlbum]
  /\ spentOn = [loads |-> 0, removals |-> 0]

Spending(what, bound) == spentOn[what] < bound /\ spentOn' = [spentOn EXCEPT ![what] = @ + 1]
Loading(w) == overview[w].pending # NoAccount
Free(w) == album[w].pruning = NoAccount
RowsOf(rows, account) == {s \in rows : s.account = account}

-----------------------------------------------------------------------------
(* The overview page.                                                      *)

\* The inputs are disabled while a wallet is loading.
EditForm(w, account) ==
  /\ Free(w) /\ ~Loading(w) /\ account # overview[w].form
  /\ overview' = [overview EXCEPT ![w].form = account]
  /\ UNCHANGED <<snapshots, lastId, album, spentOn>>

LoadWallet(w) ==
  /\ Free(w) /\ ~Loading(w) /\ Spending("loads", MaxLoads)
  /\ overview' = [overview EXCEPT ![w].pending = overview[w].form]
  /\ UNCHANGED <<snapshots, lastId, album>>

\* Another page opens a wallet here: it goes into the form also while loading.
OpenInOverview(w, account) ==
  /\ Free(w)
  /\ IF Loading(w)
       THEN overview' = [overview EXCEPT ![w].form = account] /\ UNCHANGED spentOn
       ELSE overview' = [overview EXCEPT ![w].form = account, ![w].pending = account]
              /\ Spending("loads", MaxLoads)
  /\ UNCHANGED <<snapshots, lastId, album>>

\* Mutant: the input is remembered when the wallet has come.
InputAtTheEnd(w) == overview[w].form

LoadedInput(w) == overview[w].pending

\* With what the wallet holds by then.
WalletLoaded(w) ==
  /\ Free(w) /\ Loading(w)
  /\ \E tokens \in 0..MaxBalance :
       overview' = [overview EXCEPT ![w].pending = NoAccount, ![w].loaded = overview[w].pending,
                      ![w].input = LoadedInput(w), ![w].tokens = tokens]
  /\ UNCHANGED <<snapshots, lastId, album, spentOn>>

WalletLoadError(w) ==
  /\ Free(w) /\ Loading(w)
  /\ overview' = [overview EXCEPT ![w] = NoOverview(overview[w].form)]
  /\ UNCHANGED <<snapshots, lastId, album, spentOn>>

\* Mutant: ids are used again.
HighestId == IF snapshots = {} THEN 0 ELSE CHOOSE i \in {s.id : s \in snapshots} :
                                             \A s \in snapshots : s.id <= i

\* INTEGER PRIMARY KEY AUTOINCREMENT.
LastId == lastId

InsertSnapshot(row) == snapshots' = snapshots \cup {row} /\ lastId' = row.id

\* Refused unless the form still names the wallet that was loaded.  The clock
\* may have been set back.
SaveSnapshot(w, now) ==
  LET page == overview[w]
      row == [id |-> LastId + 1, account |-> page.loaded, at |-> now, tokens |-> page.tokens]
  IN  /\ Free(w) /\ ~Loading(w) /\ lastId < MaxSnapshots
      /\ page.loaded # NoAccount /\ page.form = page.input
      /\ InsertSnapshot(row)
  /\ UNCHANGED <<overview, album, spentOn>>

-----------------------------------------------------------------------------
(* The snapshots page.                                                     *)

\* The rows read, with what was selected of them still selected.
Reloaded(page, rows, account) ==
  LET listed == RowsOf(rows, account)
  IN  [NoAlbum EXCEPT !.listed = listed,
         !.picked = {s \in listed : s.id \in {t.id : t \in page.picked}}]

RefreshSnapshots(w, account) ==
  /\ Free(w) /\ album' = [album EXCEPT ![w] = Reloaded(album[w], snapshots, account)]
  /\ UNCHANGED <<snapshots, lastId, overview, spentOn>>

PickSnapshots(w) ==
  /\ Free(w)
  /\ \E rows \in SUBSET album[w].listed : Cardinality(rows) <= 2 /\ album' = [album EXCEPT ![w].picked = rows]
  /\ UNCHANGED <<snapshots, lastId, overview, spentOn>>

\* By id, one after the other; then the list is read with nothing selected.
DeleteSelected(w, account) ==
  LET picked == album[w].picked
      kept == {s \in snapshots : s.id \notin {t.id : t \in picked}}
  IN  /\ Free(w) /\ picked # {} /\ Spending("removals", MaxRemovals)
      /\ snapshots' = kept
      /\ album' = [album EXCEPT ![w] = Reloaded([album[w] EXCEPT !.picked = {}], kept, account)]
  /\ UNCHANGED <<lastId, overview>>

Later(s, t) == s.at > t.at \/ (s.at = t.at /\ s.id > t.id)
Newest(rows, n) == {s \in rows : Cardinality({t \in rows : Later(t, s)}) < n}

\* The first statement reads which rows stay.  None has to stay when the
\* wallet has none or when 0 is asked for; then there is one statement only.
PruneSnapshots(w, account, keep) ==
  /\ Free(w) /\ Spending("removals", MaxRemovals)
  /\ album' = [album EXCEPT ![w].pruning = account, ![w].protected = Newest(RowsOf(snapshots, account), keep)]
  /\ UNCHANGED <<snapshots, lastId, overview>>

\* The second deletes the others, those that came in between included.
PruneRest(w) ==
  LET page == album[w]
      kept == {s \in snapshots : s.account # page.pruning \/ s.id \in {t.id : t \in page.protected}}
  IN  /\ ~Free(w)
      /\ snapshots' = kept
      /\ album' = [album EXCEPT ![w] = Reloaded(page, kept, page.pruning)]
  /\ UNCHANGED <<lastId, overview, spentOn>>

SnapshotsNext ==
  \/ \E w \in Window : LoadWallet(w) \/ WalletLoaded(w) \/ WalletLoadError(w)
                         \/ PickSnapshots(w) \/ PruneRest(w)
  \/ \E w \in Window, now \in {0, 1} : SaveSnapshot(w, now)
  \/ \E w \in Window, a \in Accounts : EditForm(w, a) \/ OpenInOverview(w, a)
                         \/ RefreshSnapshots(w, a) \/ DeleteSelected(w, a)
  \/ \E w \in Window, a \in Accounts, keep \in {0, 1} : PruneSnapshots(w, a, keep)

-----------------------------------------------------------------------------
(* SnapshotCompareService.                                                 *)

\* Mutant: snapshots of the same time are compared as they were selected.
OrderedByTime(first, second) ==
  IF second.at < first.at THEN <<second, first>> ELSE <<first, second>>

Ordered(first, second) ==
  IF Later(first, second) THEN <<second, first>> ELSE <<first, second>>

ChangeType(before, after) ==
  IF before = 0 /\ after > 0 THEN "added"
  ELSE IF before > 0 /\ after = 0 THEN "removed"
  ELSE IF before # after THEN "changed" ELSE "unchanged"

Compare(first, second) ==
  LET pair == Ordered(first, second)
  IN  [older |-> pair[1].id, newer |-> pair[2].id,
       change |-> ChangeType(pair[1].tokens, pair[2].tokens)]

-----------------------------------------------------------------------------
(* Entries kept by a key: the watchlist and notes by wallet, saved views by*)
(* name.  Texts are FALSE and TRUE.                                        *)

VARIABLES
  entries,   \* the rows: id, key and text
  lastEntry, \* the last id given
  desk       \* [window -> the rows it lists, the one selected, its form]

entryVars == <<entries, lastEntry, desk>>

NoEntry == [id |-> 0, key |-> NoAccount, text |-> FALSE]
EntriesInit ==
  /\ entries = {} /\ lastEntry = 0
  /\ desk = [w \in Window |-> [listed |-> {}, selected |-> NoEntry, form |-> NoEntry]]

\* Selecting an entry puts it into the form, also when a reload selects it again.
Selecting(w, listed, entry) ==
  desk' = [desk EXCEPT ![w] = [listed |-> listed, selected |-> entry,
                               form |-> IF entry = NoEntry THEN desk[w].form ELSE [entry EXCEPT !.id = 0]]]

\* A reload selects the row with the id, if it is still there.
ReloadEntries(w, rows, id) ==
  LET found == {e \in rows : e.id = id}
  IN  Selecting(w, rows, IF found = {} THEN NoEntry ELSE CHOOSE e \in found : TRUE)

EditEntry(w) ==
  /\ \E k \in Accounts, text \in BOOLEAN : desk' = [desk EXCEPT ![w].form = [id |-> 0, key |-> k, text |-> text]]
  /\ UNCHANGED <<entries, lastEntry>>

OfKey(key) == {e \in entries : e.key = key}

\* An upsert: the row of the key keeps its id.
Upserted(form) ==
  [form EXCEPT !.id = IF OfKey(form.key) = {} THEN lastEntry + 1 ELSE (CHOOSE e \in OfKey(form.key) : TRUE).id]

SaveEntry(w) ==
  LET row == Upserted(desk[w].form)
      rows == (entries \ OfKey(row.key)) \cup {row}
  IN  /\ row.key # NoAccount /\ row.id <= MaxEntries
      /\ entries' = rows /\ lastEntry' = IF OfKey(row.key) = {} THEN row.id ELSE lastEntry
      /\ ReloadEntries(w, rows, row.id)

SelectEntry(w) ==
  /\ \E e \in desk[w].listed : Selecting(w, desk[w].listed, e)
  /\ UNCHANGED <<entries, lastEntry>>

\* A note is loaded for the key in the form.
LoadEntry(w) ==
  /\ \E e \in entries : e.key = desk[w].form.key /\ desk' = [desk EXCEPT ![w].form = [e EXCEPT !.id = 0]]
  /\ UNCHANGED <<entries, lastEntry>>

RemovedKey(w) == desk[w].selected.key

RemoveEntry(w) ==
  LET rows == entries \ OfKey(RemovedKey(w))
  IN  /\ desk[w].selected # NoEntry
      /\ entries' = rows
      /\ ReloadEntries(w, rows, desk[w].selected.id)
  /\ UNCHANGED lastEntry

RefreshEntries(w) ==
  /\ ReloadEntries(w, entries, desk[w].selected.id)
  /\ UNCHANGED <<entries, lastEntry>>

EntriesNext ==
  \E w \in Window :
    \/ EditEntry(w) \/ SaveEntry(w) \/ SelectEntry(w) \/ LoadEntry(w)
    \/ RemoveEntry(w) \/ RefreshEntries(w)

UserDataSpec ==
  /\ SnapshotsInit /\ EntriesInit
  /\ [][\/ SnapshotsNext /\ UNCHANGED entryVars
        \/ EntriesNext /\ UNCHANGED snapshotVars]_<<snapshotVars, entryVars>>

-----------------------------------------------------------------------------
(* Correctness.                                                            *)

(* What is removed is what the user saw selected: a snapshot that the      *)
(* snapshots page deletes is the very row in its list, also when another   *)
(* process has deleted and saved snapshots since it was read, and pruning  *)
(* never takes a row it found among the newest; an entry goes only by the  *)
(* key of the selected one, whatever the form says by then.                *)
OnlySelectedIsRemoved ==
  [][/\ \A s \in snapshots \ snapshots' : \E w \in Window :
          \/ s \in album[w].picked
          \/ s.account = album[w].pruning /\ s \notin album[w].protected
     /\ \A e \in entries : e.key \notin {x.key : x \in entries'}
          => \E w \in Window : e.key = desk[w].selected.key]_<<snapshotVars, entryVars>>

(* A snapshot is kept under the wallet that its balances are of and that   *)
(* the form names when it is saved, although other pages may put another   *)
(* wallet into the form in the middle of a load.                           *)
SnapshotIsOfItsForm ==
  [][\A s \in snapshots' \ snapshots : \E w \in Window :
       s.account = overview[w].form /\ s.account = overview[w].loaded]_snapshotVars

(* A comparison of two snapshots does not depend on the order they were    *)
(* selected in, also for snapshots of the same time.                       *)
ComparisonIgnoresOrder ==
  \A w \in Window : \A s, t \in album[w].picked :
    s.account = t.account => Compare(s, t) = Compare(t, s)
=============================================================================
