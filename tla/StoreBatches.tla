---------------------------- MODULE StoreBatches ----------------------------
(***************************************************************************)
(* The write batches of a store (pdn-store store/fs.rs, fs/tables.rs): which   *)
(* writes are in the open transaction, which a reader sees, and which are on   *)
(* disk.  Pure operators over a record                                         *)
(*   disk      the writes a crash leaves,                                      *)
(*   seen      the writes committed, synced or not,                            *)
(*   batch     those of the open write transaction,                            *)
(*   open      whether there is one, and old whether it is past its delay,     *)
(*   unsynced  "no", "young" or "due": the age of the oldest unsynced commit,  *)
(*   broken    whether redb refuses every further commit, as it does after an  *)
(*             I/O error.                                                      *)
(* An operator answers the store after it and whether it succeeded; fails says *)
(* that a commit it makes fails.  A read transaction kept for reuse shows what  *)
(* is seen, so it is not told apart from none.                                 *)
(***************************************************************************)

Opened(kept) ==
    [disk |-> kept, seen |-> kept, batch |-> {}, open |-> FALSE, old |-> FALSE,
     unsynced |-> "no", broken |-> FALSE]

Answer(db, ok) == [db |-> db, ok |-> ok]

Closed(db) == [db EXCEPT !.open = FALSE, !.old = FALSE, !.batch = {}]

\* A commit that went through, synced or not.
Committed(db, synced) ==
    LET now == db.seen \cup db.batch IN
    [Closed(db) EXCEPT !.seen = now,
                       !.disk = IF synced THEN now ELSE @,
                       !.unsynced = IF synced THEN "no" ELSE IF @ = "no" THEN "young" ELSE @]

FinishWrite(db, synced, fails) ==
    IF db.batch = {} THEN Answer(Closed(db), TRUE)
    ELSE IF fails \/ db.broken THEN Answer([Closed(db) EXCEPT !.broken = TRUE], FALSE)
    ELSE Answer(Committed(db, synced \/ db.old \/ db.unsynced = "due"), TRUE)

\* The batch, then an empty synced commit for the unsynced ones before it.
CommitAndSync(db, fails) ==
    LET written == FinishWrite(db, TRUE, fails) IN
    IF ~written.ok \/ written.db.unsynced = "no" THEN written
    ELSE IF fails \/ db.broken THEN Answer([written.db EXCEPT !.broken = TRUE], FALSE)
    ELSE Answer(Committed(written.db, TRUE), TRUE)

\* A failed sync is due again a delay later.
Flush(db, fails) ==
    LET done == CommitAndSync(db, fails) IN
    IF done.ok \/ done.db.unsynced = "no" THEN done
    ELSE Answer([done.db EXCEPT !.unsynced = "young"], FALSE)

Snapshot(db, fails) == FinishWrite(db, FALSE, fails)

\* The transaction to read or write the tables in.
CurrentWrite(db, fails) ==
    LET fresh == IF db.open THEN FinishWrite(db, TRUE, fails) ELSE Answer(db, TRUE) IN
    IF db.open /\ ~db.old THEN Answer(db, TRUE)
    ELSE IF ~fresh.ok \/ fresh.db.broken THEN Answer(fresh.db, FALSE)
    ELSE Answer([fresh.db EXCEPT !.open = TRUE], TRUE)

Modify(db, writes, fails) ==
    LET current == CurrentWrite(db, fails) IN
    IF ~current.ok THEN current
    ELSE Answer([current.db EXCEPT !.batch = @ \cup writes], TRUE)

\* Whether the operator commits something that may fail.
Commits(db) == db.batch # {}
CommitsOrSyncs(db) == db.batch # {} \/ db.unsynced # "no"

\* What a start after a crash opens, and what a crash loses.
Crashed(db) == Opened(db.disk)
=============================================================================
