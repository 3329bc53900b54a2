------------------------------- MODULE Store -------------------------------
(***************************************************************************)
(* The redb store of one node (src/src/store.rs): the RECORDS table and    *)
(* the KEY_NEXT counter of the META table.  Every operation is one redb    *)
(* transaction, so it happens entirely or not at all, also across a crash. *)
(***************************************************************************)
EXTENDS Proto, FiniteSetsExt

VARIABLES
    records,      \* RECORDS: handle -> persisted Record, or NoRecord
    next_handle   \* META[KEY_NEXT], 0 when it was never written

storeVars == <<records, next_handle>>

Record == [pid : Pid, status : ProcState]
NoRecord == [pid |-> NoPid, status |-> "none"]

\* The handles that have a record on disk.
Keys == {h \in Handle : records[h] # NoRecord}

StoreTypeOK ==
    /\ records \in [Handle -> Record \cup {NoRecord}]
    /\ next_handle \in 0 .. MaxHandle

\* A freshly created store file.
StoreInit ==
    /\ records = [h \in Handle |-> NoRecord]
    /\ next_handle = 0

----------------------------------------------------------------------------
\* A faulty put that does not overwrite the record of an earlier incarnation.
PutOnce(h, pid, status) ==
    /\ IF records[h] = NoRecord
       THEN records' = [records EXCEPT ![h] = [pid |-> pid, status |-> status]]
       ELSE UNCHANGED records
    /\ next_handle' = h

\* Store::put.  The counter is set to the handle written, whatever it was: a
\* relaunch of an old handle moves it back.
Put(h, pid, status) ==
    /\ records' = [records EXCEPT ![h] = [pid |-> pid, status |-> status]]
    /\ next_handle' = h

\* Store::remove.  KEY_NEXT is left alone.
Remove(h) ==
    /\ records' = [records EXCEPT ![h] = NoRecord]
    /\ UNCHANGED next_handle

\* Store::set_status: a no-op when the record is gone.
SetStatus(h, status) ==
    /\ IF records[h] # NoRecord
       THEN records' = [records EXCEPT ![h].status = status]
       ELSE UNCHANGED records
    /\ UNCHANGED next_handle

\* The faulty variant Store::load had to be protected from: trust KEY_NEXT.
StoredCounterOnly == next_handle

\* The next_handle of Store::load: the larger of KEY_NEXT and the highest key.
LoadedNextHandle == Max({next_handle, 0} \cup Keys)
============================================================================
