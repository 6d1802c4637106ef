---------------------------- MODULE InvoiceFiles ----------------------------
(***************************************************************************)
(* The stored document of one invoice and one kind (XML or PDF): the object *)
(* in the store and its metadata row, written by SaveWithStatus and removed *)
(* by RemoveCreated, one call to the store or the database at a time, by    *)
(* concurrent callers that may die between any two calls.                   *)
(*                                                                         *)
(* A key names the fiscal code of the document.  The R2 and memory stores   *)
(* put and delete an object at once; the local store links the object and   *)
(* then a ".meta" file with its digest, and deletes them in that order.     *)
(***************************************************************************)
EXTENDS Naturals

CONSTANTS
    Keys,        \* object keys, one per fiscal code
    Contents,    \* digests a caller may bring for a key
    Callers,
    None,
    LocalStore   \* the store is LocalObjectStorage

FilesAssumption ==
    /\ None \notin Keys \cup Contents
    /\ LocalStore \in BOOLEAN

NoRow == [key |-> None, sha |-> None]
Rows == [key : Keys, sha : Contents]

VARIABLES
    object,  \* the content stored under each key
    meta,    \* local store: the digest in the ".meta" file of each key
    row,     \* the invoice_files row of the invoice
    call     \* the running call of each caller

fvars == <<object, meta, row, call>>

Idle == [pc |-> "idle", key |-> None, sha |-> None]
PCs == {"idle", "put", "meta", "create", "undo", "stat", "find", "adopt",
        "held", "row", "object", "meta2"}

At(c, pc) == call[c].pc = pc
Goto(c, pc) == call' = [call EXCEPT ![c].pc = pc]
Return(c) == call' = [call EXCEPT ![c] = Idle]
Key(c) == call[c].key
Sha(c) == call[c].sha

-----------------------------------------------------------------------------
(* The stores. *)

\* What Stat tells of an object that exists.
Digest(k) == IF LocalStore THEN meta[k] ELSE object[k]

\* Put never replaces an object.
MayPut(k) == object[k] = None

Written(k, sha) == object' = [object EXCEPT ![k] = sha]
AfterPut == IF LocalStore THEN "meta" ELSE "create"

RemoveObject(c) ==
    /\ Written(Key(c), None)
    /\ IF LocalStore THEN Goto(c, "meta2") ELSE Return(c)

-----------------------------------------------------------------------------
(* SaveWithStatus. *)

Save(c, k, sha) ==
    /\ At(c, "idle")
    /\ call' = [call EXCEPT ![c] = [pc |-> "put", key |-> k, sha |-> sha]]
    /\ UNCHANGED <<object, meta, row>>

Put(c) ==
    /\ At(c, "put")
    /\ MayPut(Key(c))
    /\ Written(Key(c), Sha(c))
    /\ Goto(c, AfterPut)
    /\ UNCHANGED <<meta, row>>

\* The local store's digest; if it cannot be linked the object is removed.
PutMeta(c) ==
    /\ At(c, "meta")
    /\ \/ /\ meta[Key(c)] = None
          /\ meta' = [meta EXCEPT ![Key(c)] = Sha(c)]
          /\ Goto(c, "create")
          /\ UNCHANGED object
       \/ /\ Written(Key(c), None)
          /\ Return(c)
          /\ UNCHANGED meta
    /\ UNCHANGED row

PutFails(c) ==
    /\ At(c, "put")
    /\ Return(c)
    /\ UNCHANGED <<object, meta, row>>

\* CreateFile: one row per invoice and kind.
CreateFile(c) ==
    /\ At(c, "create")
    /\ row = NoRow
    /\ row' = [key |-> Key(c), sha |-> Sha(c)]
    /\ Goto(c, "held")
    /\ UNCHANGED <<object, meta>>

CreateFails(c) ==
    /\ At(c, "create")
    /\ Goto(c, "undo")
    /\ UNCHANGED <<object, meta, row>>

\* The object of a failed row is deleted, as far as that works.
Undo(c) ==
    /\ At(c, "undo")
    /\ \/ RemoveObject(c)
       \/ Return(c) /\ UNCHANGED object
    /\ UNCHANGED <<meta, row>>

\* The key is taken: the stored digest must be the one brought ...
Exists(c) ==
    /\ At(c, "put")
    /\ object[Key(c)] # None
    /\ Goto(c, "stat")
    /\ UNCHANGED <<object, meta, row>>

AnyDigest(c) == object[Key(c)] # None
SameDigest(c) == object[Key(c)] # None /\ Digest(Key(c)) = Sha(c)

Stat(c) ==
    /\ At(c, "stat")
    /\ IF SameDigest(c) THEN Goto(c, "find") ELSE Return(c)
    /\ UNCHANGED <<object, meta, row>>

\* ... and its row is the one found, or none, in which case it is adopted.
\* What is reused or adopted is not this call's to compensate.
FindFile(c) ==
    /\ At(c, "find")
    /\ IF row = NoRow THEN Goto(c, "adopt") ELSE Return(c)
    /\ UNCHANGED <<object, meta, row>>

Adopt(c) ==
    /\ At(c, "adopt")
    /\ row' = IF row = NoRow THEN [key |-> Key(c), sha |-> Sha(c)] ELSE row
    /\ Return(c)
    /\ UNCHANGED <<object, meta>>

\* A database or store call fails, or the caller dies.
Interrupted(c) ==
    /\ ~At(c, "idle")
    /\ Return(c)
    /\ UNCHANGED <<object, meta, row>>

-----------------------------------------------------------------------------
(* RemoveCreated. *)

\* The enclosing operation commits, or compensates what this call created.
Commit(c) ==
    /\ At(c, "held")
    /\ Return(c)
    /\ UNCHANGED <<object, meta, row>>

Compensate(c) ==
    /\ At(c, "held")
    /\ Goto(c, "row")
    /\ UNCHANGED <<object, meta, row>>

\* discardOnlinePreparation removes whatever row it found.
Discard(c) ==
    /\ At(c, "idle") /\ row # NoRow
    /\ call' = [call EXCEPT ![c] = [pc |-> "row", key |-> row.key, sha |-> row.sha]]
    /\ UNCHANGED <<object, meta, row>>

Without(k) == IF row.key = k THEN NoRow ELSE row

\* The row first, then the object.
DeleteFile(c) ==
    /\ At(c, "row")
    /\ row' = Without(Key(c))
    /\ Goto(c, "object")
    /\ UNCHANGED <<object, meta>>

DeleteObject(c) ==
    /\ At(c, "object")
    /\ RemoveObject(c)
    /\ UNCHANGED <<meta, row>>

DeleteMeta(c) ==
    /\ At(c, "meta2")
    /\ meta' = [meta EXCEPT ![Key(c)] = None]
    /\ Return(c)
    /\ UNCHANGED <<object, row>>

-----------------------------------------------------------------------------
Init ==
    /\ object = [k \in Keys |-> None]
    /\ meta = [k \in Keys |-> None]
    /\ row = NoRow
    /\ call = [c \in Callers |-> Idle]

SaveSteps(c) ==
    \/ \E k \in Keys, sha \in Contents : Save(c, k, sha)
    \/ Put(c) \/ PutMeta(c) \/ PutFails(c) \/ CreateFile(c) \/ CreateFails(c)
    \/ Undo(c) \/ Exists(c) \/ Stat(c) \/ FindFile(c) \/ Adopt(c)

RemoveSteps(c) ==
    \/ Commit(c) \/ Compensate(c) \/ Discard(c)
    \/ DeleteFile(c) \/ DeleteObject(c) \/ DeleteMeta(c)

Next == \E c \in Callers : SaveSteps(c) \/ RemoveSteps(c) \/ Interrupted(c)

Spec == Init /\ [][Next]_fvars

-----------------------------------------------------------------------------
(* Properties. *)

\* Types; a call past its first step carries a key and a digest.
TypeOK ==
    /\ object \in [Keys -> Contents \cup {None}]
    /\ meta \in [Keys -> Contents \cup {None}]
    /\ row \in Rows \cup {NoRow}
    /\ DOMAIN call = Callers
    /\ \A c \in Callers :
          /\ call[c].pc \in PCs
          /\ \/ call[c] = Idle
             \/ Key(c) \in Keys /\ Sha(c) \in Contents

\* The metadata never lists a document the store does not hold: the object is
\* written before its row and removed after it, through any crash.
RowHasObject == row # NoRow => object[row.key] = row.sha

\* The same of the local store, whose ".meta" file may be left from an object
\* that is gone: the key of the row holds an object, if not the digest listed.
RowHasKey == row # NoRow => object[row.key] # None
=============================================================================
