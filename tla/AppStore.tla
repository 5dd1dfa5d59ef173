------------------------------- MODULE AppStore -------------------------------
(***************************************************************************)
(* The private database of one application: key-value entries, documents   *)
(* of collections, and the revision of every collection.  Every operator   *)
(* here is the body of one transaction of KVRepository or                  *)
(* CollectionRepository: what it answers and the database it leaves.       *)
(*                                                                         *)
(* A value is its size.  A document id is drawn at random, so every id is  *)
(* created at most once, in one collection.                                *)
(***************************************************************************)
EXTENDS Integers, FiniteSets, FiniteSetsExt

CONSTANTS
    Keys, Ids, Collections, CollectionOf,
    Values,                  \* values by their size
    KeysPerApp,
    DocumentsPerCollection,
    CollectionsPerApp,
    TotalBytesPerApp,        \* of entries, and again of documents
    Absent

ASSUME ValuesType == Values \subseteq Nat
ASSUME CollectionType == CollectionOf \in [Ids -> Collections]
ASSUME StoreLimits == {KeysPerApp, DocumentsPerCollection, CollectionsPerApp,
                       TotalBytesPerApp} \subseteq Nat
ASSUME NamesDiffer == Keys \cap Ids = {}

Names == Keys \cup Ids
Entries == [val : Values, ver : Nat]
ASSUME AbsentType == Absent \notin Entries
NoVersion == 0    \* no expected version: stored versions are positive

Databases == [rec : [Names -> Entries \cup {Absent}], rev : [Collections -> Nat]]
EmptyDatabase == [rec |-> [n \in Names |-> Absent],
                  rev |-> [c \in Collections |-> 0]]

Present(db, S) == {n \in S : db.rec[n] # Absent}
Bytes(db, S) == MapThenSumSet(LAMBDA n : db.rec[n].val, Present(db, S))
DocumentsOf(c) == {i \in Ids : CollectionOf[i] = c}
Active(db) == {CollectionOf[i] : i \in Present(db, Ids)}

\* What a transaction answers; one that is refused leaves the database alone.
Done(db, ver) == [out |-> "ok", ver |-> ver, db |-> db]
Refused(db, why) == [out |-> why, ver |-> NoVersion, db |-> db]

VersionOf(db, n) == IF db.rec[n] = Absent THEN 0 ELSE db.rec[n].ver
SizeOf(db, n) == IF db.rec[n] = Absent THEN 0 ELSE db.rec[n].val

\* Mutant: a version that is at least the expected one is accepted.
StaleIfOlder(db, n, exp) == exp # NoVersion /\ VersionOf(db, n) < exp

\* A stale expected version, or one for a name that does not exist.
Stale(db, n, exp) == exp # NoVersion /\ VersionOf(db, n) # exp

-----------------------------------------------------------------------------
(***************************************************************************)
(* KVRepository.                                                           *)
(***************************************************************************)

KVGet(db, k) == db.rec[k]

KVSet(db, k, val, exp) ==
    LET ver == VersionOf(db, k) + 1
    IN CASE Stale(db, k, exp) -> Refused(db, "conflict")
         [] ~Stale(db, k, exp)
              /\ \/ /\ db.rec[k] = Absent
                    /\ Cardinality(Present(db, Keys)) >= KeysPerApp
                 \/ Bytes(db, Keys) - SizeOf(db, k) + val > TotalBytesPerApp
              -> Refused(db, "quota")
         [] OTHER -> Done([db EXCEPT !.rec[k] = [val |-> val, ver |-> ver]], ver)

KVDelete(db, k, exp) ==
    CASE Stale(db, k, exp) -> Refused(db, "conflict")
      [] ~Stale(db, k, exp) /\ db.rec[k] = Absent -> Refused(db, "missing")
      [] OTHER -> Done([db EXCEPT !.rec[k] = Absent], VersionOf(db, k) + 1)

-----------------------------------------------------------------------------
(***************************************************************************)
(* CollectionRepository.  The revision of a collection is changed in the   *)
(* transaction of every change, and survives the last of its documents.    *)
(***************************************************************************)

incrementCollectionRevision(rev, c) == [rev EXCEPT ![c] = @ + 1]

Put(db, i, e) == [rec |-> [db.rec EXCEPT ![i] = e],
                  rev |-> incrementCollectionRevision(db.rev, CollectionOf[i])]

GetDocument(db, i) == db.rec[i]

CreateDocument(db, i, val) ==
    LET c == CollectionOf[i]
    IN CASE db.rec[i] # Absent -> Refused(db, "exists")   \* the primary key
         [] db.rec[i] = Absent
              /\ \/ Cardinality(Present(db, DocumentsOf(c))) >= DocumentsPerCollection
                 \/ Bytes(db, Ids) + val > TotalBytesPerApp
                 \/ c \notin Active(db) /\ Cardinality(Active(db)) >= CollectionsPerApp
              -> Refused(db, "quota")
         [] OTHER -> Done(Put(db, i, [val |-> val, ver |-> 1]), 1)

UpdateDocument(db, i, val, exp) ==
    LET ver == VersionOf(db, i) + 1
        stale == db.rec[i] = Absent \/ Stale(db, i, exp)
    IN CASE stale -> Refused(db, "conflict")
         [] ~stale /\ Bytes(db, Ids) - SizeOf(db, i) + val > TotalBytesPerApp
              -> Refused(db, "quota")
         [] OTHER -> Done(Put(db, i, [val |-> val, ver |-> ver]), ver)

DeleteDocument(db, i, exp) ==
    CASE Stale(db, i, exp) -> Refused(db, "conflict")
      [] ~Stale(db, i, exp) /\ db.rec[i] = Absent -> Refused(db, "missing")
      [] OTHER -> Done(Put(db, i, Absent), VersionOf(db, i) + 1)

-----------------------------------------------------------------------------
\* A mutation: of an entry, or of a document of a collection.
Mutations ==
    [kind : {"set"}, name : Keys, val : Values, exp : Nat]
      \cup [kind : {"create", "update"}, name : Ids, val : Values, exp : Nat]
      \cup [kind : {"delete"}, name : Names, val : {0}, exp : Nat]

Apply(db, m) ==
    CASE m.kind = "set" -> KVSet(db, m.name, m.val, m.exp)
      [] m.kind = "create" -> CreateDocument(db, m.name, m.val)
      [] m.kind = "update" -> UpdateDocument(db, m.name, m.val, m.exp)
      [] m.kind = "delete" /\ m.name \in Keys -> KVDelete(db, m.name, m.exp)
      [] m.kind = "delete" /\ m.name \in Ids -> DeleteDocument(db, m.name, m.exp)
=============================================================================
