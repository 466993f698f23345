--------------------------- MODULE ReadInvariants ---------------------------
(***************************************************************************)
(* The inductive invariant behind the theorems about ReadPath.  It needs   *)
(* no hypothesis on overlap, COPY, checksums or eviction.                  *)
(***************************************************************************)
EXTENDS ReadPath, WriteInvariants

Phases == {"idle", "ensure", "pulling", "open", "query", "answered"}

CallTypeOK ==
    call \in [Readers -> [phase : Phases,
                          project : Projects \cup {NoProject},
                          wanted : SUBSET SnapshotIds,
                          files : SUBSET SnapshotIds,
                          promised : SUBSET SnapshotIds,
                          disturbed : BOOLEAN]]

(* An object is in the zone before its snapshot is committed, and for good.*)
PutsPrecedeFlips ==
    /\ \A p \in Pushers : pc[p] \in {"verify", "flip"} => irods[current[p]] # "absent"
    /\ \A id \in SnapshotIds :
          Pushed(id) /\ parquetFile[id] = "named" => irods[id] # "absent"

(* Only pulls bring files to a host that does not write.                   *)
RemoteFilesSettled ==
    \A h \in Hosts \ WriteHosts, id \in SnapshotIds :
       cache[h][id] # "absent" => Settled(id)

(* What a call was promised stays settled, and stays in the zone.          *)
PromisesKept(r) ==
    /\ call[r].wanted \subseteq call[r].promised
    /\ \A id \in call[r].promised :
          /\ Settled(id)
          /\ projectOf[id] = call[r].project
          /\ Pushed(id) => irods[id] # "absent"

FilesSettled(r) ==
    ReaderHostOf[r] \notin WriteHosts => \A id \in call[r].files : Settled(id)

(* The file being pulled is there, though perhaps cut short.               *)
PullUnderWay(r) ==
    call[r].phase = "pulling" =>
       \E id \in call[r].wanted :
          /\ \A other \in call[r].wanted : other <= id
          /\ ~call[r].disturbed => ReaderFile(r, id) # "absent"

Undisturbed(r) ==
    ~call[r].disturbed /\ \A id \in call[r].promised : Pushed(id)

(* Each promised snapshot is still to be visited, then cached, then read.  *)
PromiseOnItsWay(r, id) ==
    /\ call[r].phase \in {"ensure", "pulling"} =>
          id \in call[r].wanted \/ ReaderFile(r, id) # "absent"
    /\ call[r].phase = "open" => ReaderFile(r, id) # "absent"
    /\ call[r].phase \in {"query", "answered"} => id \in call[r].files

CallInv(r) == PromisesKept(r) /\ FilesSettled(r) /\ PullUnderWay(r)

ReadInv ==
    /\ CoreInv
    /\ CallTypeOK
    /\ PutsPrecedeFlips
    /\ RemoteFilesSettled
    /\ \A r \in Readers : CallInv(r)

CallComplete(r) ==
    Undisturbed(r) => \A id \in call[r].promised : PromiseOnItsWay(r, id)

CompleteInv == \A r \in SyncReaders : CallComplete(r)
=============================================================================
