-------------------------- MODULE LocalCommandsProofs --------------------------
(***************************************************************************)
(* Proofs about what runs on the user's machine besides the workflow.      *)
(*                                                                         *)
(* The local files, for any number of commands that run at once, of names  *)
(* for backups, of changes the user makes and of kills and power failures: *)
(* what nobody raced for is never torn, and what was whole once is kept.   *)
(*                                                                         *)
(* The inbox, for any files, limits and candidates: a plan that is ready   *)
(* is kept by the collection after it.                                     *)
(***************************************************************************)
EXTENDS LocalCommands, FiniteSetTheorems, TLAPS

-------------------------------------------------------------------------------
(***************************************************************************)
(* Types.                                                                  *)
(***************************************************************************)
Configs == {Config(n, e) : n \in 0 .. MaxEdits, e \in Entries \cup {None}}
Contents == [1 .. 2 -> Documents \cup {None}]
Disks == [inode : [Names -> Inodes \cup {None}], data : [Inodes -> Contents],
          synced : SUBSET Inodes]
Writers == {"export", "refresh", "install"}
Writing == {"write", "finish"}
Steps == {"idle", "clear", "create", "backup", "open", "write", "finish", "replace"}
Jobs == [kind : Writers \cup {None}, at : Steps, name : Names \cup {None},
         inode : Inodes \cup {None}, doc : Documents \cup {None},
         original : Configs \cup {None}, entry : Entries \cup {None}]

TypesOK ==
    /\ disk \in Disks
    /\ job \in [Clients -> Jobs]
    /\ edits \in 0 .. MaxEdits /\ settled \in 0 .. edits /\ deaths \in 0 .. MaxDeaths
    /\ receipts \subseteq Documents /\ raced \subseteq Destinations
    /\ powerLost \in BOOLEAN

LEMMA NamesAre ==
    ASSUME FilesAreGiven
    PROVE  /\ Names = {"archive", "reference", "config", "reference.tmp", "config.tmp"} \cup Backups
           /\ "archive" \notin Backups /\ "reference" \notin Backups /\ "config" \notin Backups
           /\ "reference.tmp" \notin Backups /\ "config.tmp" \notin Backups
           /\ Temporary.reference = "reference.tmp" /\ Temporary.config = "config.tmp"
           /\ Temporary["reference"] = "reference.tmp" /\ Temporary["config"] = "config.tmp"
           /\ None \notin Names /\ None \notin Writers
           /\ Destinations \subseteq Names /\ \A d \in Destinations : Temporary[d] \in Names \ Destinations
<1>1. /\ Temporary.reference = "reference.tmp" /\ Temporary.config = "config.tmp"
      /\ Temporary["reference"] = "reference.tmp" /\ Temporary["config"] = "config.tmp"
  BY DEF Temporary
<1>2. {Temporary[d] : d \in Destinations} = {"reference.tmp", "config.tmp"}
  BY <1>1 DEF Destinations
<1>3. /\ Names = {"archive", "reference", "config", "reference.tmp", "config.tmp"} \cup Backups
      /\ "archive" \notin Backups /\ "reference" \notin Backups /\ "config" \notin Backups
      /\ "reference.tmp" \notin Backups /\ "config.tmp" \notin Backups
      /\ None \notin Names /\ None \notin Writers
  BY <1>2 DEF FilesAreGiven, Names, Destinations, Writers
<1>4. Destinations \subseteq Names /\ \A d \in Destinations : Temporary[d] \in Names \ Destinations
  BY <1>1, <1>3 DEF Destinations
<1> QED BY <1>1, <1>3, <1>4

LEMMA ConfigsAre ==
    ASSUME FilesAreGiven
    PROVE  /\ Configs \subseteq Documents /\ None \notin Documents /\ None \notin Configs
           /\ NoServers \in Configs
           /\ \A doc \in Configs : \A e \in Entries \cup {None} :
                 doc[2] \in 0 .. MaxEdits /\ doc[3] \in Entries \cup {None} /\ Config(doc[2], e) \in Configs
           /\ \A n \in 0 .. MaxEdits : \A e \in Entries \cup {None} :
                 Config(n, e) \in Configs /\ Config(n, e)[2] = n /\ Config(n, e)[3] = e
           /\ \A doc \in Configs : doc = Config(doc[2], doc[3])
<1>1. \A n, e : Config(n, e)[2] = n /\ Config(n, e)[3] = e
  BY DEF Config
<1>2. \A doc \in Configs : \E n \in 0 .. MaxEdits, e \in Entries \cup {None} : doc = Config(n, e)
  BY DEF Configs
<1>3. \A n \in 0 .. MaxEdits : \A e \in Entries \cup {None} : Config(n, e) \in Configs
  BY DEF Configs
<1>4. NoServers \in Configs
  BY <1>3 DEF NoServers, FilesAreGiven
<1>5. Configs \subseteq Documents /\ None \notin Documents
  BY DEF Configs, Documents, FilesAreGiven
<1> QED BY <1>1, <1>2, <1>3, <1>4, <1>5

-------------------------------------------------------------------------------
(***************************************************************************)
(* What the operations of the file system do.                              *)
(***************************************************************************)
LEMMA EmptyIs == Empty \in Contents /\ Empty[1] = None /\ Empty[2] = None
BY DEF Empty, Contents

LEMMA CreatedIs ==
    ASSUME NEW d \in Disks, NEW name \in Names, NEW i \in Inodes
    PROVE  LET new == Created(d, name, i)
           IN  /\ new \in Disks
               /\ new.inode = [d.inode EXCEPT ![name] = i]
               /\ new.data = [d.data EXCEPT ![i] = Empty]
               /\ new.synced = d.synced \ {i}
BY EmptyIs DEF Created, Disks

LEMMA TruncatedIs ==
    ASSUME NEW d \in Disks, NEW i \in Inodes
    PROVE  LET new == Truncated(d, i)
           IN  /\ new \in Disks
               /\ new.inode = d.inode
               /\ new.data = [d.data EXCEPT ![i] = Empty]
               /\ new.synced = d.synced \ {i}
BY EmptyIs DEF Truncated, Disks

LEMMA WrittenIs ==
    ASSUME NEW d \in Disks, NEW i \in Inodes, NEW half \in 1 .. 2, NEW doc \in Documents \cup {None}
    PROVE  LET new == Written(d, i, half, doc)
           IN  /\ new \in Disks
               /\ new.inode = d.inode
               /\ \A o \in Inodes \ {i} : new.data[o] = d.data[o]
               /\ new.data[i][half] = doc
               /\ \A h \in (1 .. 2) \ {half} : new.data[i][h] = d.data[i][h]
               /\ new.synced = d.synced \ {i}
<1> DEFINE new == Written(d, i, half, doc)
<1> DEFINE first == [d EXCEPT !.data = [d.data EXCEPT ![i] = [d.data[i] EXCEPT ![half] = doc]]]
<1>0. /\ first.inode = d.inode /\ first.synced = d.synced
      /\ first.data = [d.data EXCEPT ![i] = [d.data[i] EXCEPT ![half] = doc]]
      /\ first = [inode |-> first.inode, data |-> first.data, synced |-> first.synced]
  BY DEF Disks
<1>a. new = [first EXCEPT !.synced = first.synced \ {i}]
  BY Zenon DEF Written
<1>1. /\ new.inode = d.inode /\ new.data = [d.data EXCEPT ![i] = [d.data[i] EXCEPT ![half] = doc]]
      /\ new.synced = d.synced \ {i}
      /\ new = [inode |-> new.inode, data |-> new.data, synced |-> new.synced]
  BY <1>0, <1>a
<1>2. d.data \in [Inodes -> Contents] /\ d.data[i] \in Contents
  BY DEF Disks
<1>3. [d.data[i] EXCEPT ![half] = doc] \in Contents
  BY <1>2 DEF Contents
<1>4. new \in Disks
  BY <1>1, <1>2, <1>3 DEF Disks
<1> QED BY <1>1, <1>2, <1>4 DEF Contents

LEMMA SyncedIs ==
    ASSUME NEW d \in Disks, NEW i \in Inodes
    PROVE  LET new == Synced(d, i)
           IN  /\ new \in Disks
               /\ new.inode = d.inode /\ new.data = d.data
               /\ new.synced = d.synced \cup {i}
BY DEF Synced, Disks

LEMMA UnlinkedIs ==
    ASSUME NEW d \in Disks, NEW name \in Names
    PROVE  LET new == Unlinked(d, name)
           IN  /\ new \in Disks
               /\ new.inode = [d.inode EXCEPT ![name] = None]
               /\ new.data = d.data /\ new.synced = d.synced
BY DEF Unlinked, Disks

LEMMA RenamedIs ==
    ASSUME NEW d \in Disks, NEW from \in Names, NEW to \in Names \ {from}
    PROVE  LET new == Renamed(d, from, to)
           IN  /\ new \in Disks
               /\ new.inode = [[d.inode EXCEPT ![to] = d.inode[from]] EXCEPT ![from] = None]
               /\ new.data = d.data /\ new.synced = d.synced
BY DEF Renamed, Disks

\* What is in use keeps its content when the rest is reclaimed.
KeepsUsed(new, jobs, d) ==
    /\ new \in Disks /\ new.inode = d.inode
    /\ \A n \in Names : d.inode[n] # None =>
          new.data[d.inode[n]] = d.data[d.inode[n]] /\ (d.inode[n] \in d.synced => d.inode[n] \in new.synced)
    /\ \A c \in Clients : jobs[c].inode # None =>
          /\ new.data[jobs[c].inode] = d.data[jobs[c].inode]
          /\ jobs[c].inode \in d.synced => jobs[c].inode \in new.synced

LEMMA ReclaimedIs ==
    ASSUME NEW d \in Disks, NEW jobs \in [Clients -> Jobs]
    PROVE  KeepsUsed(Reclaimed(d, jobs), jobs, d)
<1> DEFINE used == Linked(d) \cup Opened(jobs)
           new == Reclaimed(d, jobs)
<1>1. /\ new.inode = d.inode
      /\ new.data = [i \in Inodes |-> IF i \in used THEN d.data[i] ELSE Empty]
      /\ new.synced = d.synced \cap used
      /\ new = [inode |-> new.inode, data |-> new.data, synced |-> new.synced]
  BY Zenon DEF Reclaimed
<1>2. new \in Disks
  <2>1. /\ d.inode \in [Names -> Inodes \cup {None}] /\ d.synced \subseteq Inodes
        /\ \A i \in Inodes : d.data[i] \in Contents
    BY DEF Disks
  <2>2. \A i \in Inodes : (IF i \in used THEN d.data[i] ELSE Empty) \in Contents
    BY <2>1, EmptyIs
  <2> HIDE DEF new, used
  <2> QED BY <1>1, <2>1, <2>2 DEF Disks
<1>3. ASSUME NEW i \in Inodes, i \in used
      PROVE  new.data[i] = d.data[i] /\ (i \in d.synced => i \in new.synced)
  BY <1>1, <1>3
<1>4. \A n \in Names : d.inode[n] # None => d.inode[n] \in Inodes /\ d.inode[n] \in used
  BY DEF Linked, Disks
<1>5. \A c \in Clients : jobs[c].inode # None => jobs[c].inode \in Inodes /\ jobs[c].inode \in used
  BY DEF Opened, Jobs
<1> QED BY <1>1, <1>2, <1>3, <1>4, <1>5 DEF KeepsUsed

LEMMA DoIs ==
    ASSUME NEW c \in Clients, NEW d \in Disks, NEW r \in Jobs, job \in [Clients -> Jobs], Do(c, d, r)
    PROVE  /\ job' \in [Clients -> Jobs] /\ job'[c] = r
           /\ \A e \in Clients \ {c} : job'[e] = job[e]
           /\ KeepsUsed(disk', job', d)
<1>1. job' = [job EXCEPT ![c] = r] /\ disk' = Reclaimed(d, job')
  BY DEF Do
<1>2. job' \in [Clients -> Jobs]
  BY <1>1
<1> QED BY <1>1, <1>2, ReclaimedIs

\* There is always a new inode.
LEMMA NewInodeIs ==
    ASSUME FilesAreGiven, TypesOK
    PROVE  /\ NewInode \in Inodes
           /\ \A n \in Names : disk.inode[n] # NewInode
           /\ \A c \in Clients : job[c].inode # NewInode
<1> DEFINE linked == {disk.inode[n] : n \in Names}
           opened == {job[c].inode : c \in Clients}
<1>1. IsFiniteSet(Names) /\ IsFiniteSet(Clients)
  <2>1. IsFiniteSet({"archive", "reference", "config"})
    <3>1. IsFiniteSet({"archive"})
      BY FS_Singleton
    <3>2. IsFiniteSet({"archive"} \cup {"reference"})
      BY <3>1, FS_AddElement
    <3>3. IsFiniteSet(({"archive"} \cup {"reference"}) \cup {"config"})
      BY <3>2, FS_AddElement
    <3>4. /\ {"archive"} \cup {"reference"} = {"archive", "reference"}
          /\ ({"archive"} \cup {"reference"}) \cup {"config"} = {"archive", "reference", "config"}
      OBVIOUS
    <3> QED BY <3>1, <3>2, <3>3, <3>4
  <2>2. IsFiniteSet({"archive", "reference", "config"} \cup {"reference.tmp"})
    BY <2>1, FS_AddElement
  <2>3. IsFiniteSet(({"archive", "reference", "config"} \cup {"reference.tmp"}) \cup {"config.tmp"})
    BY <2>2, FS_AddElement
  <2>4. IsFiniteSet(Backups) /\ IsFiniteSet(Clients)
    BY DEF FilesAreGiven
  <2>5. IsFiniteSet((({"archive", "reference", "config"} \cup {"reference.tmp"}) \cup {"config.tmp"})
                    \cup Backups)
    BY <2>3, <2>4, FS_Union
  <2>6. Names = (({"archive", "reference", "config"} \cup {"reference.tmp"}) \cup {"config.tmp"})
                \cup Backups
    BY NamesAre
  <2> QED BY <2>4, <2>5, <2>6
<1>2. IsFiniteSet(linked) /\ Cardinality(linked) <= Cardinality(Names)
  <2>1. disk.inode \in Surjection(Names, linked)
    BY DEF Surjection, TypesOK, Disks
  <2> QED BY <1>1, <2>1, FS_Surjection
<1>3. IsFiniteSet(opened) /\ Cardinality(opened) <= Cardinality(Clients)
  <2>1. [c \in Clients |-> job[c].inode] \in Surjection(Clients, opened)
    BY DEF Surjection
  <2> QED BY <1>1, <2>1, FS_Surjection
<1>4. IsFiniteSet(linked \cup opened) /\ Cardinality(linked \cup opened) <= Cardinality(Names) + Cardinality(Clients)
  <2>1. /\ Cardinality(linked) \in Nat /\ Cardinality(opened) \in Nat /\ Cardinality(linked \cap opened) \in Nat
        /\ Cardinality(Names) \in Nat /\ Cardinality(Clients) \in Nat
    BY <1>1, <1>2, <1>3, FS_CardinalityType, FS_Intersection
  <2>2. /\ IsFiniteSet(linked \cup opened)
        /\ Cardinality(linked \cup opened) = Cardinality(linked) + Cardinality(opened) - Cardinality(linked \cap opened)
    BY <1>2, <1>3, FS_Union
  <2> HIDE DEF linked, opened
  <2> QED BY <1>2, <1>3, <2>1, <2>2
<1>5. ~(Inodes \subseteq linked \cup opened)
  <2> SUFFICES ASSUME Inodes \subseteq linked \cup opened PROVE FALSE
    OBVIOUS
  <2>1. IsFiniteSet(Inodes) /\ Cardinality(Inodes) <= Cardinality(linked \cup opened)
    BY <1>4, FS_Subset
  <2>2. /\ Cardinality(Inodes) \in Nat /\ Cardinality(linked \cup opened) \in Nat
        /\ Cardinality(Names) + Cardinality(Clients) \in Nat
    BY <1>1, <1>4, <2>1, FS_CardinalityType
  <2>3. Cardinality(Inodes) > Cardinality(Names) + Cardinality(Clients)
    BY <2>1 DEF FilesAreGiven
  <2> HIDE DEF linked, opened
  <2> QED BY <1>4, <2>1, <2>2, <2>3
<1>6. Unused # {}
  <2>1. Linked(disk) \subseteq linked /\ Opened(job) \subseteq opened
    BY DEF Linked, Opened
  <2> QED BY <1>5, <2>1 DEF Unused
<1>7. NewInode \in Unused
  BY <1>6 DEF NewInode
<1>8. None \notin Inodes
  BY DEF FilesAreGiven
<1> QED BY <1>7, <1>8 DEF Unused, Linked, Opened

-------------------------------------------------------------------------------
(***************************************************************************)
(* The invariant.                                                          *)
(***************************************************************************)

\* A command, the step it is at, and what it has open there.
JobIsInOrder(r) ==
    /\ r.kind = None => r = Idle
    /\ r.kind = None <=> r.at = "idle"
    /\ r.inode # None <=> r.at \in Writing
    /\ r.name # None <=> r.at \in Writing
    /\ r.kind = "export" =>
          /\ r.at \in {"create"} \cup Writing
          /\ r.doc # None
          /\ r.name # None => r.name = "archive"
    /\ r.kind = "refresh" =>
          /\ r.at \in {"clear", "create", "replace"} \cup Writing
          /\ r.doc # None
          /\ r.name # None => r.name = "reference.tmp"
    /\ r.kind = "install" =>
          /\ r.at \in {"backup", "open", "replace"} \cup Writing
          /\ r.doc \in Configs
          /\ r.original # None => r.doc[2] = r.original[2]
          /\ r.name # None => r.name \in Backups \cup {"config.tmp"}
          /\ r.at = "backup" \/ r.name \in Backups => r.original # None

JobsAreInOrder == \A c \in Clients : JobIsInOrder(job[c])

LinksDiffer ==
    \A n, o \in Names : disk.inode[n] = disk.inode[o] /\ n # o => disk.inode[n] = None

\* A file that is open is linked under the name it was opened with, or where
\* it was moved from there; only the configuration's is open twice.
OpenIsOwn ==
    \A c \in Clients : job[c].at \in Writing =>
        /\ \A n \in Names : disk.inode[n] = job[c].inode =>
              \/ n = job[c].name
              \/ n = "reference" /\ job[c].name = "reference.tmp"
              \/ n = "config" /\ job[c].name = "config.tmp"
        /\ \A e \in Clients \ {c} : job[e].inode = job[c].inode =>
              job[c].name = "config.tmp" /\ job[e].name = "config.tmp"

\* Nobody takes away the name of an archive or a backup that is being written.
NamesStay ==
    \A c \in Clients : job[c].name \in {"archive"} \cup Backups =>
        disk.inode[job[c].name] = job[c].inode

ContentIsWritten ==
    \A c \in Clients : job[c].at \in Writing /\ (job[c].name # "config.tmp" \/ "config" \notin raced) =>
        /\ disk.data[job[c].inode][1] = IF job[c].at = "finish" THEN Payload(c) ELSE None
        /\ disk.data[job[c].inode][2] = None

ConfigsAreConfigs ==
    \A n \in {"config", "config.tmp"} : Exists(n) =>
        Data(n)[1] \in Configs \cup {None} /\ Data(n)[2] \in Configs \cup {None}

NothingIsMixed ==
    \A n \in Names \ {"config", "config.tmp"} : Exists(n) =>
        Data(n)[1] = None \/ Data(n)[2] = None \/ Data(n)[1] = Data(n)[2]

Replacing == {"refresh", "install"}

AloneUnlessRaced ==
    \A c, e \in Clients : c # e /\ job[c].kind = job[e].kind /\ job[c].kind \in Replacing =>
        Destination(job[c].kind) \in raced

DestinationsAreWhole ==
    \A d \in Destinations \ raced : Exists(d) =>
        Data(d)[1] # None /\ Data(d)[1] = Data(d)[2] /\ disk.inode[d] \in disk.synced

TemporariesAreReady ==
    \A c \in Clients : \A d \in Destinations \ raced :
        job[c].kind \in Replacing /\ Destination(job[c].kind) = d =>
            /\ job[c].name = Temporary[d] => disk.inode[Temporary[d]] = job[c].inode
            /\ job[c].at = "replace" /\ Exists(Temporary[d]) =>
                  /\ Data(Temporary[d])[1] = job[c].doc /\ Data(Temporary[d])[2] = job[c].doc
                  /\ disk.inode[Temporary[d]] \in disk.synced

ReceiptsHold ==
    \A doc \in receipts :
        /\ Exists("archive") /\ Data("archive")[1] = doc /\ Data("archive")[2] = doc
        /\ disk.inode["archive"] \in disk.synced
        /\ \A c \in Clients : job[c].inode # disk.inode["archive"]

\* The servers the user configured last while no install ran, or later ones.
IsRecent(doc) == doc \in Configs /\ doc[2] \in settled .. edits
HoldsRecent(n) == Exists(n) /\ IsRecent(Data(n)[1]) /\ Data(n)[2] = Data(n)[1]
InBackup == \E n \in Backups : HoldsRecent(n)
HasBackup(r) == r.at \in {"open", "replace"} \/ r.name = "config.tmp"

ConfigIsKept ==
    /\ settled > 0 /\ ~powerLost =>
          \A c \in Clients : job[c].kind = "install" /\ HasBackup(job[c]) => InBackup
    /\ settled > 0 /\ "config" \notin raced =>
          /\ HoldsRecent("config")
          /\ \A c \in Clients : job[c].kind = "install" => IsRecent(job[c].original)
    /\ settled > 0 /\ ~powerLost =>
          \/ InBackup
          \/ /\ HoldsRecent("config")
             /\ \A c \in Clients : job[c].kind = "install" => IsRecent(job[c].original)

FilesInv ==
    /\ TypesOK /\ JobsAreInOrder /\ LinksDiffer /\ OpenIsOwn /\ NamesStay /\ ContentIsWritten
    /\ ConfigsAreConfigs /\ NothingIsMixed /\ AloneUnlessRaced /\ DestinationsAreWhole
    /\ TemporariesAreReady /\ ReceiptsHold /\ ConfigIsKept

-------------------------------------------------------------------------------
(***************************************************************************)
(* The steps.                                                              *)
(***************************************************************************)

\* What a command may have open.
LEMMA JobIs ==
    ASSUME FilesAreGiven, TypesOK, JobsAreInOrder, NEW c \in Clients
    PROVE  /\ job[c] \in Jobs
           /\ job[c].at \in Writing <=> job[c].inode \in Inodes
           /\ job[c].at \in Writing <=> job[c].name \in Names
           /\ job[c].at \notin Writing => job[c].inode = None /\ job[c].name = None
           /\ job[c].name = "archive" => job[c].kind = "export"
           /\ job[c].name = "reference.tmp" => job[c].kind = "refresh"
           /\ job[c].name = "config.tmp" => job[c].kind = "install"
           /\ job[c].name \in Backups => job[c].kind = "install"
           /\ job[c].at \in Writing =>
                 job[c].name \in {"archive", "reference.tmp", "config.tmp"} \cup Backups
           /\ Payload(c) \in Documents \cup {None}
<1>1. job[c] \in Jobs /\ JobIsInOrder(job[c])
  BY DEF TypesOK, JobsAreInOrder
<1>2. None \notin Inodes /\ None \notin Documents
  BY DEF FilesAreGiven
<1>3. Payload(c) \in Documents \cup {None}
  BY <1>1, ConfigsAre DEF Payload, Jobs
<1>4. job[c].kind \in Writers \cup {None} /\ job[c].at \in Steps
      /\ job[c].name \in Names \cup {None} /\ job[c].inode \in Inodes \cup {None}
  BY <1>1 DEF Jobs
<1>5. job[c].kind = None => job[c].at \notin Writing
  BY <1>1 DEF JobIsInOrder, Writing
<1> QED BY <1>1, <1>2, <1>3, <1>4, <1>5, NamesAre DEF JobIsInOrder, Writers

LEMMA IdleIs ==
    ASSUME FilesAreGiven
    PROVE  Idle \in Jobs /\ JobIsInOrder(Idle) /\ Idle.at = "idle" /\ Idle.kind = None
           /\ Idle.inode = None /\ Idle.name = None
<1>1. Idle.at = "idle" /\ Idle.kind = None /\ Idle.inode = None /\ Idle.name = None
      /\ Idle.doc = None /\ Idle.original = None /\ Idle.entry = None
  BY DEF Idle
<1>2. Idle \in Jobs
  BY DEF Idle, Jobs, Steps
<1> QED BY <1>1, <1>2, NamesAre DEF JobIsInOrder, Writing, Writers

LEMMA ClientsAre ==
    ASSUME FilesAreGiven, FilesInv
    PROVE  /\ None \notin Names /\ None \notin Replacing /\ None # "install" /\ None \notin Inodes
           /\ \A e \in Clients :
                 /\ job[e] \in Jobs /\ JobIsInOrder(job[e])
                 /\ job[e].inode = None <=> job[e].at \notin Writing
                 /\ job[e].name = None <=> job[e].at \notin Writing
                 /\ job[e].inode # None => job[e].inode \in Inodes
           /\ \A n \in Names : disk.inode[n] # None => disk.inode[n] \in Inodes
           /\ disk \in Disks /\ disk.inode \in [Names -> Inodes \cup {None}]
<1>1. None \notin Names /\ None \notin Replacing /\ None # "install" /\ None \notin Inodes
  BY NamesAre DEF Replacing, Writers, FilesAreGiven
<1>2. disk \in Disks /\ disk.inode \in [Names -> Inodes \cup {None}]
  BY DEF FilesInv, TypesOK, Disks
<1> QED BY <1>1, <1>2, JobIs DEF FilesInv, JobsAreInOrder


\* The command ends and leaves the files alone.
LEMMA StopKeepsFilesInv ==
    ASSUME FilesAreGiven, FilesInv, NEW c \in Clients,
           Do(c, disk, Idle), UNCHANGED <<edits, settled, receipts, raced, powerLost>>, deaths' \in 0 .. MaxDeaths
    PROVE  FilesInv'
<1>1. Idle.at \notin Writing /\ Idle.at # "replace" /\ ~HasBackup(Idle)
  BY IdleIs, NamesAre DEF Writing, HasBackup
<1>2. /\ job' \in [Clients -> Jobs] /\ job'[c] = Idle
      /\ \A e \in Clients \ {c} : job'[e] = job[e]
      /\ KeepsUsed(disk', job', disk)
  BY IdleIs, DoIs DEF FilesInv, TypesOK
<1>3. /\ disk' \in Disks
      /\ disk'.inode = disk.inode
      /\ \A n \in Names : disk.inode[n] # None =>
            /\ disk'.data[disk.inode[n]] = disk.data[disk.inode[n]]
            /\ disk.inode[n] \in disk.synced => disk.inode[n] \in disk'.synced
      /\ \A e \in Clients \ {c} : job[e].inode # None => disk'.data[job[e].inode] = disk.data[job[e].inode]
  <2>1. KeepsUsed(disk', job', disk) /\ \A e \in Clients \ {c} : job'[e] = job[e]
    BY <1>2
  <2> QED BY <1>1, <2>1, ClientsAre DEF KeepsUsed
<1>4. TypesOK'
  BY <1>2, <1>3 DEF FilesInv, TypesOK
<1>5. JobsAreInOrder'
  BY <1>2, IdleIs DEF FilesInv, JobsAreInOrder
<1>6. LinksDiffer'
  BY <1>3 DEF FilesInv, LinksDiffer
<1>7. OpenIsOwn'
  BY <1>1, <1>2, <1>3, ClientsAre, IdleIs DEF FilesInv, OpenIsOwn
<1>8. NamesStay'
  BY <1>2, <1>3, NamesAre, IdleIs DEF FilesInv, NamesStay
<1>9. ContentIsWritten'
  <2>1. ASSUME NEW e \in Clients, job'[e].at \in Writing
        PROVE  /\ e # c /\ job'[e] = job[e] /\ Payload(e)' = Payload(e)
               /\ disk'.data[job'[e].inode] = disk.data[job[e].inode]
    BY <1>1, <1>2, <1>3, ClientsAre, <2>1 DEF Payload
  <2> QED BY <2>1 DEF FilesInv, ContentIsWritten
<1>10. ConfigsAreConfigs'
  BY <1>3, NamesAre DEF FilesInv, ConfigsAreConfigs, Exists, Data
<1>11. NothingIsMixed'
  BY <1>3 DEF FilesInv, NothingIsMixed, Exists, Data
<1>12. AloneUnlessRaced'
  BY <1>2, ClientsAre, IdleIs DEF FilesInv, AloneUnlessRaced
<1>13. DestinationsAreWhole'
  BY <1>3, NamesAre DEF FilesInv, DestinationsAreWhole, Exists, Data
<1>14. TemporariesAreReady'
  BY <1>2, <1>3, NamesAre, IdleIs DEF FilesInv, TemporariesAreReady, Exists, Data
<1>15. ReceiptsHold'
  BY <1>2, <1>3, NamesAre, IdleIs DEF FilesInv, ReceiptsHold, Exists, Data
<1>16. ConfigIsKept'
  BY <1>2, <1>3, ClientsAre, NamesAre, IdleIs DEF FilesInv, ConfigIsKept, HoldsRecent, InBackup, IsRecent, HasBackup, Exists, Data
<1> QED BY <1>4, <1>5, <1>6, <1>7, <1>8, <1>9, <1>10, <1>11, <1>12, <1>13, <1>14, <1>15, <1>16 DEF FilesInv

\* A command starts.
LEMMA BeginKeepsFilesInv ==
    ASSUME FilesAreGiven, FilesInv, NEW c \in Clients,
           NEW r \in Jobs, JobIsInOrder(r), r.at \in {"create", "clear", "backup", "open"}, Begin(c, r),
           r.kind = "install" => /\ r.at = "open" => ~Exists("config")
                                 /\ HoldsRecent("config") => IsRecent(r.original) /\ r.at = "backup"
    PROVE  FilesInv'
<1>1. r.at \notin Writing /\ r.inode = None /\ r.name = None /\ r.at # "replace" /\ r.kind \in Writers
  BY DEF JobIsInOrder, Writing, Writers, Jobs
<1>3. UNCHANGED <<edits, settled, deaths, receipts, powerLost>>
  BY DEF Begin
<1>4. raced \subseteq raced' /\ raced' \subseteq Destinations
  BY DEF Begin, FilesInv, TypesOK, Destination, Destinations
<1>5. \A e \in Clients : job[e].kind = r.kind /\ r.kind \in Replacing => Destination(r.kind) \in raced'
  BY DEF Begin, Busy, Replacing
<1>6. /\ job' \in [Clients -> Jobs] /\ job'[c] = r
      /\ \A e \in Clients \ {c} : job'[e] = job[e]
      /\ KeepsUsed(disk', job', disk)
  BY DoIs DEF FilesInv, TypesOK, Begin
<1>7. /\ disk' \in Disks
      /\ disk'.inode = disk.inode
      /\ \A n \in Names : disk.inode[n] # None =>
            /\ disk'.data[disk.inode[n]] = disk.data[disk.inode[n]]
            /\ disk.inode[n] \in disk.synced => disk.inode[n] \in disk'.synced
      /\ \A e \in Clients \ {c} : job[e].inode # None => disk'.data[job[e].inode] = disk.data[job[e].inode]
  <2>1. KeepsUsed(disk', job', disk) /\ \A e \in Clients \ {c} : job'[e] = job[e]
    BY <1>6
  <2> QED BY <2>1 DEF KeepsUsed
<1>8. TypesOK'
  BY <1>3, <1>4, <1>6, <1>7 DEF FilesInv, TypesOK
<1>9. JobsAreInOrder'
  BY <1>6 DEF FilesInv, JobsAreInOrder
<1>10. LinksDiffer'
  BY <1>7 DEF FilesInv, LinksDiffer
<1>11. OpenIsOwn'
  BY <1>1, <1>6, <1>7, ClientsAre DEF FilesInv, OpenIsOwn
<1>12. NamesStay'
  BY <1>1, <1>6, <1>7, NamesAre DEF FilesInv, NamesStay
<1>13. ContentIsWritten'
  <2>1. ASSUME NEW e \in Clients, job'[e].at \in Writing
        PROVE  /\ e # c /\ job'[e] = job[e] /\ Payload(e)' = Payload(e)
               /\ disk'.data[job'[e].inode] = disk.data[job[e].inode]
    BY <1>1, <1>6, <1>7, ClientsAre, <2>1 DEF Payload
  <2> QED BY <1>4, <2>1 DEF FilesInv, ContentIsWritten
<1>14. ConfigsAreConfigs'
  BY <1>7, NamesAre DEF FilesInv, ConfigsAreConfigs, Exists, Data
<1>15. NothingIsMixed'
  BY <1>7 DEF FilesInv, NothingIsMixed, Exists, Data
<1>16. AloneUnlessRaced'
  BY <1>4, <1>5, <1>6 DEF FilesInv, AloneUnlessRaced
<1>17. DestinationsAreWhole'
  BY <1>4, <1>7, NamesAre DEF FilesInv, DestinationsAreWhole, Exists, Data
<1>18. TemporariesAreReady'
  BY <1>1, <1>4, <1>6, <1>7, NamesAre DEF FilesInv, TemporariesAreReady, Exists, Data
<1>19. ReceiptsHold'
  BY <1>1, <1>3, <1>6, <1>7, NamesAre DEF FilesInv, ReceiptsHold, Exists, Data
<1>20. ConfigIsKept'
  BY <1>1, <1>3, <1>4, <1>6, <1>7, NamesAre DEF FilesInv, ConfigIsKept, HoldsRecent, InBackup, IsRecent, HasBackup, Exists, Data
<1> QED BY <1>8, <1>9, <1>10, <1>11, <1>12, <1>13, <1>14, <1>15, <1>16, <1>17, <1>18, <1>19, <1>20 DEF FilesInv

\* The command removes the temporary file of its destination.
LEMMA UnlinkKeepsFilesInv ==
    ASSUME FilesAreGiven, FilesInv, NEW c \in Clients,
           NEW d \in Destinations, job[c].kind \in Replacing, d = Destination(job[c].kind),
           NEW r \in Jobs, JobIsInOrder(r), r = Idle \/ (r.kind = "refresh" /\ r.at = "create"),
           Do(c, Unlinked(disk, Temporary[d]), r), Unobserved, job[c].kind = "refresh" \/ r = Idle
    PROVE  FilesInv'
<1>1. r.at \notin Writing /\ r.inode = None /\ r.name = None /\ r.at # "replace" /\ r.kind # "install"
  BY IdleIs, NamesAre DEF JobIsInOrder, Writing, Writers
<1>2. UNCHANGED <<edits, settled, deaths, receipts, raced, powerLost>>
  BY DEF Unobserved
<1>3. Temporary[d] \in {"reference.tmp", "config.tmp"} /\ Temporary[d] \in Names
  BY NamesAre DEF Destinations
<1>4. r.kind \in Replacing => r.kind = job[c].kind
  BY NamesAre, IdleIs DEF Replacing, Writers
<1>5. /\ Unlinked(disk, Temporary[d]).inode = [disk.inode EXCEPT ![Temporary[d]] = None]
      /\ Unlinked(disk, Temporary[d]).data = disk.data /\ Unlinked(disk, Temporary[d]).synced = disk.synced
      /\ Unlinked(disk, Temporary[d]) \in Disks
  BY <1>3, UnlinkedIs DEF FilesInv, TypesOK, Disks
<1>6. /\ job' \in [Clients -> Jobs] /\ job'[c] = r
      /\ \A e \in Clients \ {c} : job'[e] = job[e]
      /\ KeepsUsed(disk', job', Unlinked(disk, Temporary[d]))
  BY DoIs, UnlinkedIs, NamesAre DEF FilesInv, TypesOK
<1>7. /\ disk' \in Disks
      /\ disk'.inode = [disk.inode EXCEPT ![Temporary[d]] = None]
      /\ \A n \in Names : disk'.inode[n] # None =>
            /\ disk'.data[disk.inode[n]] = disk.data[disk.inode[n]]
            /\ disk.inode[n] \in disk.synced => disk.inode[n] \in disk'.synced
      /\ \A e \in Clients \ {c} : job[e].inode # None => disk'.data[job[e].inode] = disk.data[job[e].inode]
  <2>1. KeepsUsed(disk', job', Unlinked(disk, Temporary[d])) /\ \A e \in Clients \ {c} : job'[e] = job[e]
    BY <1>6
  <2> QED BY <1>5, <2>1 DEF KeepsUsed
<1>8. TypesOK'
  BY <1>2, <1>6, <1>7 DEF FilesInv, TypesOK
<1>9. JobsAreInOrder'
  BY <1>6 DEF FilesInv, JobsAreInOrder
<1>10. LinksDiffer'
  BY <1>7 DEF FilesInv, LinksDiffer
<1>11. OpenIsOwn'
  BY <1>1, <1>6, <1>7, ClientsAre DEF FilesInv, OpenIsOwn
<1>12. NamesStay'
  BY <1>1, <1>3, <1>6, <1>7, NamesAre DEF FilesInv, NamesStay
<1>13. ContentIsWritten'
  <2>1. ASSUME NEW e \in Clients, job'[e].at \in Writing
        PROVE  /\ e # c /\ job'[e] = job[e] /\ Payload(e)' = Payload(e)
               /\ disk'.data[job'[e].inode] = disk.data[job[e].inode]
    BY <1>1, <1>6, <1>7, ClientsAre, <2>1 DEF Payload
  <2> QED BY <1>2, <2>1 DEF FilesInv, ContentIsWritten
<1>14. ConfigsAreConfigs'
  BY <1>7, NamesAre DEF FilesInv, ConfigsAreConfigs, Exists, Data
<1>15. NothingIsMixed'
  BY <1>7 DEF FilesInv, NothingIsMixed, Exists, Data
<1>16. AloneUnlessRaced'
  BY <1>2, <1>4, <1>6 DEF FilesInv, AloneUnlessRaced
<1>17. DestinationsAreWhole'
  BY <1>2, <1>7, NamesAre DEF FilesInv, DestinationsAreWhole, Exists, Data
<1>18. TemporariesAreReady'
  <2>1. ASSUME NEW e \in Clients, NEW o \in Destinations \ raced', job'[e].kind \in Replacing,
               Destination(job'[e].kind) = o, job'[e].name = Temporary[o] \/ job'[e].at = "replace"
        PROVE  e # c /\ job'[e] = job[e] /\ o \in Destinations \ raced /\ Temporary[o] \in Names
    BY <1>1, <1>2, <1>6, NamesAre, <2>1
  <2>2. ASSUME NEW e \in Clients \ {c}, NEW o \in Destinations \ raced, job[e].kind \in Replacing,
               Destination(job[e].kind) = o
        PROVE  Temporary[o] # Temporary[d]
    <3>1. o # d
      <4>1. job[e].kind # job[c].kind
        BY <2>2 DEF FilesInv, AloneUnlessRaced
      <4> QED BY <2>2, <4>1 DEF Replacing, Destination
    <3> QED BY <3>1, NamesAre DEF Destinations
  <2> QED BY <1>1, <1>2, <1>6, <1>7, NamesAre, <2>2 DEF FilesInv, TemporariesAreReady, Exists, Data
<1>19. ReceiptsHold'
  BY <1>1, <1>2, <1>3, <1>6, <1>7, NamesAre DEF FilesInv, ReceiptsHold, Exists, Data
<1>20. ConfigIsKept'
  <2>1. \A n \in {"config"} \cup Backups : HoldsRecent(n) => HoldsRecent(n)'
    BY <1>2, <1>3, <1>7, NamesAre DEF HoldsRecent, IsRecent, Exists, Data
  <2>2. InBackup => InBackup'
    BY <2>1 DEF InBackup
  <2>3. \A e \in Clients : job'[e].kind = "install" => e # c /\ job'[e] = job[e]
    BY <1>1, <1>6
  <2>4. \A doc : IsRecent(doc) => IsRecent(doc)'
    BY <1>2 DEF IsRecent
  <2> QED BY <1>1, <1>2, <1>6, <2>1, <2>2, <2>4 DEF FilesInv, ConfigIsKept, HasBackup
<1> QED BY <1>8, <1>9, <1>10, <1>11, <1>12, <1>13, <1>14, <1>15, <1>16, <1>17, <1>18, <1>19, <1>20 DEF FilesInv

\* A failed export removes the archive it was writing.
LEMMA UnlinkArchiveKeepsFilesInv ==
    ASSUME FilesAreGiven, FilesInv, NEW c \in Clients,
           job[c].kind = "export", job[c].at \in Writing, Do(c, Unlinked(disk, "archive"), Idle), Unobserved
    PROVE  FilesInv'
<1>1. Idle.at \notin Writing /\ Idle.at # "replace" /\ ~HasBackup(Idle)
  BY IdleIs, NamesAre DEF Writing, HasBackup
<1>2. UNCHANGED <<edits, settled, deaths, receipts, raced, powerLost>>
  BY DEF Unobserved
<1>3. job[c].name = "archive" /\ disk.inode["archive"] = job[c].inode /\ job[c].inode # None
  BY ClientsAre, NamesAre DEF JobIsInOrder, FilesInv, NamesStay
<1>4. "archive" \in Names
  BY NamesAre
<1>6. \A e \in Clients \ {c} : job[e].name # "archive"
  BY <1>3, ClientsAre, NamesAre DEF FilesInv, NamesStay, OpenIsOwn
<1>7. /\ Unlinked(disk, "archive").inode = [disk.inode EXCEPT !["archive"] = None]
      /\ Unlinked(disk, "archive").data = disk.data /\ Unlinked(disk, "archive").synced = disk.synced
      /\ Unlinked(disk, "archive") \in Disks
  BY <1>4, UnlinkedIs DEF FilesInv, TypesOK, Disks
<1>8. /\ job' \in [Clients -> Jobs] /\ job'[c] = Idle
      /\ \A e \in Clients \ {c} : job'[e] = job[e]
      /\ KeepsUsed(disk', job', Unlinked(disk, "archive"))
  BY DoIs, UnlinkedIs, IdleIs, NamesAre DEF FilesInv, TypesOK
<1>9. /\ disk' \in Disks
      /\ disk'.inode = [disk.inode EXCEPT !["archive"] = None]
      /\ \A n \in Names : disk'.inode[n] # None =>
            /\ disk'.data[disk.inode[n]] = disk.data[disk.inode[n]]
            /\ disk.inode[n] \in disk.synced => disk.inode[n] \in disk'.synced
      /\ \A e \in Clients \ {c} : job[e].inode # None => disk'.data[job[e].inode] = disk.data[job[e].inode]
  <2>1. KeepsUsed(disk', job', Unlinked(disk, "archive")) /\ \A e \in Clients \ {c} : job'[e] = job[e]
    BY <1>8
  <2> QED BY <1>7, <2>1, ClientsAre DEF KeepsUsed
<1>10. TypesOK'
  BY <1>2, <1>8, <1>9 DEF FilesInv, TypesOK
<1>11. JobsAreInOrder'
  BY <1>8, IdleIs DEF FilesInv, JobsAreInOrder
<1>12. LinksDiffer'
  BY <1>9 DEF FilesInv, LinksDiffer
<1>13. OpenIsOwn'
  BY <1>1, <1>8, <1>9, ClientsAre, IdleIs DEF FilesInv, OpenIsOwn
<1>14. NamesStay'
  BY <1>6, <1>8, <1>9, NamesAre, IdleIs DEF FilesInv, NamesStay
<1>15. ContentIsWritten'
  <2>1. ASSUME NEW e \in Clients, job'[e].at \in Writing
        PROVE  /\ e # c /\ job'[e] = job[e] /\ Payload(e)' = Payload(e)
               /\ disk'.data[job'[e].inode] = disk.data[job[e].inode]
    BY <1>1, <1>8, <1>9, ClientsAre, <2>1 DEF Payload
  <2> QED BY <1>2, <2>1 DEF FilesInv, ContentIsWritten
<1>16. ConfigsAreConfigs'
  BY <1>9, NamesAre DEF FilesInv, ConfigsAreConfigs, Exists, Data
<1>17. NothingIsMixed'
  BY <1>9 DEF FilesInv, NothingIsMixed, Exists, Data
<1>18. AloneUnlessRaced'
  BY <1>2, <1>8, ClientsAre, IdleIs DEF FilesInv, AloneUnlessRaced
<1>19. DestinationsAreWhole'
  BY <1>2, <1>9, NamesAre DEF FilesInv, DestinationsAreWhole, Exists, Data
<1>20. TemporariesAreReady'
  BY <1>2, <1>6, <1>8, <1>9, NamesAre, IdleIs DEF FilesInv, TemporariesAreReady, Exists, Data
<1>21. ReceiptsHold'
  BY <1>2, <1>3 DEF FilesInv, ReceiptsHold, Exists, Data
<1>22. ConfigIsKept'
  <2>1. \A n \in {"config"} \cup Backups : HoldsRecent(n) => HoldsRecent(n)'
    BY <1>2, <1>9, NamesAre DEF HoldsRecent, IsRecent, Exists, Data
  <2>2. InBackup => InBackup'
    BY <2>1 DEF InBackup
  <2>3. \A e \in Clients : job'[e].kind = "install" => e # c /\ job'[e] = job[e]
    BY <1>8, ClientsAre, IdleIs
  <2>4. \A doc : IsRecent(doc) => IsRecent(doc)'
    BY <1>2 DEF IsRecent
  <2> QED BY <1>2, <1>8, ClientsAre, IdleIs, <2>1, <2>2, <2>4 DEF FilesInv, ConfigIsKept, HasBackup
<1> QED BY <1>10, <1>11, <1>12, <1>13, <1>14, <1>15, <1>16, <1>17, <1>18, <1>19, <1>20, <1>21, <1>22 DEF FilesInv

\* The command opens the file of that file, empty: a new one, or the temporary
\* file of the configuration that was there.
Opens(c, file, i) ==
    /\ job' \in [Clients -> Jobs] /\ JobIsInOrder(job'[c])
    /\ job'[c].at = "write" /\ job'[c].name = file /\ job'[c].inode = i
    /\ job'[c].kind = job[c].kind /\ job'[c].original = job[c].original
    /\ \A e \in Clients \ {c} : job'[e] = job[e]
    /\ UNCHANGED <<edits, settled, deaths, receipts, raced, powerLost>>
    /\ disk' \in Disks /\ disk'.inode[file] = i /\ disk'.data[i] = Empty
    /\ \A n \in Names \ {file} : disk'.inode[n] = disk.inode[n]
    /\ \A n \in Names \ {file} : disk.inode[n] # None =>
          /\ disk'.data[disk.inode[n]] = disk.data[disk.inode[n]]
          /\ disk.inode[n] \in disk.synced => disk.inode[n] \in disk'.synced
    /\ \A e \in Clients \ {c} : job[e].inode # None /\ job[e].inode # i =>
          disk'.data[job[e].inode] = disk.data[job[e].inode]

LEMMA OpenKeepsFilesInv ==
    ASSUME FilesAreGiven, FilesInv, NEW c \in Clients, NEW i \in Inodes,
           NEW file \in {"archive", "reference.tmp", "config.tmp"} \cup Backups,
           job[c].at \notin Writing, Opens(c, file, i),
           \A n \in Names \ {file} : disk.inode[n] # i,
           file # "config.tmp" => ~Exists(file),
           file = "config.tmp" => job[c].at = "open",
           \A e \in Clients : job[e].inode = i => job[e].name = "config.tmp" /\ file = "config.tmp"
    PROVE  FilesInv'
<1>1. file \in Names /\ file \notin Destinations /\ file # "config" /\ i # None
  BY NamesAre, ClientsAre DEF Destinations
<1>2. \A e \in Clients : job[e].name = file => file = "config.tmp" \/ file = "reference.tmp"
  BY <1>1, ClientsAre, NamesAre DEF FilesInv, NamesStay, Exists
<1>3. file = "archive" => receipts = {}
  BY DEF FilesInv, ReceiptsHold
<1>4. \A e \in Clients \ {c} : job[e].kind = job[c].kind /\ job[c].kind \in Replacing =>
          Destination(job[c].kind) \in raced
  BY DEF FilesInv, AloneUnlessRaced
<1>5. "write" \in Writing
  BY DEF Writing
<1>6. TypesOK'
  BY <1>1 DEF Opens, FilesInv, TypesOK
<1>7. JobsAreInOrder'
  BY <1>1 DEF Opens, FilesInv, JobsAreInOrder
<1>8. LinksDiffer'
  BY <1>1 DEF Opens, LinksDiffer, FilesInv
<1>9. OpenIsOwn'
  BY <1>1 DEF Opens, FilesInv, OpenIsOwn
<1>10. NamesStay'
  <2>1. ASSUME NEW e \in Clients \ {c}, NEW n \in {"archive"} \cup Backups, job'[e].name = n
        PROVE  disk'.inode[n] = job'[e].inode
    <3>1. job'[e] = job[e]
      BY DEF Opens
    <3>2. disk.inode[n] = job[e].inode
      BY <2>1, <3>1 DEF FilesInv, NamesStay
    <3>3. n \in Names \ {file}
      BY <1>2, <2>1, <3>1, NamesAre
    <3>4. disk'.inode[n] = disk.inode[n]
      BY <3>3 DEF Opens
    <3> QED BY <3>1, <3>2, <3>4
  <2>2. job'[c].name = file /\ disk'.inode[file] = job'[c].inode
    BY DEF Opens
  <2> QED BY <2>1, <2>2 DEF NamesStay
<1>11. ContentIsWritten'
  <2>1. ASSUME NEW e \in Clients \ {c}, job'[e].at \in Writing,
               job'[e].name # "config.tmp" \/ "config" \notin raced'
        PROVE  /\ job'[e] = job[e] /\ Payload(e)' = Payload(e)
               /\ disk'.data[job'[e].inode] = disk.data[job[e].inode]
    <3>1. job'[e] = job[e] /\ Payload(e)' = Payload(e) /\ job[e].inode # None
      BY <2>1, ClientsAre DEF Payload, Opens
    <3>2. job[e].inode # i
      <4>1. ASSUME job[e].inode = i PROVE FALSE
        <5>1. job[e].name = "config.tmp" /\ file = "config.tmp" /\ "config" \notin raced
          BY <2>1, <3>1, <4>1 DEF Opens
        <5>2. job[e].kind = "install" /\ job[c].kind = "install"
          BY <5>1, <1>5, JobIs, NamesAre DEF Opens, JobIsInOrder, FilesInv, TypesOK, Jobs, Writers
        <5> QED BY <1>4, <5>1, <5>2 DEF Replacing, Destination
      <4> QED BY <4>1
    <3> QED BY <3>1, <3>2 DEF Opens
  <2>2. disk'.data[job'[c].inode] = Empty /\ job'[c].at = "write"
    BY DEF Opens
  <2>3. raced' = raced
    BY DEF Opens
  <2> QED BY <2>1, <2>2, <2>3, EmptyIs DEF Opens, FilesInv, ContentIsWritten
<1>12. ConfigsAreConfigs'
  BY <1>1, EmptyIs, NamesAre DEF Opens, ConfigsAreConfigs, FilesInv, Exists, Data
<1>13. NothingIsMixed'
  BY <1>1, EmptyIs DEF Opens, NothingIsMixed, FilesInv, Exists, Data
<1>14. AloneUnlessRaced'
  BY DEF Opens, AloneUnlessRaced, FilesInv
<1>15. DestinationsAreWhole'
  BY <1>1, NamesAre DEF Opens, DestinationsAreWhole, FilesInv, Exists, Data
<1>16. TemporariesAreReady'
  <2>1. ASSUME NEW e \in Clients \ {c}, NEW o \in Destinations \ raced', job'[e].kind \in Replacing,
               Destination(job'[e].kind) = o
        PROVE  /\ job'[e] = job[e] /\ o \in Destinations \ raced /\ Temporary[o] \in Names
               /\ Temporary[o] # file
    <3>1. job'[e] = job[e] /\ o \in Destinations \ raced /\ Temporary[o] \in Names
      BY <2>1, NamesAre DEF Opens
    <3>2. job[e].kind # job[c].kind
      BY <2>1, <3>1, <1>4
    <3>3. file = "reference.tmp" => job[c].kind = "refresh"
      BY <1>5, NamesAre DEF Opens, JobIsInOrder, Jobs, Writers
    <3>4. file = "config.tmp" => job[c].kind = "install"
      BY <1>5, NamesAre DEF Opens, JobIsInOrder, Jobs, Writers
    <3>5. Temporary[o] \in {"reference.tmp", "config.tmp"} /\ (o = "reference" <=> Temporary[o] = "reference.tmp")
      BY <2>1, NamesAre DEF Destinations
    <3> QED BY <2>1, <3>1, <3>2, <3>3, <3>4, <3>5 DEF Replacing, Destination
  <2>2. job'[c].at # "replace" /\ \A o \in Destinations : job'[c].name = Temporary[o] => disk'.inode[Temporary[o]] = job'[c].inode
    BY DEF Opens
  <2>3. ASSUME NEW e \in Clients \ {c}, NEW o \in Destinations \ raced', job'[e].kind \in Replacing,
               Destination(job'[e].kind) = o
        PROVE  /\ job'[e].name = Temporary[o] => disk'.inode[Temporary[o]] = job'[e].inode
               /\ job'[e].at = "replace" /\ disk'.inode[Temporary[o]] # None =>
                     /\ disk'.data[disk'.inode[Temporary[o]]][1] = job'[e].doc
                     /\ disk'.data[disk'.inode[Temporary[o]]][2] = job'[e].doc
                     /\ disk'.inode[Temporary[o]] \in disk'.synced
    <3>1. /\ job'[e] = job[e] /\ o \in Destinations \ raced /\ Temporary[o] \in Names
          /\ Temporary[o] # file
      BY <2>1, <2>3
    <3>2. /\ disk'.inode[Temporary[o]] = disk.inode[Temporary[o]]
          /\ disk.inode[Temporary[o]] # None =>
                /\ disk'.data[disk.inode[Temporary[o]]] = disk.data[disk.inode[Temporary[o]]]
                /\ disk.inode[Temporary[o]] \in disk.synced => disk.inode[Temporary[o]] \in disk'.synced
      BY <3>1 DEF Opens
    <3> QED BY <2>3, <3>1, <3>2 DEF Opens, FilesInv, TemporariesAreReady, Exists, Data
  <2>4. \A o : o \in (Destinations \ raced)' <=> o \in Destinations \ raced'
    OBVIOUS
  <2> QED BY <2>2, <2>3, <2>4 DEF TemporariesAreReady, Exists, Data
<1>17. ReceiptsHold'
  BY <1>1, <1>3, ClientsAre, NamesAre DEF Opens, ReceiptsHold, FilesInv, Exists, Data
<1>18. ConfigIsKept'
  <2>1. \A n \in {"config"} \cup Backups : HoldsRecent(n) => HoldsRecent(n)'
    <3>1. ASSUME NEW n \in {"config"} \cup Backups, HoldsRecent(n)
          PROVE  HoldsRecent(n)'
      <4>1. n \in Names \ {file} /\ disk.inode[n] # None
        BY <3>1, <1>1, NamesAre DEF HoldsRecent, Exists, Destinations
      <4>2. disk'.inode[n] = disk.inode[n] /\ disk'.data[disk.inode[n]] = disk.data[disk.inode[n]] /\ UNCHANGED <<edits, settled>>
        BY <4>1 DEF Opens
      <4> QED BY <3>1, <4>1, <4>2 DEF HoldsRecent, IsRecent, Exists, Data
    <3> QED BY <3>1
  <2>2. InBackup => InBackup'
    BY <2>1 DEF InBackup
  <2>3. \A e \in Clients : /\ job'[e].kind = job[e].kind /\ job'[e].original = job[e].original
                          /\ HasBackup(job'[e]) => HasBackup(job[e])
    BY DEF HasBackup, Opens
  <2>4. (\A doc : IsRecent(doc) => IsRecent(doc)') /\ UNCHANGED <<edits, settled, raced, powerLost>>
    BY DEF IsRecent, Opens
  <2> QED BY <2>1, <2>2, <2>3, <2>4 DEF Opens, FilesInv, ConfigIsKept
<1> QED BY <1>6, <1>7, <1>8, <1>9, <1>10, <1>11, <1>12, <1>13, <1>14, <1>15, <1>16, <1>17, <1>18 DEF FilesInv

\* Only the content of inode i is written; the names stay.
OnlyWritten(c, i) ==
    /\ job' \in [Clients -> Jobs] /\ JobIsInOrder(job'[c])
    /\ \A e \in Clients \ {c} : job'[e] = job[e]
    /\ UNCHANGED <<edits, settled, deaths, raced, powerLost>>
    /\ disk' \in Disks /\ disk'.inode = disk.inode
    /\ \A n \in Names : disk.inode[n] # None /\ disk.inode[n] # i =>
          /\ disk'.data[disk.inode[n]] = disk.data[disk.inode[n]]
          /\ disk.inode[n] \in disk.synced => disk.inode[n] \in disk'.synced
    /\ \A e \in Clients \ {c} : job[e].inode # None /\ job[e].inode # i =>
          disk'.data[job[e].inode] = disk.data[job[e].inode]

\* What a command that writes can rely on.
LEMMA WriterIs ==
    ASSUME FilesAreGiven, FilesInv, NEW c \in Clients, job[c].at \in Writing
    PROVE  /\ job[c].inode \in Inodes
           /\ job[c].name \in {"archive", "reference.tmp", "config.tmp"} \cup Backups
           /\ job[c].name = "config.tmp" => job[c].kind = "install" /\ HasBackup(job[c])
           /\ \A e \in Clients \ {c} : job[e].inode = job[c].inode =>
                 job[c].name = "config.tmp" /\ job[e].name = "config.tmp" /\ "config" \in raced
           /\ \A e \in Clients \ {c} : job[c].kind = job[e].kind /\ job[c].kind \in Replacing =>
                 Destination(job[c].kind) \in raced
           /\ \A n \in Names : disk.inode[n] = job[c].inode =>
                 \/ n = job[c].name
                 \/ n = "reference" /\ job[c].name = "reference.tmp" /\ "reference" \in raced
                 \/ n = "config" /\ job[c].name = "config.tmp" /\ "config" \in raced
           /\ job[c].name # "config.tmp" \/ "config" \notin raced =>
                 /\ disk.data[job[c].inode][1] = IF job[c].at = "finish" THEN Payload(c) ELSE None
                 /\ disk.data[job[c].inode][2] = None
<1>1. /\ job[c].inode \in Inodes /\ job[c].inode # None
      /\ job[c].name \in {"archive", "reference.tmp", "config.tmp"} \cup Backups
      /\ job[c].name = "config.tmp" => job[c].kind = "install"
      /\ job[c].name = "reference.tmp" => job[c].kind = "refresh"
  BY JobIs, ClientsAre DEF FilesInv
<1>2. \A e \in Clients \ {c} : job[e].inode = job[c].inode =>
          job[c].name = "config.tmp" /\ job[e].name = "config.tmp"
  BY DEF FilesInv, OpenIsOwn
<1>3. \A e \in Clients \ {c} : job[c].kind = job[e].kind /\ job[c].kind \in Replacing =>
          Destination(job[c].kind) \in raced
  BY DEF FilesInv, AloneUnlessRaced
<1>4. ASSUME NEW e \in Clients \ {c}, job[e].inode = job[c].inode
      PROVE  "config" \in raced
  <2>1. job[c].kind = "install" /\ job[e].kind = "install"
    BY <1>1, <1>2, <1>4, JobIs DEF FilesInv
  <2> QED BY <1>3, <2>1 DEF Replacing, Destination
<1>5. ASSUME NEW n \in Names, disk.inode[n] = job[c].inode
      PROVE  \/ n = job[c].name
             \/ n = "reference" /\ job[c].name = "reference.tmp" /\ "reference" \in raced
             \/ n = "config" /\ job[c].name = "config.tmp" /\ "config" \in raced
  <2>1. \/ n = job[c].name
        \/ n = "reference" /\ job[c].name = "reference.tmp"
        \/ n = "config" /\ job[c].name = "config.tmp"
    BY <1>5 DEF FilesInv, OpenIsOwn
  <2>2. ASSUME NEW d \in Destinations \ raced, n = d, job[c].name = Temporary[d],
               job[c].kind \in Replacing, Destination(job[c].kind) = d
        PROVE  FALSE
    <3>1. disk.inode[Temporary[d]] = job[c].inode
      BY <2>2 DEF FilesInv, TemporariesAreReady
    <3>2. Temporary[d] \in Names /\ Temporary[d] # n
      BY <2>2, NamesAre
    <3> QED BY <1>1, <1>5, <3>1, <3>2 DEF FilesInv, LinksDiffer
  <2> QED BY <1>1, <2>1, <2>2, NamesAre DEF Destinations, Destination, Replacing
<1>6. job[c].name # "config.tmp" \/ "config" \notin raced =>
          /\ disk.data[job[c].inode][1] = IF job[c].at = "finish" THEN Payload(c) ELSE None
          /\ disk.data[job[c].inode][2] = None
  BY DEF FilesInv, ContentIsWritten
<1>7. job[c].name = "config.tmp" => HasBackup(job[c])
  BY DEF HasBackup
<1> QED BY <1>1, <1>2, <1>3, <1>4, <1>5, <1>6, <1>7

\* What no write to a file that is open can change.
LEMMA WriteKeeps ==
    ASSUME FilesAreGiven, FilesInv, NEW c \in Clients, job[c].at \in Writing, OnlyWritten(c, job[c].inode)
    PROVE  /\ LinksDiffer'
           /\ JobsAreInOrder'
           /\ DestinationsAreWhole'
           /\ \A e \in Clients \ {c} : job[e].at \in Writing /\ (job[e].name # "config.tmp" \/ "config" \notin raced) =>
                 Payload(e)' = Payload(e) /\ disk'.data[job[e].inode] = disk.data[job[e].inode]
           /\ \A e \in Clients \ {c} : \A o \in Destinations \ raced :
                 job[e].kind \in Replacing /\ Destination(job[e].kind) = o /\ Exists(Temporary[o]) =>
                     /\ Data(Temporary[o])' = Data(Temporary[o])
                     /\ disk.inode[Temporary[o]] \in disk.synced => disk.inode[Temporary[o]] \in disk'.synced
           /\ \A n \in Backups : HoldsRecent(n) => HoldsRecent(n)'
           /\ InBackup => InBackup'
           /\ HoldsRecent("config") /\ "config" \notin raced => HoldsRecent("config")'
           /\ HoldsRecent("config") /\ job[c].name # "config.tmp" => HoldsRecent("config")'
<1> DEFINE i == job[c].inode
<1>1. LinksDiffer'
  BY DEF OnlyWritten, FilesInv, LinksDiffer
<1>2. JobsAreInOrder'
  BY DEF OnlyWritten, FilesInv, JobsAreInOrder
<1>3. \A n \in Names : disk.inode[n] # None /\ disk.inode[n] # i =>
          /\ Exists(n)' /\ Data(n)' = Data(n)
          /\ disk.inode[n] \in disk.synced => disk'.inode[n] \in disk'.synced
  BY DEF OnlyWritten, Exists, Data
<1>4. \A d \in Destinations \ raced : disk.inode[d] # i
  BY WriterIs, NamesAre DEF Destinations
<1>5. DestinationsAreWhole'
  <2> SUFFICES ASSUME NEW d \in Destinations \ raced, disk.inode[d] # None
               PROVE  Data(d)'[1] # None /\ Data(d)'[1] = Data(d)'[2] /\ disk'.inode[d] \in disk'.synced
    BY DEF OnlyWritten, DestinationsAreWhole, Exists
  <2>1. d \in Names /\ Exists(d)
    BY NamesAre DEF Exists
  <2> QED BY <1>3, <1>4, <2>1 DEF FilesInv, DestinationsAreWhole
<1>6. ASSUME NEW e \in Clients \ {c}, job[e].at \in Writing, job[e].name # "config.tmp" \/ "config" \notin raced
      PROVE  Payload(e)' = Payload(e) /\ disk'.data[job[e].inode] = disk.data[job[e].inode]
  BY <1>6, WriterIs, ClientsAre DEF OnlyWritten, Payload
<1>7. ASSUME NEW e \in Clients \ {c}, NEW o \in Destinations \ raced, job[e].kind \in Replacing,
             Destination(job[e].kind) = o, Exists(Temporary[o])
      PROVE  /\ Data(Temporary[o])' = Data(Temporary[o])
             /\ disk.inode[Temporary[o]] \in disk.synced => disk.inode[Temporary[o]] \in disk'.synced
  <2>1. Temporary[o] \in Names /\ Temporary[o] \in {"reference.tmp", "config.tmp"}
        /\ (o = "reference" <=> Temporary[o] = "reference.tmp")
    BY NamesAre DEF Destinations
  <2>2. job[c].kind # job[e].kind
    BY <1>7, WriterIs
  <2>3. job[c].name # Temporary[o]
    BY <1>7, <2>1, <2>2, JobIs DEF FilesInv, Replacing, Destination
  <2>4. disk.inode[Temporary[o]] # i
    BY <2>1, <2>3, WriterIs
  <2> QED BY <1>3, <1>7, <2>1, <2>4 DEF Exists, OnlyWritten
<1>8. ASSUME NEW n \in {"config"} \cup Backups, HoldsRecent(n), n = "config" => disk.inode[n] # i
      PROVE  HoldsRecent(n)'
  <2>1. n \in Names /\ Exists(n)
    BY <1>8, NamesAre DEF HoldsRecent
  <2>2. disk.inode[n] # i
    <3>1. ASSUME disk.inode[n] = i PROVE FALSE
      <4>1. n \in Backups /\ n = job[c].name
        BY <1>8, <2>1, <3>1, WriterIs, NamesAre
      <4>2. Data(n)[2] = None
        BY <3>1, <4>1, WriterIs, NamesAre DEF Data
      <4> QED BY <1>8, <4>2, ConfigsAre DEF HoldsRecent, IsRecent
    <3> QED BY <3>1
  <2>3. UNCHANGED <<edits, settled>>
    BY DEF OnlyWritten
  <2> QED BY <1>3, <1>8, <2>1, <2>2, <2>3 DEF HoldsRecent, IsRecent, Exists
<1>9. InBackup => InBackup'
  BY <1>8, NamesAre DEF InBackup
<1>10. HoldsRecent("config") /\ "config" \notin raced => HoldsRecent("config")'
  BY <1>4, <1>8 DEF Destinations
<1>11. HoldsRecent("config") /\ job[c].name # "config.tmp" => HoldsRecent("config")'
  <2>1. job[c].name # "config.tmp" => disk.inode["config"] # i
    BY WriterIs, NamesAre
  <2> QED BY <1>8, <2>1
<1> QED BY <1>1, <1>2, <1>5, <1>6, <1>7, <1>8, <1>9, <1>10, <1>11, NamesAre

LEMMA FirstHalfKeepsFilesInv ==
    ASSUME FilesAreGiven, FilesInv, NEW c \in Clients, job[c].at = "write", OnlyWritten(c, job[c].inode),
           job'[c].at = "finish", UNCHANGED receipts,
           job'[c].name = job[c].name, job'[c].inode = job[c].inode, job'[c].kind = job[c].kind,
           job'[c].original = job[c].original, job'[c].doc = job[c].doc,
           disk'.data[job[c].inode][1] = Payload(c),
           disk'.data[job[c].inode][2] = disk.data[job[c].inode][2]
    PROVE  FilesInv'
<1>1. job[c].at \in Writing /\ job'[c].at \in Writing
  BY DEF Writing
<1>2. /\ \A e \in Clients \ {c} : job'[e] = job[e]
      /\ UNCHANGED <<edits, settled, deaths, raced, powerLost, receipts>> /\ disk'.inode = disk.inode
  BY DEF OnlyWritten
<1>3. \A n \in Names : disk.inode[n] # None /\ disk.inode[n] # job[c].inode =>
          /\ Exists(n)' /\ Data(n)' = Data(n)
          /\ disk.inode[n] \in disk.synced => disk'.inode[n] \in disk'.synced
  BY DEF OnlyWritten, Exists, Data
<1>4. Payload(c)' = Payload(c) /\ Payload(c) \in Documents \cup {None}
      /\ (job[c].name = "config.tmp" => Payload(c) \in Configs)
  <2>1. Payload(c)' = Payload(c) /\ Payload(c) \in Documents \cup {None}
    BY JobIs DEF FilesInv, Payload
  <2>2. job[c].name = "config.tmp" => Payload(c) \in Configs
    BY <1>1, JobIs, NamesAre, ClientsAre DEF FilesInv, Payload, JobIsInOrder
  <2> QED BY <2>1, <2>2
<1>5. TypesOK'
  BY <1>2 DEF OnlyWritten, FilesInv, TypesOK
<1>6. LinksDiffer' /\ JobsAreInOrder' /\ DestinationsAreWhole'
  BY <1>1, WriteKeeps
<1>7. OpenIsOwn'
  BY <1>1, <1>2 DEF FilesInv, OpenIsOwn
<1>8. NamesStay'
  BY <1>2 DEF FilesInv, NamesStay
<1>9. ContentIsWritten'
  <2>1. ASSUME NEW e \in Clients \ {c}, job'[e].at \in Writing, job'[e].name # "config.tmp" \/ "config" \notin raced'
        PROVE  /\ job'[e] = job[e] /\ Payload(e)' = Payload(e)
               /\ disk'.data[job[e].inode] = disk.data[job[e].inode]
    BY <1>1, <1>2, <2>1, WriteKeeps
  <2>2. job[c].name # "config.tmp" \/ "config" \notin raced => disk.data[job[c].inode][2] = None
    BY <1>1, WriterIs
  <2> QED BY <1>2, <1>4, <2>1, <2>2 DEF FilesInv, ContentIsWritten
<1>10. ConfigsAreConfigs'
  <2> SUFFICES ASSUME NEW n \in {"config", "config.tmp"}, disk.inode[n] # None
               PROVE  Data(n)'[1] \in Configs \cup {None} /\ Data(n)'[2] \in Configs \cup {None}
    BY <1>2 DEF ConfigsAreConfigs, Exists
  <2>1. n \in Names /\ Data(n)[1] \in Configs \cup {None} /\ Data(n)[2] \in Configs \cup {None}
    BY NamesAre DEF FilesInv, ConfigsAreConfigs, Exists
  <2>2. CASE disk.inode[n] = job[c].inode
    <3>1. job[c].name = "config.tmp"
      BY <1>1, <2>1, <2>2, WriterIs, NamesAre
    <3> QED BY <1>2, <1>4, <2>1, <2>2, <3>1 DEF Data
  <2> QED BY <1>3, <2>1, <2>2
<1>11. NothingIsMixed'
  <2> SUFFICES ASSUME NEW n \in Names \ {"config", "config.tmp"}, disk.inode[n] # None
               PROVE  Data(n)'[1] = None \/ Data(n)'[2] = None \/ Data(n)'[1] = Data(n)'[2]
    BY <1>2 DEF NothingIsMixed, Exists
  <2>1. Data(n)[1] = None \/ Data(n)[2] = None \/ Data(n)[1] = Data(n)[2]
    BY DEF FilesInv, NothingIsMixed, Exists
  <2>2. CASE disk.inode[n] = job[c].inode
    <3>1. job[c].name # "config.tmp"
      BY <1>1, <2>2, WriterIs, NamesAre
    <3>2. disk.data[job[c].inode][2] = None
      BY <1>1, <3>1, WriterIs
    <3> QED BY <1>2, <2>2, <3>2 DEF Data
  <2> QED BY <1>3, <2>1, <2>2
<1>12. AloneUnlessRaced'
  BY <1>2 DEF FilesInv, AloneUnlessRaced
<1>13. TemporariesAreReady'
  <2>1. \A e \in Clients \ {c} : \A o \in Destinations \ raced :
            job[e].kind \in Replacing /\ Destination(job[e].kind) = o /\ Exists(Temporary[o]) =>
                /\ Data(Temporary[o])' = Data(Temporary[o])
                /\ disk.inode[Temporary[o]] \in disk.synced => disk.inode[Temporary[o]] \in disk'.synced
    BY <1>1, WriteKeeps
  <2>2. job'[c].at # "replace"
    OBVIOUS
  <2>3. \A o \in Destinations : Exists(Temporary[o])' <=> Exists(Temporary[o])
    BY <1>2 DEF Exists
  <2> QED BY <1>2, <2>1, <2>2, <2>3 DEF FilesInv, TemporariesAreReady
<1>14. ReceiptsHold'
  <2> SUFFICES ASSUME NEW doc \in receipts
               PROVE  /\ Exists("archive")' /\ Data("archive")'[1] = doc /\ Data("archive")'[2] = doc
                      /\ disk'.inode["archive"] \in disk'.synced
                      /\ \A e \in Clients : job'[e].inode # disk'.inode["archive"]
    BY <1>2 DEF ReceiptsHold
  <2>1. /\ Exists("archive") /\ Data("archive")[1] = doc /\ Data("archive")[2] = doc
        /\ disk.inode["archive"] \in disk.synced
        /\ \A e \in Clients : job[e].inode # disk.inode["archive"]
    BY DEF FilesInv, ReceiptsHold
  <2> QED BY <1>2, <1>3, <2>1, NamesAre DEF Exists
<1>15. ConfigIsKept'
  <2>1. \A e \in Clients : /\ job'[e].kind = job[e].kind /\ job'[e].original = job[e].original
                          /\ HasBackup(job'[e]) => HasBackup(job[e])
    BY <1>2 DEF HasBackup
  <2>2. \A doc : IsRecent(doc) => IsRecent(doc)'
    BY <1>2 DEF IsRecent
  <2>3. /\ InBackup => InBackup'
        /\ HoldsRecent("config") /\ "config" \notin raced => HoldsRecent("config")'
        /\ HoldsRecent("config") /\ job[c].name # "config.tmp" => HoldsRecent("config")'
        /\ job[c].name = "config.tmp" => job[c].kind = "install" /\ HasBackup(job[c])
    BY <1>1, WriteKeeps, WriterIs
  <2> QED BY <1>2, <2>1, <2>2, <2>3 DEF FilesInv, ConfigIsKept
<1> QED BY <1>5, <1>6, <1>7, <1>8, <1>9, <1>10, <1>11, <1>12, <1>13, <1>14, <1>15 DEF FilesInv

LEMMA SecondHalfKeepsFilesInv ==
    ASSUME FilesAreGiven, FilesInv, NEW c \in Clients, job[c].at = "finish", OnlyWritten(c, job[c].inode),
           job'[c].at \notin Writing, job'[c].name = None, job'[c].inode = None,
           job[c].name = "archive" => job'[c].kind = None /\ job'[c].at = "idle",
           job[c].name # "archive" =>
               /\ job'[c].kind = job[c].kind
               /\ job'[c].original = job[c].original /\ job'[c].doc = job[c].doc
               /\ job'[c].at = IF job[c].name \in Backups THEN "open" ELSE "replace",
           receipts' = receipts \cup (IF job[c].name = "archive" THEN {job[c].doc} ELSE {}),
           \A n \in Names : disk.inode[n] = job[c].inode =>
               /\ disk'.data[job[c].inode][1] = disk.data[job[c].inode][1]
               /\ disk'.data[job[c].inode][2] = Payload(c)
               /\ job[c].name \notin Backups => job[c].inode \in disk'.synced
    PROVE  FilesInv'
<1> DEFINE i == job[c].inode
<1>1. job[c].at \in Writing
  BY DEF Writing
<1>2. /\ \A e \in Clients \ {c} : job'[e] = job[e]
      /\ UNCHANGED <<edits, settled, deaths, raced, powerLost>> /\ disk'.inode = disk.inode
  BY DEF OnlyWritten
<1>3. \A n \in Names : disk.inode[n] # None /\ disk.inode[n] # i =>
          /\ Exists(n)' /\ Data(n)' = Data(n)
          /\ disk.inode[n] \in disk.synced => disk'.inode[n] \in disk'.synced
  BY DEF OnlyWritten, Exists, Data
<1>4. /\ Payload(c) \in Documents \cup {None} /\ job[c].doc \in Documents
      /\ job[c].name = "config.tmp" => Payload(c) \in Configs
      /\ job[c].name \notin Backups => Payload(c) = job[c].doc
  <2>1. job[c].kind # None /\ job[c] \in Jobs /\ JobIsInOrder(job[c])
    BY <1>1, ClientsAre DEF JobIsInOrder, Writing
  <2>2. job[c].doc \in Documents
    BY <2>1, ConfigsAre DEF JobIsInOrder, Jobs, Writers
  <2>3. Payload(c) \in Documents \cup {None}
    BY JobIs DEF FilesInv
  <2>4. job[c].name = "config.tmp" => Payload(c) \in Configs
    BY <1>1, <2>1, JobIs, NamesAre DEF FilesInv, Payload, JobIsInOrder
  <2> QED BY <2>2, <2>3, <2>4 DEF Payload
<1>5. ASSUME NEW n \in Names, disk.inode[n] = i
      PROVE  /\ Exists(n)' /\ Data(n)'[1] = disk.data[i][1] /\ Data(n)'[2] = Payload(c)
             /\ disk.data[i] = Data(n)
             /\ job[c].name # "config.tmp" \/ "config" \notin raced => Data(n)'[1] = Payload(c)
  <2>1. disk'.inode[n] = i /\ i # None
    BY <1>1, <1>2, <1>5, ClientsAre
  <2> QED BY <1>1, <1>5, <2>1, WriterIs DEF Exists, Data
<1>6. TypesOK'
  <2>1. receipts' \subseteq Documents
    BY <1>4 DEF FilesInv, TypesOK
  <2> QED BY <1>2, <2>1 DEF OnlyWritten, FilesInv, TypesOK
<1>7. LinksDiffer' /\ JobsAreInOrder' /\ DestinationsAreWhole'
  BY <1>1, WriteKeeps
<1>8. OpenIsOwn'
  BY <1>1, <1>2, ClientsAre DEF FilesInv, OpenIsOwn
<1>9. NamesStay'
  BY <1>2, NamesAre DEF FilesInv, NamesStay
<1>10. ContentIsWritten'
  <2>1. ASSUME NEW e \in Clients \ {c}, job'[e].at \in Writing, job'[e].name # "config.tmp" \/ "config" \notin raced'
        PROVE  /\ job'[e] = job[e] /\ Payload(e)' = Payload(e)
               /\ disk'.data[job[e].inode] = disk.data[job[e].inode]
    BY <1>1, <1>2, <2>1, WriteKeeps
  <2> QED BY <1>2, <2>1 DEF FilesInv, ContentIsWritten
<1>11. ConfigsAreConfigs'
  <2> SUFFICES ASSUME NEW n \in {"config", "config.tmp"}, disk.inode[n] # None
               PROVE  Data(n)'[1] \in Configs \cup {None} /\ Data(n)'[2] \in Configs \cup {None}
    BY <1>2 DEF ConfigsAreConfigs, Exists
  <2>1. n \in Names /\ Data(n)[1] \in Configs \cup {None} /\ Data(n)[2] \in Configs \cup {None}
    BY NamesAre DEF FilesInv, ConfigsAreConfigs, Exists
  <2>2. CASE disk.inode[n] = i
    <3>1. job[c].name = "config.tmp"
      BY <1>1, <2>1, <2>2, WriterIs, NamesAre
    <3> QED BY <1>4, <1>5, <2>1, <2>2, <3>1
  <2> QED BY <1>3, <2>1, <2>2
<1>12. NothingIsMixed'
  <2> SUFFICES ASSUME NEW n \in Names \ {"config", "config.tmp"}, disk.inode[n] # None
               PROVE  Data(n)'[1] = None \/ Data(n)'[2] = None \/ Data(n)'[1] = Data(n)'[2]
    BY <1>2 DEF NothingIsMixed, Exists
  <2>1. Data(n)[1] = None \/ Data(n)[2] = None \/ Data(n)[1] = Data(n)[2]
    BY DEF FilesInv, NothingIsMixed, Exists
  <2>2. CASE disk.inode[n] = i
    <3>1. job[c].name # "config.tmp"
      BY <1>1, <2>2, WriterIs, NamesAre
    <3> QED BY <1>5, <2>2, <3>1
  <2> QED BY <1>3, <2>1, <2>2
<1>13. AloneUnlessRaced'
  BY <1>2, ClientsAre DEF FilesInv, AloneUnlessRaced
<1>14. TemporariesAreReady'
  <2>1. \A e \in Clients \ {c} : \A o \in Destinations \ raced :
            job[e].kind \in Replacing /\ Destination(job[e].kind) = o /\ Exists(Temporary[o]) =>
                /\ Data(Temporary[o])' = Data(Temporary[o])
                /\ disk.inode[Temporary[o]] \in disk.synced => disk.inode[Temporary[o]] \in disk'.synced
    BY <1>1, WriteKeeps
  <2>2. \A o \in Destinations : Exists(Temporary[o])' <=> Exists(Temporary[o])
    BY <1>2 DEF Exists
  <2>3. ASSUME NEW o \in Destinations \ raced, job'[c].kind \in Replacing, Destination(job'[c].kind) = o,
               job'[c].at = "replace"
        PROVE  /\ Data(Temporary[o])'[1] = job'[c].doc /\ Data(Temporary[o])'[2] = job'[c].doc
               /\ disk'.inode[Temporary[o]] \in disk'.synced
    <3>1. /\ job[c].name # "archive" /\ job[c].name \notin Backups
          /\ job'[c].kind = job[c].kind /\ job'[c].doc = job[c].doc
      BY <2>3, ClientsAre
    <3>2. job[c].name = Temporary[o] /\ Temporary[o] \in Names
      BY <1>1, <2>3, JobIs, NamesAre DEF FilesInv, Destinations, Destination, Replacing
    <3>3. disk.inode[Temporary[o]] = i
      BY <2>3, <3>1, <3>2 DEF FilesInv, TemporariesAreReady
    <3>4. job[c].name # "config.tmp" \/ "config" \notin raced
      BY <2>3, <3>2, NamesAre DEF Destinations
    <3> QED BY <1>2, <1>4, <1>5, <3>1, <3>2, <3>3, <3>4
  <2>4. \A o \in Destinations : job'[c].name # Temporary[o]
    BY NamesAre
  <2> QED BY <1>2, <2>1, <2>2, <2>3, <2>4 DEF FilesInv, TemporariesAreReady
<1>15. ReceiptsHold'
  <2>1. ASSUME NEW doc \in receipts
        PROVE  /\ Exists("archive")' /\ Data("archive")'[1] = doc /\ Data("archive")'[2] = doc
               /\ disk'.inode["archive"] \in disk'.synced
               /\ \A e \in Clients : job'[e].inode # disk'.inode["archive"]
    <3>1. /\ Exists("archive") /\ Data("archive")[1] = doc /\ Data("archive")[2] = doc
          /\ disk.inode["archive"] \in disk.synced
          /\ \A e \in Clients : job[e].inode # disk.inode["archive"]
      BY DEF FilesInv, ReceiptsHold
    <3> QED BY <1>2, <1>3, <3>1, NamesAre DEF Exists
  <2>2. ASSUME job[c].name = "archive"
        PROVE  /\ Exists("archive")' /\ Data("archive")'[1] = job[c].doc /\ Data("archive")'[2] = job[c].doc
               /\ disk'.inode["archive"] \in disk'.synced
               /\ \A e \in Clients : job'[e].inode # disk'.inode["archive"]
    <3>1. disk.inode["archive"] = i /\ "archive" \in Names /\ i # None
      BY <1>1, <2>2, NamesAre, ClientsAre DEF FilesInv, NamesStay
    <3>2. \A e \in Clients \ {c} : job[e].inode # i
      BY <1>1, <2>2, WriterIs
    <3> QED BY <1>2, <1>4, <1>5, <2>2, <3>1, <3>2, NamesAre
  <2> QED BY <2>1, <2>2 DEF ReceiptsHold
<1>16. ConfigIsKept'
  <2>1. \A e \in Clients : job'[e].kind = "install" => job[e].kind = "install" /\ job'[e].original = job[e].original
    BY <1>2, NamesAre DEF Writers
  <2>2. \A doc : IsRecent(doc) => IsRecent(doc)'
    BY <1>2 DEF IsRecent
  <2>3. /\ InBackup => InBackup'
        /\ HoldsRecent("config") /\ "config" \notin raced => HoldsRecent("config")'
        /\ HoldsRecent("config") /\ job[c].name # "config.tmp" => HoldsRecent("config")'
        /\ job[c].name = "config.tmp" => job[c].kind = "install" /\ HasBackup(job[c])
    BY <1>1, WriteKeeps, WriterIs
  <2>4. ASSUME job[c].name \in Backups, IsRecent(job[c].original), settled > 0
        PROVE  InBackup'
    <3>1. PICK n \in Backups : n = job[c].name /\ disk.inode[n] = i /\ n \in Names
      BY <2>4, NamesAre DEF FilesInv, NamesStay
    <3>2. Payload(c) = job[c].original
      <4>1. NoServers[2] = 0
        BY DEF NoServers, Config
      <4>2. edits \in Nat /\ settled \in Nat
        BY DEF FilesInv, TypesOK, FilesAreGiven
      <4> QED BY <2>4, <4>1, <4>2 DEF Payload, IsRecent
    <3>4. job[c].name # "config.tmp"
      BY <2>4, NamesAre
    <3>5. Exists(n)' /\ Data(n)'[1] = job[c].original /\ Data(n)'[2] = job[c].original
      BY <1>5, <3>1, <3>2, <3>4
    <3>6. UNCHANGED <<edits, settled>>
      BY <1>2
    <3> QED BY <2>4, <3>5, <3>6 DEF InBackup, HoldsRecent, IsRecent
  <2>5. HasBackup(job'[c]) /\ job'[c].kind = "install" =>
            job[c].kind = "install" /\ (HasBackup(job[c]) \/ job[c].name \in Backups)
    <3>1. job'[c].kind = "install" => job[c].name # "archive" /\ job[c].kind = "install"
      BY <2>1, NamesAre DEF Writers
    <3>2. job[c].kind = "install" /\ job[c].name \notin Backups => job[c].name = "config.tmp"
      BY <1>1, WriterIs, JobIs, NamesAre DEF FilesInv
    <3> QED BY <3>1, <3>2 DEF HasBackup
  <2>6. \A e \in Clients \ {c} : HasBackup(job'[e]) => HasBackup(job[e])
    BY <1>2
  <2> QED BY <1>2, <2>1, <2>2, <2>3, <2>4, <2>5 DEF FilesInv, ConfigIsKept
<1> QED BY <1>6, <1>7, <1>8, <1>9, <1>10, <1>11, <1>12, <1>13, <1>14, <1>15, <1>16 DEF FilesInv

\* os.replace: what bears the temporary name is the destination now.
LEMMA ReplaceKeepsFilesInv ==
    ASSUME FilesAreGiven, FilesInv, NEW c \in Clients, Replace(c)
    PROVE  FilesInv'
<1>0. PICK d \in Destinations, t \in Names : d = Destination(job[c].kind) /\ t = Temporary[d]
  BY NamesAre DEF Destination, Destinations
<1>1. job[c].at = "replace" /\ job[c].kind \in Replacing
  BY ClientsAre, NamesAre DEF Replace, JobIsInOrder, Jobs, Writers, Replacing, Destination, Destinations, Writing
<1>2. /\ t \in Names \ Destinations /\ d \in Names /\ t # d /\ d \notin Backups /\ t \notin Backups
      /\ t \in {"reference.tmp", "config.tmp"} /\ t # "archive" /\ d # "archive"
      /\ (d = "config" <=> t = "config.tmp") /\ (d = "config" <=> job[c].kind = "install")
  BY <1>0, <1>1, NamesAre DEF Destinations, Destination, Replacing
<1>3. /\ Exists(t) /\ UNCHANGED <<edits, settled, deaths, receipts, raced, powerLost>>
      /\ Do(c, Renamed(disk, t, d), Idle)
  BY <1>0 DEF Replace, Unobserved
<1>4. /\ Renamed(disk, t, d) \in Disks
      /\ Renamed(disk, t, d).inode = [[disk.inode EXCEPT ![d] = disk.inode[t]] EXCEPT ![t] = None]
      /\ Renamed(disk, t, d).data = disk.data /\ Renamed(disk, t, d).synced = disk.synced
  BY <1>2, ClientsAre, RenamedIs
<1>5. /\ job' \in [Clients -> Jobs] /\ job'[c] = Idle
      /\ \A e \in Clients \ {c} : job'[e] = job[e]
      /\ KeepsUsed(disk', job', Renamed(disk, t, d))
  BY <1>3, <1>4, IdleIs, DoIs DEF FilesInv, TypesOK
<1>6. /\ disk' \in Disks
      /\ disk'.inode[d] = disk.inode[t] /\ disk'.inode[t] = None
      /\ \A n \in Names \ {d, t} : disk'.inode[n] = disk.inode[n]
  BY <1>2, <1>4, <1>5, ClientsAre DEF KeepsUsed
<1>7. /\ \A n \in Names \ {d} : disk.inode[n] # None =>
            /\ disk'.data[disk.inode[n]] = disk.data[disk.inode[n]]
            /\ disk.inode[n] \in disk.synced => disk.inode[n] \in disk'.synced
      /\ \A e \in Clients \ {c} : job[e].inode # None => disk'.data[job[e].inode] = disk.data[job[e].inode]
  <2>1. \A n \in Names : Renamed(disk, t, d).inode[n] # None =>
            /\ disk'.data[Renamed(disk, t, d).inode[n]] = disk.data[Renamed(disk, t, d).inode[n]]
            /\ Renamed(disk, t, d).inode[n] \in disk.synced => Renamed(disk, t, d).inode[n] \in disk'.synced
    BY <1>4, <1>5 DEF KeepsUsed
  <2>2. disk'.inode = Renamed(disk, t, d).inode
    BY <1>5 DEF KeepsUsed
  <2>3. \A n \in Names \ {d, t} : disk.inode[n] # None =>
            /\ disk'.data[disk.inode[n]] = disk.data[disk.inode[n]]
            /\ disk.inode[n] \in disk.synced => disk.inode[n] \in disk'.synced
    BY <1>6, <2>1, <2>2
  <2>4. disk.inode[t] # None => /\ disk'.data[disk.inode[t]] = disk.data[disk.inode[t]]
                                /\ disk.inode[t] \in disk.synced => disk.inode[t] \in disk'.synced
    BY <1>2, <1>6, <2>1, <2>2
  <2>5. \A e \in Clients \ {c} : job[e].inode # None => disk'.data[job[e].inode] = disk.data[job[e].inode]
    BY <1>4, <1>5 DEF KeepsUsed
  <2> QED BY <1>2, <2>3, <2>4, <2>5
<1>8. /\ disk.inode[t] # None
      /\ Data(d)' = Data(t) /\ Exists(d)' /\ ~Exists(t)'
      /\ \A n \in Names \ {d, t} : /\ Exists(n)' <=> Exists(n)
                                   /\ Exists(n) => Data(n)' = Data(n)
  BY <1>2, <1>3, <1>6, <1>7 DEF Exists, Data
<1>9. /\ Idle.at \notin Writing /\ Idle.at # "replace" /\ ~HasBackup(Idle)
      /\ Idle.kind = None /\ Idle.name = None /\ Idle.inode = None /\ JobIsInOrder(Idle)
  BY IdleIs, NamesAre DEF Writing, HasBackup
<1>10. ASSUME d \notin raced
       PROVE  /\ \A e \in Clients \ {c} : job[e].kind # job[c].kind
              /\ Data(t)[1] = job[c].doc /\ Data(t)[2] = job[c].doc /\ disk.inode[t] \in disk.synced
  <2>1. \A e \in Clients \ {c} : job[e].kind # job[c].kind
    BY <1>0, <1>1, <1>10 DEF FilesInv, AloneUnlessRaced
  <2>2. Data(t)[1] = job[c].doc /\ Data(t)[2] = job[c].doc /\ disk.inode[t] \in disk.synced
    BY <1>0, <1>1, <1>3, <1>10 DEF FilesInv, TemporariesAreReady
  <2> QED BY <2>1, <2>2
<1>11. TypesOK'
  BY <1>3, <1>5, <1>6 DEF FilesInv, TypesOK
<1>12. JobsAreInOrder'
  BY <1>5, <1>9 DEF FilesInv, JobsAreInOrder
<1>13. LinksDiffer'
  BY <1>2, <1>6 DEF FilesInv, LinksDiffer
<1>14. OpenIsOwn'
  <2>1. ASSUME NEW e \in Clients \ {c}, job[e].at \in Writing, NEW n \in Names, disk'.inode[n] = job[e].inode
        PROVE  \/ n = job[e].name
               \/ n = "reference" /\ job[e].name = "reference.tmp"
               \/ n = "config" /\ job[e].name = "config.tmp"
    <3>1. job[e].inode # None
      BY <2>1, ClientsAre
    <3>2. CASE n \notin {d, t}
      BY <1>6, <2>1, <3>2 DEF FilesInv, OpenIsOwn
    <3>3. CASE n = d
      <4>1. disk.inode[t] = job[e].inode
        BY <1>6, <2>1, <3>3
      <4>2. t = job[e].name
        BY <1>2, <2>1, <4>1 DEF FilesInv, OpenIsOwn
      <4> QED BY <1>1, <1>2, <3>3, <4>2 DEF Destinations
    <3> QED BY <1>6, <2>1, <3>1, <3>2, <3>3
  <2>2. \A e \in Clients : job'[e].at \in Writing => e # c /\ job'[e] = job[e]
    BY <1>5, <1>9
  <2>3. ASSUME NEW e \in Clients \ {c}, NEW f \in Clients \ {e}, job[e].at \in Writing, job'[f].inode = job[e].inode
        PROVE  job[e].name = "config.tmp" /\ job'[f].name = "config.tmp"
    <3>1. f # c /\ job'[f] = job[f]
      BY <1>5, <1>9, <2>3, ClientsAre
    <3> QED BY <2>3, <3>1 DEF FilesInv, OpenIsOwn
  <2> QED BY <2>1, <2>2, <2>3 DEF OpenIsOwn
<1>15. NamesStay'
  <2>1. ASSUME NEW e \in Clients, NEW n \in {"archive"} \cup Backups, job'[e].name = n
        PROVE  disk'.inode[n] = job'[e].inode
    <3>1. n \in Names \ {d, t}
      BY <1>2, NamesAre
    <3>2. job'[e] = job[e]
      BY <1>5, <1>9, <2>1, <3>1, ClientsAre
    <3>3. disk.inode[n] = job[e].inode
      BY <2>1, <3>2 DEF FilesInv, NamesStay
    <3> QED BY <1>6, <3>1, <3>2, <3>3
  <2> QED BY <2>1 DEF NamesStay
<1>16. ContentIsWritten'
  <2>1. ASSUME NEW e \in Clients, job'[e].at \in Writing
        PROVE  /\ job'[e] = job[e] /\ Payload(e)' = Payload(e)
               /\ disk'.data[job'[e].inode] = disk.data[job[e].inode]
    BY <1>5, <1>7, <1>9, <2>1, ClientsAre DEF Payload
  <2> QED BY <1>3, <2>1 DEF FilesInv, ContentIsWritten
<1>17. ConfigsAreConfigs'
  BY <1>1, <1>2, <1>3, <1>8, NamesAre DEF FilesInv, ConfigsAreConfigs, Destinations
<1>18. NothingIsMixed'
  <2> SUFFICES ASSUME NEW n \in Names \ {"config", "config.tmp"}, Exists(n)'
               PROVE  Data(n)'[1] = None \/ Data(n)'[2] = None \/ Data(n)'[1] = Data(n)'[2]
    BY DEF NothingIsMixed
  <2>1. CASE n = d
    BY <1>2, <1>3, <1>8, <2>1 DEF FilesInv, NothingIsMixed
  <2>2. CASE n # d
    BY <1>8, <2>2 DEF FilesInv, NothingIsMixed
  <2> QED BY <2>1, <2>2
<1>19. AloneUnlessRaced'
  BY <1>3, <1>5, <1>9, ClientsAre DEF FilesInv, AloneUnlessRaced
<1>20. DestinationsAreWhole'
  <2> SUFFICES ASSUME NEW o \in Destinations \ raced, Exists(o)'
               PROVE  Data(o)'[1] # None /\ Data(o)'[1] = Data(o)'[2] /\ disk'.inode[o] \in disk'.synced
    BY <1>3 DEF DestinationsAreWhole
  <2>1. CASE o = d
    <3>1. job[c].doc # None
      BY <1>1, ClientsAre, ConfigsAre DEF Replacing, JobIsInOrder
    <3> QED BY <1>6, <1>7, <1>8, <1>10, <2>1, <3>1
  <2>2. CASE o # d
    <3>1. o \in Names \ {d, t} /\ Exists(o)
      BY <1>2, <1>8, <2>2, NamesAre
    <3>2. Data(o)[1] # None /\ Data(o)[1] = Data(o)[2] /\ disk.inode[o] \in disk.synced
      BY <3>1 DEF FilesInv, DestinationsAreWhole
    <3> QED BY <1>6, <1>7, <1>8, <3>1, <3>2 DEF Exists
  <2> QED BY <2>1, <2>2
<1>21. TemporariesAreReady'
  <2>1. ASSUME NEW e \in Clients, NEW o \in Destinations \ raced, job'[e].kind \in Replacing,
               Destination(job'[e].kind) = o
        PROVE  e # c /\ job'[e] = job[e] /\ Temporary[o] \in Names \ {d, t}
    <3>1. e # c /\ job'[e] = job[e]
      BY <1>5, <1>9, <2>1, ClientsAre
    <3>2. o # d
      BY <1>0, <1>1, <1>10, <2>1, <3>1 DEF Replacing, Destination
    <3> QED BY <1>0, <3>1, <3>2, NamesAre DEF Destinations
  <2>2. \A n \in Names \ {d, t} : disk'.inode[n] = disk.inode[n] /\ (Exists(n)' <=> Exists(n))
            /\ (Exists(n) => Data(n)' = Data(n) /\ (disk.inode[n] \in disk.synced => disk'.inode[n] \in disk'.synced))
    BY <1>6, <1>7, <1>8 DEF Exists
  <2>3. raced' = raced
    BY <1>3
  <2> HIDE DEF Exists, Data
  <2> QED BY <2>1, <2>2, <2>3 DEF FilesInv, TemporariesAreReady
<1>22. ReceiptsHold'
  <2>1. "archive" \in Names \ {d, t}
    BY <1>2, NamesAre
  <2> QED BY <1>3, <1>5, <1>6, <1>7, <1>8, <1>9, <2>1 DEF FilesInv, ReceiptsHold, Exists
<1>23. ConfigIsKept'
  <2>1. \A n \in Backups : HoldsRecent(n) => HoldsRecent(n)'
    BY <1>2, <1>3, <1>8, NamesAre DEF HoldsRecent, IsRecent
  <2>2. InBackup => InBackup'
    BY <2>1 DEF InBackup
  <2>3. \A e \in Clients : job'[e].kind = "install" => e # c /\ job'[e] = job[e]
    BY <1>5, <1>9, ClientsAre
  <2>4. (\A doc : IsRecent(doc) => IsRecent(doc)') /\ UNCHANGED <<edits, settled, raced, powerLost>>
    BY <1>3 DEF IsRecent
  <2>5. job[c].kind = "install" => HasBackup(job[c])
    BY <1>1 DEF HasBackup
  <2>6. HoldsRecent("config") /\ d # "config" => HoldsRecent("config")'
    BY <1>2, <1>3, <1>8, NamesAre DEF HoldsRecent, IsRecent, Destinations
  <2>7. ASSUME d = "config", "config" \notin raced, settled > 0
        PROVE  HoldsRecent("config")'
    <3>1. IsRecent(job[c].original) /\ job[c].kind = "install"
      BY <1>2, <2>7 DEF FilesInv, ConfigIsKept
    <3>2. IsRecent(job[c].doc)
      BY <3>1, ClientsAre, ConfigsAre DEF IsRecent, JobIsInOrder
    <3> QED BY <1>3, <1>8, <1>10, <2>7, <3>2 DEF HoldsRecent, IsRecent
  <2> QED BY <1>2, <2>2, <2>3, <2>4, <2>5, <2>6, <2>7 DEF FilesInv, ConfigIsKept
<1> QED BY <1>11, <1>12, <1>13, <1>14, <1>15, <1>16, <1>17, <1>18, <1>19, <1>20, <1>21, <1>22, <1>23 DEF FilesInv

-------------------------------------------------------------------------------
(***************************************************************************)
(* The actions are steps of these kinds.                                   *)
(***************************************************************************)
LEMMA StartKeepsFilesInv ==
    ASSUME FilesAreGiven, FilesInv, NEW c \in Clients, Export(c) \/ Refresh(c)
    PROVE  FilesInv'
<1>1. <<"archive", c>> \in Documents /\ <<"reference", c>> \in Documents /\ None \notin Documents
  BY DEF Documents, FilesAreGiven
<1>2. CASE Export(c)
  <2>1. PICK r : r = [Idle EXCEPT !.kind = "export", !.at = "create", !.doc = <<"archive", c>>]
    OBVIOUS
  <2>2. /\ r.kind = "export" /\ r.at = "create" /\ r.doc = <<"archive", c>>
        /\ r.name = None /\ r.inode = None /\ r \in Jobs
    BY <1>1, <2>1, IdleIs DEF Jobs, Writers, Steps
  <2>3. JobIsInOrder(r)
    BY <1>1, <2>2, NamesAre DEF JobIsInOrder, Writers, Writing
  <2>4. Begin(c, r)
    BY <1>2, <2>1 DEF Export
  <2> QED BY <2>2, <2>3, <2>4, BeginKeepsFilesInv
<1>3. CASE Refresh(c)
  <2>1. PICK r : r = [Idle EXCEPT !.kind = "refresh", !.at = "clear", !.doc = <<"reference", c>>]
    OBVIOUS
  <2>2. /\ r.kind = "refresh" /\ r.at = "clear" /\ r.doc = <<"reference", c>>
        /\ r.name = None /\ r.inode = None /\ r \in Jobs
    BY <1>1, <2>1, IdleIs DEF Jobs, Writers, Steps
  <2>3. JobIsInOrder(r)
    BY <1>1, <2>2, NamesAre DEF JobIsInOrder, Writers, Writing
  <2>4. Begin(c, r)
    BY <1>3, <2>1 DEF Refresh
  <2> QED BY <2>2, <2>3, <2>4, BeginKeepsFilesInv
<1> QED BY <1>2, <1>3

LEMMA InstallKeepsFilesInv ==
    ASSUME FilesAreGiven, FilesInv, NEW c \in Clients, NEW entry \in Entries, Install(c, entry)
    PROVE  FilesInv'
<1> DEFINE found == IF ~Exists("config") THEN None
                    ELSE IF Data("config") = Empty THEN NoServers ELSE Data("config")[1]
<1>1. PICK original : original = found
  OBVIOUS
<1>2. Exists("config") => Whole("config") \/ Data("config") = Empty
  BY DEF Install
<1>3. Exists("config") => original \in Configs
  BY <1>1, <1>2, ConfigsAre DEF FilesInv, ConfigsAreConfigs, Whole
<1>4. /\ original \in Configs \cup {None} /\ (original = None <=> ~Exists("config"))
      /\ None \notin Configs
  BY <1>1, <1>3, ConfigsAre
<1>5. HoldsRecent("config") => IsRecent(original)
  BY <1>1, EmptyIs, ConfigsAre DEF HoldsRecent, IsRecent
<1>6. PICK merged : merged = Config(IF original = None THEN 0 ELSE original[2], entry)
  OBVIOUS
<1>7. merged \in Configs /\ (original # None => merged[2] = original[2])
  BY <1>4, <1>6, ConfigsAre DEF FilesAreGiven
<1>8. PICK r : r = [Idle EXCEPT !.kind = "install", !.doc = merged, !.entry = entry,
                                !.original = original,
                                !.at = IF original = None THEN "open" ELSE "backup"]
  OBVIOUS
<1>9. /\ r.kind = "install" /\ r.doc = merged /\ r.original = original
      /\ r.at = (IF original = None THEN "open" ELSE "backup")
      /\ r.name = None /\ r.inode = None /\ r \in Jobs
  <2>1. merged \in Documents
    BY <1>7, ConfigsAre
  <2> QED BY <1>4, <1>8, <2>1, IdleIs DEF Jobs, Writers, Steps
<1>10. JobIsInOrder(r)
  BY <1>4, <1>7, <1>9, NamesAre DEF JobIsInOrder, Writers, Writing
<1>11. Begin(c, r)
  BY <1>1, <1>6, <1>8 DEF Install
<1>12. /\ r.at = "open" => ~Exists("config")
       /\ HoldsRecent("config") => IsRecent(r.original) /\ r.at = "backup"
  BY <1>4, <1>5, <1>9 DEF HoldsRecent
<1> QED BY <1>9, <1>10, <1>11, <1>12, BeginKeepsFilesInv

LEMMA ClearKeepsFilesInv ==
    ASSUME FilesAreGiven, FilesInv, NEW c \in Clients, Clear(c)
    PROVE  FilesInv'
<1>1. job[c].at = "clear" /\ job[c].kind = "refresh"
  BY ClientsAre, NamesAre DEF Clear, JobIsInOrder, Jobs, Writers, Writing
<1>2. PICK r : r = [job[c] EXCEPT !.at = "create"]
  OBVIOUS
<1>3. /\ r \in Jobs /\ r.at = "create" /\ r.kind = "refresh" /\ r.doc = job[c].doc
      /\ r.name = None /\ r.inode = None
  BY <1>1, <1>2, ClientsAre DEF Jobs, Steps, Writing
<1>4. JobIsInOrder(r)
  BY <1>1, <1>3, ClientsAre, NamesAre DEF JobIsInOrder, Writers, Writing
<1>5. /\ "reference" \in Destinations /\ job[c].kind \in Replacing
      /\ Destination(job[c].kind) = "reference"
  BY <1>1 DEF Destinations, Replacing, Destination
<1>6. Do(c, Unlinked(disk, Temporary["reference"]), r) /\ Unobserved
  BY <1>2, NamesAre DEF Clear, Step
<1> QED BY <1>1, <1>3, <1>4, <1>5, <1>6, UnlinkKeepsFilesInv

LEMMA FailKeepsFilesInv ==
    ASSUME FilesAreGiven, FilesInv, NEW c \in Clients, Fail(c)
    PROVE  FilesInv'
<1>1. job[c].kind \in Writers /\ Unobserved
  BY ClientsAre DEF Fail, Jobs
<1>2. CASE job[c].kind # "export"
  <2>1. job[c].kind \in Replacing
    BY <1>1, <1>2 DEF Writers, Replacing
  <2>2. PICK d \in Destinations : d = Destination(job[c].kind)
    BY DEF Destination, Destinations
  <2>3. Do(c, Unlinked(disk, Temporary[d]), Idle)
    BY <1>2, <2>2 DEF Fail
  <2> QED BY <1>1, <2>1, <2>2, <2>3, IdleIs, UnlinkKeepsFilesInv
<1>3. CASE job[c].kind = "export" /\ job[c].at = "create"
  <2>1. Do(c, disk, Idle)
    BY <1>3 DEF Fail
  <2> QED BY <1>1, <2>1, StopKeepsFilesInv DEF Unobserved, FilesInv, TypesOK
<1>4. CASE job[c].kind = "export" /\ job[c].at # "create"
  <2>1. job[c].at \in Writing
    BY <1>4, ClientsAre DEF JobIsInOrder
  <2>2. Do(c, Unlinked(disk, "archive"), Idle)
    BY <1>4 DEF Fail
  <2> QED BY <1>1, <1>4, <2>1, <2>2, UnlinkArchiveKeepsFilesInv
<1> QED BY <1>2, <1>3, <1>4

LEMMA DieKeepsFilesInv ==
    ASSUME FilesAreGiven, FilesInv, NEW c \in Clients, Die(c)
    PROVE  FilesInv'
<1>1. deaths' \in 0 .. MaxDeaths
  BY DEF Die, FilesInv, TypesOK, FilesAreGiven
<1> QED BY <1>1, StopKeepsFilesInv DEF Die

\* A file that is opened, new or truncated.
LEMMA UseOpens ==
    ASSUME FilesAreGiven, FilesInv, NEW c \in Clients, NEW i \in Inodes,
           NEW file \in {"archive", "reference.tmp", "config.tmp"} \cup Backups,
           NEW d \in Disks, Use(c, "write", file, i, d),
           JobIsInOrder([job[c] EXCEPT !.at = "write", !.name = file, !.inode = i]),
           d.inode[file] = i, d.data = [disk.data EXCEPT ![i] = Empty], d.synced = disk.synced \ {i},
           \A n \in Names \ {file} : d.inode[n] = disk.inode[n] /\ disk.inode[n] # i
    PROVE  Opens(c, file, i)
<1>1. PICK r : r = [job[c] EXCEPT !.at = "write", !.name = file, !.inode = i]
  OBVIOUS
<1>2. file \in Names /\ i # None
  BY NamesAre, ClientsAre
<1>3. /\ r \in Jobs /\ r.at = "write" /\ r.name = file /\ r.inode = i
      /\ r.kind = job[c].kind /\ r.original = job[c].original
  BY <1>1, <1>2, ClientsAre DEF Jobs, Steps
<1>4. /\ job' \in [Clients -> Jobs] /\ job'[c] = r
      /\ \A e \in Clients \ {c} : job'[e] = job[e]
      /\ KeepsUsed(disk', job', d)
  BY <1>1, <1>3, DoIs DEF Use, FilesInv, TypesOK
<1>5. UNCHANGED <<edits, settled, deaths, receipts, raced, powerLost>>
  BY DEF Use, Unobserved
<1>6. /\ disk' \in Disks /\ disk'.inode = d.inode /\ disk'.data[i] = Empty
      /\ \A n \in Names : d.inode[n] # None =>
            /\ disk'.data[d.inode[n]] = d.data[d.inode[n]]
            /\ d.inode[n] \in d.synced => d.inode[n] \in disk'.synced
      /\ \A e \in Clients : job'[e].inode # None => disk'.data[job'[e].inode] = d.data[job'[e].inode]
  <2>1. d.data[i] = Empty
    BY ClientsAre DEF Disks
  <2> QED BY <1>2, <1>4, <2>1 DEF KeepsUsed
<1>7. \A n \in Names \ {file} : disk.inode[n] # None =>
          /\ disk'.data[disk.inode[n]] = disk.data[disk.inode[n]]
          /\ disk.inode[n] \in disk.synced => disk.inode[n] \in disk'.synced
  <2>1. \A o \in Inodes \ {i} : d.data[o] = disk.data[o]
    BY ClientsAre DEF Disks
  <2> QED BY <1>6, <2>1, ClientsAre
<1>8. \A e \in Clients \ {c} : job[e].inode # None /\ job[e].inode # i =>
          disk'.data[job[e].inode] = disk.data[job[e].inode]
  <2>1. \A o \in Inodes \ {i} : d.data[o] = disk.data[o]
    BY ClientsAre DEF Disks
  <2> QED BY <1>4, <1>6, <2>1, ClientsAre
<1> QED BY <1>1, <1>3, <1>4, <1>5, <1>6, <1>7, <1>8 DEF Opens

LEMMA CreatedInDisk ==
    ASSUME disk \in Disks
    PROVE  \A n \in Names, i \in Inodes :
              /\ Created(disk, n, i) \in Disks
              /\ Created(disk, n, i).inode = [disk.inode EXCEPT ![n] = i]
              /\ Created(disk, n, i).data = [disk.data EXCEPT ![i] = Empty]
              /\ Created(disk, n, i).synced = disk.synced \ {i}
BY CreatedIs

\* A file that did not exist gets an inode nobody has.
LEMMA CreatesOpens ==
    ASSUME FilesAreGiven, FilesInv, NEW c \in Clients,
           NEW file \in {"archive", "reference.tmp", "config.tmp"} \cup Backups,
           job[c].at \notin Writing, ~Exists(file), file = "config.tmp" => job[c].at = "open",
           Use(c, "write", file, NewInode, Created(disk, file, NewInode)),
           \A i \in Inodes : JobIsInOrder([job[c] EXCEPT !.at = "write", !.name = file, !.inode = i])
    PROVE  FilesInv'
<1>1. PICK i \in Inodes : i = NewInode
  BY NewInodeIs DEF FilesInv
<1>2. file \in Names
  BY NamesAre
<1>3. /\ \A n \in Names : disk.inode[n] # i
      /\ \A e \in Clients : job[e].inode # i
  BY <1>1, NewInodeIs DEF FilesInv
<1>4. PICK d \in Disks : /\ d = Created(disk, file, i)
                         /\ d.inode = [disk.inode EXCEPT ![file] = i]
                         /\ d.data = [disk.data EXCEPT ![i] = Empty] /\ d.synced = disk.synced \ {i}
  <2>1. /\ Created(disk, file, i) \in Disks
        /\ Created(disk, file, i).inode = [disk.inode EXCEPT ![file] = i]
        /\ Created(disk, file, i).data = [disk.data EXCEPT ![i] = Empty]
        /\ Created(disk, file, i).synced = disk.synced \ {i}
    BY <1>1, <1>2, ClientsAre, CreatedInDisk
  <2> QED BY <2>1
<1>5. d.inode[file] = i /\ \A n \in Names \ {file} : d.inode[n] = disk.inode[n]
  BY <1>2, <1>4, ClientsAre
<1>6. Use(c, "write", file, i, d)
  BY <1>1, <1>4
<1>7. Opens(c, file, i)
  BY <1>3, <1>4, <1>5, <1>6, UseOpens
<1> QED BY <1>3, <1>7, OpenKeepsFilesInv

LEMMA OrderToWrite ==
    ASSUME FilesAreGiven, FilesInv, NEW c \in Clients, NEW i \in Inodes,
           NEW file \in {"archive", "reference.tmp", "config.tmp"} \cup Backups,
           \/ job[c].kind = "export" /\ file = "archive"
           \/ job[c].kind = "refresh" /\ file = "reference.tmp"
           \/ job[c].kind = "install" /\ file = "config.tmp"
           \/ job[c].at = "backup" /\ file \in Backups
    PROVE  JobIsInOrder([job[c] EXCEPT !.at = "write", !.name = file, !.inode = i])
<1>1. PICK r : r = [job[c] EXCEPT !.at = "write", !.name = file, !.inode = i]
  OBVIOUS
<1>2. file # None /\ i # None
  BY NamesAre, ClientsAre
<1>3. /\ r.at = "write" /\ r.name = file /\ r.inode = i
      /\ r.kind = job[c].kind /\ r.original = job[c].original /\ r.doc = job[c].doc
  BY <1>1, ClientsAre DEF Jobs
<1>4. job[c].at = "backup" => job[c].kind = "install"
  BY ClientsAre, NamesAre DEF JobIsInOrder, Jobs, Writers, Writing
<1>5. JobIsInOrder(job[c]) /\ r.kind # None
  BY <1>3, <1>4, ClientsAre, NamesAre DEF Writers
<1>6. JobIsInOrder(r)
  BY <1>2, <1>3, <1>4, <1>5, NamesAre DEF JobIsInOrder, Writers, Writing
<1> QED BY <1>1, <1>6

LEMMA CreateKeepsFilesInv ==
    ASSUME FilesAreGiven, FilesInv, NEW c \in Clients, Create(c) \/ OpenBackup(c)
    PROVE  FilesInv'
<1>1. CASE Create(c)
  <2>1. PICK file \in {"archive", "reference.tmp"} :
            file = IF job[c].kind = "export" THEN "archive" ELSE Temporary.reference
    BY NamesAre
  <2>2. /\ job[c].at \notin Writing
        /\ \/ job[c].kind = "export" /\ file = "archive"
           \/ job[c].kind = "refresh" /\ file = "reference.tmp"
    <3>1. job[c].at = "create"
      BY <1>1 DEF Create
    <3>2. job[c].kind = "export" \/ job[c].kind = "refresh"
      BY <3>1, ClientsAre DEF JobIsInOrder, Jobs, Writers, Writing
    <3>3. Temporary.reference = "reference.tmp"
      BY NamesAre
    <3> QED BY <2>1, <3>1, <3>2, <3>3 DEF Writing
  <2>3. ~Exists(file) /\ Use(c, "write", file, NewInode, Created(disk, file, NewInode))
    BY <1>1, <2>1 DEF Create
  <2>4. file # "config.tmp"
    BY <2>2
  <2>5. \A i \in Inodes : JobIsInOrder([job[c] EXCEPT !.at = "write", !.name = file, !.inode = i])
    BY <2>2, OrderToWrite
  <2> QED BY <2>2, <2>3, <2>4, <2>5, CreatesOpens
<1>2. CASE OpenBackup(c)
  <2>1. PICK file \in Backups : /\ job[c].at = "backup" /\ ~Exists(file)
                                /\ Use(c, "write", file, NewInode, Created(disk, file, NewInode))
    BY <1>2 DEF OpenBackup
  <2>2. file # "config.tmp" /\ job[c].at \notin Writing
    BY <2>1, NamesAre DEF Writing
  <2>3. \A i \in Inodes : JobIsInOrder([job[c] EXCEPT !.at = "write", !.name = file, !.inode = i])
    BY <2>1, OrderToWrite
  <2> QED BY <2>1, <2>2, <2>3, CreatesOpens
<1> QED BY <1>1, <1>2

LEMMA OpenTemporaryKeepsFilesInv ==
    ASSUME FilesAreGiven, FilesInv, NEW c \in Clients, OpenTemporary(c)
    PROVE  FilesInv'
<1>1. /\ job[c].at = "open" /\ job[c].at \notin Writing /\ job[c].kind = "install"
      /\ Temporary.config = "config.tmp" /\ "config.tmp" \in Names
  BY ClientsAre, NamesAre DEF OpenTemporary, JobIsInOrder, Jobs, Writers, Writing
<1>2. \A i \in Inodes : JobIsInOrder([job[c] EXCEPT !.at = "write", !.name = "config.tmp", !.inode = i])
  BY <1>1, OrderToWrite
<1>3. CASE ~Exists("config.tmp")
  <2>1. Use(c, "write", "config.tmp", NewInode, Created(disk, "config.tmp", NewInode))
    BY <1>1, <1>3 DEF OpenTemporary
  <2> QED BY <1>1, <1>2, <1>3, <2>1, CreatesOpens
<1>4. CASE Exists("config.tmp")
  <2>1. PICK i \in Inodes : i = disk.inode["config.tmp"]
    BY <1>1, <1>4, ClientsAre DEF Exists
  <2>2. PICK d \in Disks : /\ d = Truncated(disk, i) /\ d.inode = disk.inode
                           /\ d.data = [disk.data EXCEPT ![i] = Empty] /\ d.synced = disk.synced \ {i}
    BY TruncatedIs, ClientsAre
  <2>3. Use(c, "write", "config.tmp", i, d)
    BY <1>1, <1>4, <2>1, <2>2 DEF OpenTemporary
  <2>4. \A n \in Names \ {"config.tmp"} : disk.inode[n] # i
    BY <1>1, <2>1, ClientsAre DEF FilesInv, LinksDiffer
  <2>5. \A e \in Clients : job[e].inode = i => job[e].name = "config.tmp"
    BY <1>1, <2>1, ClientsAre DEF FilesInv, OpenIsOwn
  <2>6. Opens(c, "config.tmp", i)
    BY <1>2, <2>1, <2>2, <2>3, <2>4, UseOpens
  <2> QED BY <1>1, <2>4, <2>5, <2>6, OpenKeepsFilesInv
<1> QED BY <1>3, <1>4

\* What a command writes to the file it has open.
LEMMA WritesOnly ==
    ASSUME FilesAreGiven, FilesInv, NEW c \in Clients, job[c].at \in Writing,
           NEW i \in Inodes, i = job[c].inode, NEW r \in Jobs, JobIsInOrder(r),
           NEW d \in Disks, d.inode = disk.inode,
           \A o \in Inodes \ {i} : d.data[o] = disk.data[o] /\ (o \in disk.synced => o \in d.synced),
           Do(c, d, r), UNCHANGED <<edits, settled, deaths, raced, powerLost>>
    PROVE  /\ OnlyWritten(c, i) /\ job'[c] = r
           /\ \A n \in Names : disk.inode[n] = i =>
                 disk'.data[i] = d.data[i] /\ (i \in d.synced => i \in disk'.synced)
           /\ r.inode = i => disk'.data[i] = d.data[i]
<1>1. /\ job' \in [Clients -> Jobs] /\ job'[c] = r
      /\ \A e \in Clients \ {c} : job'[e] = job[e]
      /\ KeepsUsed(disk', job', d)
  BY DoIs DEF FilesInv, TypesOK
<1>2. /\ disk' \in Disks /\ disk'.inode = disk.inode
      /\ \A n \in Names : disk.inode[n] # None =>
            /\ disk'.data[disk.inode[n]] = d.data[disk.inode[n]]
            /\ disk.inode[n] \in d.synced => disk.inode[n] \in disk'.synced
      /\ \A e \in Clients : job'[e].inode # None => disk'.data[job'[e].inode] = d.data[job'[e].inode]
  BY <1>1 DEF KeepsUsed
<1>3. i # None
  BY ClientsAre
<1>4. \A n \in Names : disk.inode[n] # None /\ disk.inode[n] # i =>
          /\ disk'.data[disk.inode[n]] = disk.data[disk.inode[n]]
          /\ disk.inode[n] \in disk.synced => disk.inode[n] \in disk'.synced
  BY <1>2, ClientsAre
<1>5. \A e \in Clients \ {c} : job[e].inode # None /\ job[e].inode # i =>
          disk'.data[job[e].inode] = disk.data[job[e].inode]
  BY <1>1, <1>2, ClientsAre
<1>6. OnlyWritten(c, i)
  BY <1>1, <1>2, <1>4, <1>5 DEF OnlyWritten
<1> QED BY <1>1, <1>2, <1>3, <1>6

LEMMA WrittenToDisk ==
    ASSUME disk \in Disks, NEW i \in Inodes, NEW half \in 1 .. 2, NEW doc \in Documents \cup {None}
    PROVE  \E d \in Disks :
               /\ d = Written(disk, i, half, doc) /\ d.inode = disk.inode
               /\ \A o \in Inodes \ {i} : d.data[o] = disk.data[o]
               /\ d.data[i][half] = doc
               /\ \A h \in (1 .. 2) \ {half} : d.data[i][h] = disk.data[i][h]
               /\ d.synced = disk.synced \ {i}
BY WrittenIs

LEMMA FirstHalfStep ==
    ASSUME FilesAreGiven, FilesInv, NEW c \in Clients, FirstHalf(c)
    PROVE  FilesInv'
<1>1. job[c].at = "write" /\ job[c].at \in Writing
  BY DEF FirstHalf, Writing
<1>2. PICK i \in Inodes : i = job[c].inode
  BY <1>1, WriterIs
<1>3. PICK doc \in Documents \cup {None} : doc = Payload(c)
  BY JobIs DEF FilesInv
<1>4. PICK d \in Disks :
          /\ d = Written(disk, i, 1, doc) /\ d.inode = disk.inode
          /\ \A o \in Inodes \ {i} : d.data[o] = disk.data[o]
          /\ d.data[i][1] = doc
          /\ \A h \in (1 .. 2) \ {1} : d.data[i][h] = disk.data[i][h]
          /\ d.synced = disk.synced \ {i}
  <2>1. disk \in Disks /\ 1 \in 1 .. 2
    BY ClientsAre
  <2> QED BY <1>2, <1>3, <2>1, WrittenToDisk
<1>5. PICK r : r = [job[c] EXCEPT !.at = "finish"]
  OBVIOUS
<1>6. /\ r \in Jobs /\ r.at = "finish" /\ r.name = job[c].name /\ r.inode = job[c].inode
      /\ r.kind = job[c].kind /\ r.original = job[c].original /\ r.doc = job[c].doc
  BY <1>5, ClientsAre DEF Jobs, Steps
<1>7. JobIsInOrder(r)
  BY <1>1, <1>6, ClientsAre, NamesAre DEF JobIsInOrder, Writing, Writers
<1>8. Do(c, d, r) /\ Unobserved
  BY <1>2, <1>3, <1>4, <1>5 DEF FirstHalf, Step
<1>9. /\ OnlyWritten(c, i) /\ job'[c] = r
      /\ r.inode = i => disk'.data[i] = d.data[i]
  BY <1>1, <1>2, <1>4, <1>6, <1>7, <1>8, WritesOnly DEF Unobserved
<1>10. /\ disk'.data[job[c].inode][1] = Payload(c)
       /\ disk'.data[job[c].inode][2] = disk.data[job[c].inode][2]
  BY <1>2, <1>3, <1>4, <1>6, <1>9
<1> QED BY <1>1, <1>2, <1>6, <1>8, <1>9, <1>10, FirstHalfKeepsFilesInv DEF Unobserved

LEMMA SecondHalfStep ==
    ASSUME FilesAreGiven, FilesInv, NEW c \in Clients, SecondHalf(c)
    PROVE  FilesInv'
<1>1. job[c].at = "finish" /\ job[c].at \in Writing
  BY DEF SecondHalf, Writing
<1>2. PICK i \in Inodes : i = job[c].inode
  BY <1>1, WriterIs
<1>3. PICK doc \in Documents \cup {None} : doc = Payload(c)
  BY JobIs DEF FilesInv
<1>4. PICK written \in Disks :
          /\ written = Written(disk, i, 2, doc) /\ written.inode = disk.inode
          /\ \A o \in Inodes \ {i} : written.data[o] = disk.data[o]
          /\ written.data[i][2] = doc
          /\ \A h \in (1 .. 2) \ {2} : written.data[i][h] = disk.data[i][h]
          /\ written.synced = disk.synced \ {i}
  <2>1. disk \in Disks /\ 2 \in 1 .. 2
    BY ClientsAre
  <2> QED BY <1>2, <1>3, <2>1, WrittenToDisk
<1>5. PICK synced \in Disks :
          /\ synced = Synced(written, i) /\ synced.inode = written.inode /\ synced.data = written.data
          /\ synced.synced = written.synced \cup {i}
  BY <1>2, <1>4, SyncedIs
<1>6. PICK d \in Disks : d = IF job[c].name \in Backups THEN written ELSE synced
  BY <1>4, <1>5
<1>7. /\ d.inode = disk.inode /\ d.data = written.data
      /\ \A o \in Inodes \ {i} : d.data[o] = disk.data[o] /\ (o \in disk.synced => o \in d.synced)
      /\ job[c].name \notin Backups => i \in d.synced
  BY <1>4, <1>5, <1>6
<1>8. PICK r : r = IF job[c].name = "archive" THEN Idle
                   ELSE [job[c] EXCEPT !.at = IF job[c].name \in Backups THEN "open" ELSE "replace",
                                       !.name = None, !.inode = None]
  OBVIOUS
<1>9. /\ r \in Jobs /\ r.at \notin Writing /\ r.name = None /\ r.inode = None
      /\ job[c].name = "archive" => r = Idle /\ r.kind = None /\ r.at = "idle"
      /\ job[c].name # "archive" =>
            /\ r.kind = job[c].kind /\ r.original = job[c].original /\ r.doc = job[c].doc
            /\ r.at = IF job[c].name \in Backups THEN "open" ELSE "replace"
  BY <1>8, IdleIs, ClientsAre DEF Jobs, Steps, Writing
<1>10. JobIsInOrder(r)
  <2>1. CASE job[c].name = "archive"
    BY <1>9, <2>1, IdleIs
  <2>2. CASE job[c].name # "archive"
    <3>1. /\ job[c].kind \in Replacing
          /\ job[c].name \in Backups => job[c].kind = "install"
      BY <1>1, <2>2, JobIs, WriterIs DEF FilesInv, Replacing
    <3> QED BY <1>9, <2>2, <3>1, ClientsAre, NamesAre DEF JobIsInOrder, Writing, Writers, Replacing
  <2> QED BY <2>1, <2>2
<1>11. /\ Do(c, d, r) /\ UNCHANGED <<edits, settled, deaths, raced, powerLost>>
       /\ receipts' = receipts \cup (IF job[c].name = "archive" THEN {job[c].doc} ELSE {})
  <2>1. "archive" \notin Backups
    BY NamesAre
  <2>2. CASE job[c].name = "archive"
    BY <1>2, <1>3, <1>4, <1>5, <1>6, <1>8, <2>1, <2>2 DEF SecondHalf
  <2>3. CASE job[c].name \in Backups
    BY <1>2, <1>3, <1>4, <1>6, <1>8, <2>1, <2>3 DEF SecondHalf, Use, Unobserved
  <2>4. CASE job[c].name # "archive" /\ job[c].name \notin Backups
    BY <1>2, <1>3, <1>4, <1>5, <1>6, <1>8, <2>4 DEF SecondHalf, Use, Unobserved
  <2> QED BY <2>2, <2>3, <2>4
<1>12. /\ OnlyWritten(c, i) /\ job'[c] = r
       /\ \A n \in Names : disk.inode[n] = i =>
             disk'.data[i] = d.data[i] /\ (i \in d.synced => i \in disk'.synced)
  BY <1>1, <1>2, <1>7, <1>9, <1>10, <1>11, WritesOnly
<1>13. \A n \in Names : disk.inode[n] = job[c].inode =>
           /\ disk'.data[job[c].inode][1] = disk.data[job[c].inode][1]
           /\ disk'.data[job[c].inode][2] = Payload(c)
           /\ job[c].name \notin Backups => job[c].inode \in disk'.synced
  BY <1>2, <1>3, <1>4, <1>7, <1>12
<1>14. OnlyWritten(c, job[c].inode)
  BY <1>2, <1>12
<1> QED BY <1>1, <1>9, <1>11, <1>12, <1>13, <1>14, SecondHalfKeepsFilesInv

\* A power failure takes what was not synced.
LEMMA LosePowerKeepsFilesInv ==
    ASSUME FilesAreGiven, FilesInv, LosePower
    PROVE  FilesInv'
<1>1. /\ deaths' \in 0 .. MaxDeaths /\ powerLost' = TRUE /\ UNCHANGED <<edits, settled, receipts, raced>>
      /\ job' = [c \in Clients |-> Idle]
  BY DEF LosePower, FilesInv, TypesOK, FilesAreGiven
<1>2. PICK lost \in SUBSET (Linked(disk) \ disk.synced) :
          disk' = Reclaimed([disk EXCEPT !.data = [i \in Inodes |-> IF i \in lost THEN Empty
                                                                    ELSE disk.data[i]]], job')
  BY DEF LosePower
<1>3. PICK d : d = [disk EXCEPT !.data = [i \in Inodes |-> IF i \in lost THEN Empty ELSE disk.data[i]]]
  OBVIOUS
<1>4. /\ d \in Disks /\ d.inode = disk.inode /\ d.synced = disk.synced
      /\ d.data = [i \in Inodes |-> IF i \in lost THEN Empty ELSE disk.data[i]]
  <2>1. disk \in Disks /\ \A i \in Inodes : disk.data[i] \in Contents
    BY ClientsAre DEF Disks
  <2>2. [i \in Inodes |-> IF i \in lost THEN Empty ELSE disk.data[i]] \in [Inodes -> Contents]
    BY <2>1, EmptyIs
  <2> QED BY <1>3, <2>1, <2>2 DEF Disks
<1>5. /\ job' \in [Clients -> Jobs]
      /\ \A c \in Clients : /\ job'[c] = Idle /\ JobIsInOrder(job'[c])
                            /\ job'[c].kind = None /\ job'[c].inode = None /\ job'[c].name = None
                            /\ job'[c].at = "idle"
  BY <1>1, IdleIs
<1>6. disk' = Reclaimed(d, job')
  BY <1>2, <1>3
<1>7. KeepsUsed(disk', job', d)
  BY <1>4, <1>5, <1>6, ReclaimedIs
<1>8. /\ disk' \in Disks /\ disk'.inode = disk.inode
      /\ \A n \in Names : disk.inode[n] # None =>
            /\ disk'.data[disk.inode[n]] = disk.data[disk.inode[n]] \/ disk'.data[disk.inode[n]] = Empty
            /\ disk.inode[n] \in disk.synced =>
                  /\ disk.inode[n] \in disk'.synced
                  /\ disk'.data[disk.inode[n]] = disk.data[disk.inode[n]]
  BY <1>2, <1>4, <1>7, ClientsAre DEF KeepsUsed
<1>9. /\ \A n \in Names : Exists(n)' <=> Exists(n)
      /\ \A n \in Names : Exists(n) => Data(n)' = Data(n) \/ Data(n)' = Empty
      /\ \A n \in Names : Exists(n) /\ disk.inode[n] \in disk.synced =>
            Data(n)' = Data(n) /\ disk'.inode[n] \in disk'.synced
  BY <1>8 DEF Exists, Data
<1>10. \A c \in Clients : job'[c].at \notin Writing /\ job'[c].at # "replace"
  BY <1>5 DEF Writing
<1>11. None \notin Names /\ None \notin Replacing /\ None # "install"
  BY ClientsAre
<1>12. TypesOK'
  BY <1>1, <1>5, <1>8 DEF FilesInv, TypesOK
<1>13. JobsAreInOrder' /\ OpenIsOwn' /\ ContentIsWritten'
  BY <1>5, <1>10 DEF JobsAreInOrder, OpenIsOwn, ContentIsWritten
<1>14. LinksDiffer'
  BY <1>8 DEF FilesInv, LinksDiffer
<1>15. NamesStay'
  <2>1. \A c \in Clients : job'[c].name \notin {"archive"} \cup Backups
    BY <1>5, NamesAre
  <2> QED BY <2>1 DEF NamesStay
<1>16. ConfigsAreConfigs'
  BY <1>9, EmptyIs, NamesAre DEF FilesInv, ConfigsAreConfigs
<1>17. NothingIsMixed'
  BY <1>9, EmptyIs DEF FilesInv, NothingIsMixed
<1>18. AloneUnlessRaced' /\ TemporariesAreReady'
  BY <1>5, <1>11 DEF AloneUnlessRaced, TemporariesAreReady
<1>19. DestinationsAreWhole'
  <2> SUFFICES ASSUME NEW o \in Destinations \ raced, Exists(o)'
               PROVE  Data(o)'[1] # None /\ Data(o)'[1] = Data(o)'[2] /\ disk'.inode[o] \in disk'.synced
    BY <1>1 DEF DestinationsAreWhole
  <2>1. o \in Names /\ Exists(o)
    BY <1>9, NamesAre
  <2>2. Data(o)[1] # None /\ Data(o)[1] = Data(o)[2] /\ disk.inode[o] \in disk.synced
    BY <2>1 DEF FilesInv, DestinationsAreWhole
  <2> QED BY <1>9, <2>1, <2>2
<1>20. ReceiptsHold'
  <2> SUFFICES ASSUME NEW doc \in receipts
               PROVE  /\ Exists("archive")' /\ Data("archive")'[1] = doc /\ Data("archive")'[2] = doc
                      /\ disk'.inode["archive"] \in disk'.synced
                      /\ \A c \in Clients : job'[c].inode # disk'.inode["archive"]
    BY <1>1 DEF ReceiptsHold
  <2>1. /\ "archive" \in Names
        /\ Exists("archive") /\ Data("archive")[1] = doc /\ Data("archive")[2] = doc
        /\ disk.inode["archive"] \in disk.synced
    BY NamesAre DEF FilesInv, ReceiptsHold
  <2> QED BY <1>5, <1>8, <1>9, <2>1 DEF Exists
<1>21. ConfigIsKept'
  <2>1. "config" \notin raced /\ settled > 0 => HoldsRecent("config")'
    <3> SUFFICES ASSUME "config" \notin raced, settled > 0
                 PROVE  HoldsRecent("config")'
      OBVIOUS
    <3>1. HoldsRecent("config") /\ "config" \in Names /\ "config" \in Destinations
      BY NamesAre DEF FilesInv, ConfigIsKept, Destinations
    <3>2. disk.inode["config"] \in disk.synced
      BY <3>1 DEF FilesInv, DestinationsAreWhole, HoldsRecent
    <3> QED BY <1>1, <1>9, <3>1, <3>2 DEF HoldsRecent, IsRecent
  <2> QED BY <1>1, <1>5, <1>11, <2>1 DEF ConfigIsKept
<1> QED BY <1>12, <1>13, <1>14, <1>15, <1>16, <1>17, <1>18, <1>19, <1>20, <1>21 DEF FilesInv

LEMMA WrittenFirst ==
    ASSUME NEW old \in Disks, NEW i \in Inodes, NEW doc \in Documents
    PROVE  \E d \in Disks :
               /\ d = Written(old, i, 1, doc) /\ d.inode = old.inode
               /\ \A o \in Inodes \ {i} : d.data[o] = old.data[o]
               /\ d.data[i][1] = doc /\ d.synced = old.synced \ {i}
BY WrittenIs

LEMMA WholeOnDisk ==
    ASSUME disk \in Disks, NEW name \in Names, NEW i \in Inodes, NEW doc \in Documents
    PROVE  \E d \in Disks :
               /\ d = Synced(Written(Written(Created(disk, name, i), i, 1, doc), i, 2, doc), i)
               /\ d.inode = [disk.inode EXCEPT ![name] = i]
               /\ \A o \in Inodes \ {i} : d.data[o] = disk.data[o] /\ (o \in disk.synced => o \in d.synced)
               /\ d.data[i][1] = doc /\ d.data[i][2] = doc /\ i \in d.synced
<1>1. PICK fresh \in Disks :
          /\ fresh = Created(disk, name, i)
          /\ fresh.inode = [disk.inode EXCEPT ![name] = i]
          /\ fresh.data = [disk.data EXCEPT ![i] = Empty] /\ fresh.synced = disk.synced \ {i}
  BY CreatedInDisk
<1>2. PICK first \in Disks :
          /\ first = Written(fresh, i, 1, doc) /\ first.inode = fresh.inode
          /\ \A o \in Inodes \ {i} : first.data[o] = fresh.data[o]
          /\ first.data[i][1] = doc /\ first.synced = fresh.synced \ {i}
  <2>1. fresh \in Disks
    BY <1>1
  <2> QED BY <2>1, WrittenFirst
<1>3. PICK second \in Disks :
          /\ second = Written(first, i, 2, doc) /\ second.inode = first.inode
          /\ \A o \in Inodes \ {i} : second.data[o] = first.data[o]
          /\ second.data[i][2] = doc /\ second.data[i][1] = first.data[i][1]
          /\ second.synced = first.synced \ {i}
  BY <1>2, WrittenIs
<1>4. PICK d \in Disks : /\ d = Synced(second, i) /\ d.inode = second.inode /\ d.data = second.data
                         /\ d.synced = second.synced \cup {i}
  BY <1>3, SyncedIs
<1>5. \A o \in Inodes \ {i} : fresh.data[o] = disk.data[o]
  BY <1>1 DEF Disks
<1> QED BY <1>1, <1>2, <1>3, <1>4, <1>5

\* The user changes the configuration, during an install or not.
LEMMA EditKeepsFilesInv ==
    ASSUME FilesAreGiven, FilesInv, Edit
    PROVE  FilesInv'
<1>1. PICK i \in Inodes : /\ i = NewInode /\ i # None
                          /\ \A n \in Names : disk.inode[n] # i
                          /\ \A e \in Clients : job[e].inode # i
  BY NewInodeIs, ClientsAre DEF FilesInv
<1>2. PICK entry \in Entries \cup {None} : entry = IF Exists("config") THEN Data("config")[1][3] ELSE None
  <2>1. Exists("config") => Data("config")[1] \in Configs
    BY DEF Edit, Whole, FilesInv, ConfigsAreConfigs
  <2> QED BY <2>1, ConfigsAre
<1>3. PICK doc \in Configs : doc = Config(edits + 1, entry) /\ doc[2] = edits + 1
  <2>1. edits + 1 \in 0 .. MaxEdits
    BY DEF Edit, FilesInv, TypesOK, FilesAreGiven
  <2> QED BY <1>2, <2>1, ConfigsAre
<1>4. "config" \in Names /\ "config" \in Destinations /\ doc \in Documents /\ doc # None
  BY <1>3, NamesAre, ConfigsAre DEF Destinations
<1>5. PICK d \in Disks :
          /\ d = Synced(Written(Written(Created(disk, "config", i), i, 1, doc), i, 2, doc), i)
          /\ d.inode = [disk.inode EXCEPT !["config"] = i]
          /\ \A o \in Inodes \ {i} : d.data[o] = disk.data[o] /\ (o \in disk.synced => o \in d.synced)
          /\ d.data[i][1] = doc /\ d.data[i][2] = doc /\ i \in d.synced
  BY <1>1, <1>4, WholeOnDisk, ClientsAre
<1>6. /\ disk' = Reclaimed(d, job) /\ edits' = edits + 1
      /\ UNCHANGED <<job, deaths, receipts, raced, powerLost>>
      /\ settled' = IF Busy("install") = {} THEN edits + 1 ELSE settled
  BY <1>1, <1>2, <1>3, <1>5 DEF Edit
<1>7. KeepsUsed(disk', job, d) /\ job \in [Clients -> Jobs]
  BY <1>5, <1>6, ReclaimedIs DEF FilesInv, TypesOK
<1>8. /\ disk' \in Disks /\ disk'.inode["config"] = i
      /\ \A n \in Names \ {"config"} : disk'.inode[n] = disk.inode[n]
      /\ disk'.data[i][1] = doc /\ disk'.data[i][2] = doc /\ i \in disk'.synced
  BY <1>1, <1>4, <1>5, <1>7, ClientsAre DEF KeepsUsed
<1>9. /\ \A n \in Names \ {"config"} : disk.inode[n] # None =>
            /\ disk'.data[disk.inode[n]] = disk.data[disk.inode[n]]
            /\ disk.inode[n] \in disk.synced => disk.inode[n] \in disk'.synced
      /\ \A e \in Clients : job[e].inode # None => disk'.data[job[e].inode] = disk.data[job[e].inode]
  <2>1. \A n \in Names \ {"config"} : d.inode[n] = disk.inode[n]
    BY <1>4, <1>5, ClientsAre
  <2>2. \A n \in Names \ {"config"} : disk.inode[n] # None =>
            disk'.data[disk.inode[n]] = d.data[disk.inode[n]]
            /\ (disk.inode[n] \in d.synced => disk.inode[n] \in disk'.synced)
    BY <1>7, <2>1 DEF KeepsUsed
  <2>3. \A e \in Clients : job[e].inode # None => disk'.data[job[e].inode] = d.data[job[e].inode]
    BY <1>7 DEF KeepsUsed
  <2> QED BY <1>1, <1>5, <2>2, <2>3, ClientsAre
<1>10. /\ Exists("config")' /\ Data("config")'[1] = doc /\ Data("config")'[2] = doc
       /\ \A n \in Names \ {"config"} : /\ Exists(n)' <=> Exists(n)
                                        /\ Exists(n) => Data(n)' = Data(n)
  BY <1>1, <1>8, <1>9 DEF Exists, Data
<1>11. TypesOK'
  <2>1. edits' \in 0 .. MaxEdits /\ settled' \in 0 .. edits'
    BY <1>6 DEF Edit, FilesInv, TypesOK, FilesAreGiven
  <2> QED BY <1>6, <1>8, <2>1 DEF FilesInv, TypesOK
<1>12. JobsAreInOrder' /\ AloneUnlessRaced'
  BY <1>6 DEF FilesInv, JobsAreInOrder, AloneUnlessRaced
<1>13. LinksDiffer'
  BY <1>1, <1>8 DEF FilesInv, LinksDiffer
<1>14. OpenIsOwn'
  BY <1>1, <1>6, <1>8 DEF FilesInv, OpenIsOwn
<1>15. NamesStay'
  <2>1. \A n \in {"archive"} \cup Backups : n \in Names \ {"config"}
    BY NamesAre
  <2> QED BY <1>6, <1>8, <2>1 DEF FilesInv, NamesStay
<1>16. ContentIsWritten'
  <2>1. \A c \in Clients : Payload(c)' = Payload(c)
    BY <1>6 DEF Payload
  <2> QED BY <1>6, <1>9, <2>1, ClientsAre DEF FilesInv, ContentIsWritten
<1>17. ConfigsAreConfigs'
  BY <1>10, NamesAre DEF FilesInv, ConfigsAreConfigs
<1>18. NothingIsMixed'
  BY <1>10 DEF FilesInv, NothingIsMixed
<1>19. DestinationsAreWhole'
  <2> SUFFICES ASSUME NEW o \in Destinations \ raced, Exists(o)'
               PROVE  Data(o)'[1] # None /\ Data(o)'[1] = Data(o)'[2] /\ disk'.inode[o] \in disk'.synced
    BY <1>6 DEF DestinationsAreWhole
  <2>1. CASE o = "config"
    BY <1>4, <1>8, <1>10, <2>1
  <2>2. CASE o # "config"
    <3>1. o \in Names \ {"config"} /\ Exists(o)
      BY <1>10, <2>2, NamesAre
    <3>2. Data(o)[1] # None /\ Data(o)[1] = Data(o)[2] /\ disk.inode[o] \in disk.synced
      BY <3>1 DEF FilesInv, DestinationsAreWhole
    <3> QED BY <1>8, <1>9, <1>10, <3>1, <3>2 DEF Exists
  <2> QED BY <2>1, <2>2
<1>20. TemporariesAreReady'
  <2>1. \A o \in Destinations : Temporary[o] \in Names \ {"config"}
    BY <1>4, NamesAre
  <2>2. \A n \in Names \ {"config"} : disk'.inode[n] = disk.inode[n] /\ (Exists(n)' <=> Exists(n))
            /\ (Exists(n) => Data(n)' = Data(n) /\ (disk.inode[n] \in disk.synced => disk'.inode[n] \in disk'.synced))
    BY <1>8, <1>9, <1>10 DEF Exists
  <2>3. raced' = raced /\ job' = job
    BY <1>6
  <2> HIDE DEF Exists, Data
  <2> QED BY <2>1, <2>2, <2>3 DEF FilesInv, TemporariesAreReady
<1>21. ReceiptsHold'
  <2>1. "archive" \in Names \ {"config"}
    BY NamesAre
  <2> QED BY <1>6, <1>8, <1>9, <1>10, <2>1 DEF FilesInv, ReceiptsHold, Exists
<1>22. ConfigIsKept'
  <2>1. /\ edits \in Nat /\ settled \in Nat /\ settled' \in 0 .. edits'
        /\ settled <= edits /\ UNCHANGED <<job, raced, powerLost>>
    BY <1>6, <1>11 DEF FilesInv, TypesOK, FilesAreGiven
  <2>2. HoldsRecent("config")'
    BY <1>3, <1>6, <1>10, <2>1 DEF HoldsRecent, IsRecent
  <2>3. CASE Busy("install") = {}
    <3>1. \A c \in Clients : job[c].kind # "install"
      BY <2>3 DEF Busy
    <3> QED BY <2>1, <2>2, <3>1 DEF ConfigIsKept
  <2>4. CASE Busy("install") # {}
    <3>1. settled' = settled
      BY <1>6, <2>4
    <3>2. \A old : IsRecent(old) => IsRecent(old)'
      <4> SUFFICES ASSUME NEW old, IsRecent(old) PROVE old[2] \in settled .. edits + 1
        BY <1>6, <3>1 DEF IsRecent
      <4>1. old[2] \in settled .. edits
        BY DEF IsRecent
      <4> QED BY <2>1, <4>1
    <3>3. \A n \in Backups : HoldsRecent(n) => HoldsRecent(n)'
      <4> SUFFICES ASSUME NEW n \in Backups, HoldsRecent(n) PROVE HoldsRecent(n)'
        OBVIOUS
      <4>1. n \in Names \ {"config"}
        BY NamesAre
      <4> QED BY <1>10, <3>2, <4>1 DEF HoldsRecent
    <3>4. InBackup => InBackup'
      BY <3>3 DEF InBackup
    <3> QED BY <2>1, <2>2, <3>1, <3>2, <3>4 DEF FilesInv, ConfigIsKept
  <2> QED BY <2>3, <2>4
<1> QED BY <1>11, <1>12, <1>13, <1>14, <1>15, <1>16, <1>17, <1>18, <1>19, <1>20, <1>21, <1>22 DEF FilesInv

-------------------------------------------------------------------------------
(***************************************************************************)
(* The theorems.                                                           *)
(***************************************************************************)
LEMMA InitFilesInv ==
    ASSUME FilesAreGiven, FilesInit
    PROVE  FilesInv
<1>1. /\ job = [c \in Clients |-> Idle] /\ edits = 0 /\ settled = 0 /\ deaths = 0
      /\ receipts = {} /\ raced = {} /\ powerLost = FALSE
      /\ disk = [inode |-> [name \in Names |-> None], data |-> [i \in Inodes |-> Empty], synced |-> {}]
  BY DEF FilesInit
<1>2. disk \in Disks
  BY <1>1, EmptyIs DEF Disks
<1>3. \A c \in Clients : /\ job[c] = Idle /\ job[c] \in Jobs /\ JobIsInOrder(job[c])
                         /\ job[c].kind = None /\ job[c].at = "idle" /\ job[c].name = None
  BY <1>1, IdleIs
<1>4. /\ None \notin Names /\ None \notin Replacing /\ None # "install"
      /\ {"archive", "config", "config.tmp"} \subseteq Names /\ Backups \subseteq Names
      /\ \A d \in Destinations : d \in Names /\ Temporary[d] \in Names
  BY NamesAre DEF Replacing, Writers
<1>5. \A n \in Names : ~Exists(n) /\ disk.inode[n] = None
  BY <1>1 DEF Exists
<1>6. TypesOK
  <2>1. job \in [Clients -> Jobs]
    BY <1>1, IdleIs
  <2>2. edits \in 0 .. MaxEdits /\ settled \in 0 .. edits /\ deaths \in 0 .. MaxDeaths
    BY <1>1 DEF FilesAreGiven
  <2> QED BY <1>1, <1>2, <2>1, <2>2 DEF TypesOK
<1>7. JobsAreInOrder /\ OpenIsOwn /\ ContentIsWritten
  BY <1>3 DEF JobsAreInOrder, OpenIsOwn, ContentIsWritten, Writing
<1>8. NamesStay
  BY <1>3, NamesAre DEF NamesStay
<1>9. LinksDiffer /\ ConfigsAreConfigs /\ NothingIsMixed /\ DestinationsAreWhole
  BY <1>4, <1>5 DEF LinksDiffer, ConfigsAreConfigs, NothingIsMixed, DestinationsAreWhole
<1>10. AloneUnlessRaced /\ TemporariesAreReady
  BY <1>3, <1>4 DEF AloneUnlessRaced, TemporariesAreReady
<1>11. ReceiptsHold /\ ConfigIsKept
  BY <1>1 DEF ReceiptsHold, ConfigIsKept
<1> QED BY <1>6, <1>7, <1>8, <1>9, <1>10, <1>11 DEF FilesInv

LEMMA NextKeepsFilesInv ==
    ASSUME FilesAreGiven, FilesInv, [FilesNext]_filesVars
    PROVE  FilesInv'
<1>1. ASSUME NEW c \in Clients, Export(c) \/ Refresh(c) PROVE FilesInv'
  BY <1>1, StartKeepsFilesInv
<1>2. ASSUME NEW c \in Clients, NEW entry \in Entries, Install(c, entry) PROVE FilesInv'
  BY <1>2, InstallKeepsFilesInv
<1>3. ASSUME NEW c \in Clients, Clear(c) PROVE FilesInv'
  BY <1>3, ClearKeepsFilesInv
<1>4. ASSUME NEW c \in Clients, Create(c) \/ OpenBackup(c) PROVE FilesInv'
  BY <1>4, CreateKeepsFilesInv
<1>5. ASSUME NEW c \in Clients, OpenTemporary(c) PROVE FilesInv'
  BY <1>5, OpenTemporaryKeepsFilesInv
<1>6. ASSUME NEW c \in Clients, FirstHalf(c) PROVE FilesInv'
  BY <1>6, FirstHalfStep
<1>7. ASSUME NEW c \in Clients, SecondHalf(c) PROVE FilesInv'
  BY <1>7, SecondHalfStep
<1>8. ASSUME NEW c \in Clients, Replace(c) PROVE FilesInv'
  BY <1>8, ReplaceKeepsFilesInv
<1>9. ASSUME NEW c \in Clients, Fail(c) PROVE FilesInv'
  BY <1>9, FailKeepsFilesInv
<1>10. ASSUME NEW c \in Clients, Die(c) PROVE FilesInv'
  BY <1>10, DieKeepsFilesInv
<1>11. CASE LosePower
  BY <1>11, LosePowerKeepsFilesInv
<1>12. CASE Edit
  BY <1>12, EditKeepsFilesInv
<1>13. CASE UNCHANGED filesVars
  <2>1. UNCHANGED <<disk, job, edits, settled, deaths, receipts, raced, powerLost>>
    BY <1>13 DEF filesVars
  <2> QED BY <2>1 DEF FilesInv, TypesOK, JobsAreInOrder, LinksDiffer, OpenIsOwn, NamesStay, ContentIsWritten,
                      ConfigsAreConfigs, NothingIsMixed, AloneUnlessRaced, DestinationsAreWhole,
                      TemporariesAreReady, ReceiptsHold, ConfigIsKept, Exists, Data, Payload,
                      IsRecent, HoldsRecent, InBackup
<1> QED BY <1>1, <1>2, <1>3, <1>4, <1>5, <1>6, <1>7, <1>8, <1>9, <1>10, <1>11, <1>12, <1>13 DEF FilesNext

-------------------------------------------------------------------------------
(***************************************************************************)
(* The invariant.                                                          *)
(***************************************************************************)

Positions == {"idle", "plan search", "plan details", "collect details"}

Outcomes == {"inbox_not_private", "page_not_saved", "search_refused", "no_candidates",
             "detail_refused", "details_collected"}

\* The search page is there and leads to products.
SearchReadable == IsSaved(SearchKey) /\ Page(SearchKey).candidates # Absent

\* A plan looks up the products of the search page one after the other: those
\* that are left are the last ones, and the others are there unless one was
\* missing.
LastOnes(left, wanted) ==
    /\ Len(wanted) - Len(left) \in Nat
    /\ \A i \in 1 .. Len(left) : left[i] = wanted[Len(wanted) - Len(left) + i]

PlanIsOnItsWay ==
    LET wanted == Wanted(Page(SearchKey))
    IN  call.at = "plan details" =>
            /\ SearchReadable
            /\ LastOnes(call.wanted, wanted)
            /\ call.saved \subseteq {TRUE} =>
                   \A i \in 1 .. Len(wanted) - Len(call.wanted) : IsSaved(wanted[i])

\* After a ready plan all of them are there, ...
PlanIsKept ==
    LET wanted == Wanted(Page(SearchKey))
    IN  ready = TRUE =>
            /\ SearchReadable
            /\ wanted # <<>>
            /\ \A i \in DOMAIN wanted : IsSaved(wanted[i])

\* ... also those a collection has still to look up.
CollectionFollows ==
    ready = TRUE /\ call.at = "collect details" =>
        \A i \in DOMAIN call.wanted : IsSaved(call.wanted[i])

CallIsInOrder ==
    /\ call \in [at : Positions, wanted : Seq(Keys), saved : SUBSET BOOLEAN]
    /\ call.at \in {"plan search", "plan details"} => ready = Absent
    /\ call.at # "idle" => outcome = Absent

PagesInv ==
    /\ PagesTypeOK /\ CallIsInOrder
    /\ ~disturbed => PlanIsOnItsWay /\ PlanIsKept /\ CollectionFollows
    /\ ReadyPlanCollects

-------------------------------------------------------------------------------
(***************************************************************************)
(* Sequences of candidates, and what is found in the inbox.                *)
(***************************************************************************)

\* The first elements of a sequence.
LEMMA FirstOfFacts ==
    ASSUME NEW S, NEW seq \in Seq(S), NEW n \in Nat \ {0}
    PROVE  /\ FirstOf(seq, n) \in Seq(S)
           /\ Len(FirstOf(seq, n)) <= n
           /\ FirstOf(seq, n) = <<>> <=> seq = <<>>
<1>1. CASE Len(seq) < n
  <2>1. FirstOf(seq, n) = SubSeq(seq, 1, Len(seq))
    BY <1>1 DEF FirstOf
  <2>2. SubSeq(seq, 1, Len(seq)) = seq
    OBVIOUS
  <2> QED BY <1>1, <2>1, <2>2
<1>2. CASE ~(Len(seq) < n)
  <2>1. FirstOf(seq, n) = SubSeq(seq, 1, n) /\ n \in 1 .. Len(seq)
    BY <1>2 DEF FirstOf
  <2>2. SubSeq(seq, 1, n) \in Seq(S) /\ Len(SubSeq(seq, 1, n)) = n
    BY <2>1
  <2> QED BY <2>1, <2>2
<1> QED BY <1>1, <1>2

\* The others.
LEMMA TailFacts ==
    ASSUME NEW S, NEW seq \in Seq(S), seq # <<>>
    PROVE  /\ Len(seq) \in Nat \ {0} /\ Head(seq) = seq[1]
           /\ Tail(seq) \in Seq(S) /\ Len(Tail(seq)) = Len(seq) - 1
           /\ \A i \in 1 .. Len(seq) - 1 : Tail(seq)[i] = seq[i + 1]
<1>1. Len(seq) \in Nat \ {0} /\ Head(seq) = seq[1]
  OBVIOUS
<1>2. Tail(seq) \in Seq(S) /\ Len(Tail(seq)) = Len(seq) - 1
  OBVIOUS
<1>3. \A i \in 1 .. Len(seq) - 1 : Tail(seq)[i] = seq[i + 1]
  OBVIOUS
<1> QED BY <1>1, <1>2, <1>3

\* What a search page leads to.
LEMMA WantedFacts ==
    ASSUME PagesAreGiven, NEW page, page.candidates \in Seq(Keys)
    PROVE  /\ Wanted(page) \in Seq(Keys)
           /\ Len(Wanted(page)) \in 0 .. MaxDetails
           /\ Wanted(page) = <<>> <=> page.candidates = <<>>
<1>1. MaxCandidates \in Nat \ {0} /\ MaxDetails \in Nat \ {0}
  BY DEF PagesAreGiven
<1> DEFINE first == FirstOf(page.candidates, MaxCandidates)
<1>2. first \in Seq(Keys) /\ (first = <<>> <=> page.candidates = <<>>)
  BY <1>1, FirstOfFacts
<1> HIDE DEF first
<1>3. /\ FirstOf(first, MaxDetails) \in Seq(Keys)
      /\ Len(FirstOf(first, MaxDetails)) <= MaxDetails
      /\ FirstOf(first, MaxDetails) = <<>> <=> first = <<>>
  BY <1>1, <1>2, FirstOfFacts
<1>4. Wanted(page) = FirstOf(first, MaxDetails)
  BY DEF Wanted, first
<1> QED BY <1>1, <1>2, <1>3, <1>4

\* A page that is found is in the inbox.
LEMMA PageIsThere ==
    ASSUME NEW key, IsSaved(key)
    PROVE  Page(key) \in inbox /\ Page(key) \in Found(key)
BY DEF IsSaved, Page, Found, Considered

\* What the search page leads to, when it can be read.
LEMMA SearchLeads ==
    ASSUME PagesAreGiven, inbox \subseteq Pages, SearchReadable
    PROVE  /\ Wanted(Page(SearchKey)) \in Seq(Keys)
           /\ Len(Wanted(Page(SearchKey))) \in 0 .. MaxDetails
           /\ Wanted(Page(SearchKey)) = <<>> <=> Page(SearchKey).candidates = <<>>
<1>1. Page(SearchKey).candidates \in Seq(Keys)
  BY PageIsThere DEF SearchReadable, PagesAreGiven
<1> QED BY <1>1, WantedFacts

\* Up to the limit every file counts.
LEMMA AllConsidered ==
    ASSUME PagesAreGiven, NEW files \in SUBSET Pages, Cardinality(files) <= MaxSavedPages
    PROVE  Considered(files) = files
<1>1. ASSUME NEW file \in files
      PROVE  Cardinality({other \in files : other.path < file.path}) < MaxSavedPages
  <2> DEFINE before == {other \in files : other.path < file.path}
  <2>1. IsFiniteSet(files) /\ Cardinality(files) \in Nat /\ MaxSavedPages \in Nat
    BY FS_Subset, FS_CardinalityType DEF PagesAreGiven
  <2>2. before \subseteq files /\ before # files
    BY DEF PagesAreGiven
  <2>3. Cardinality(before) < Cardinality(files) /\ Cardinality(before) \in Nat
    BY <2>1, <2>2, FS_Subset, FS_CardinalityType
  <2> QED BY <2>1, <2>3
<1> QED BY <1>1 DEF Considered

\* A file saved within the limit hides no page: the pages of other keys are
\* found as before, and one of its own key still is.
LEMMA SavedStay ==
    ASSUME PagesAreGiven, inbox \subseteq Pages, NEW file \in Pages, file \notin inbox,
           inbox' = inbox \cup {file}, Cardinality(inbox') <= MaxSavedPages
    PROVE  /\ \A key : key # file.key => Found(key)' = Found(key)
           /\ \A key : IsSaved(key) => IsSaved(key)'
<1>1. inbox' \in SUBSET Pages /\ inbox \in SUBSET Pages
  OBVIOUS
<1>2. Cardinality(inbox) <= MaxSavedPages
  <2>1. IsFiniteSet(inbox') /\ inbox \subseteq inbox'
    BY <1>1, FS_Subset DEF PagesAreGiven
  <2>2. /\ Cardinality(inbox) <= Cardinality(inbox')
        /\ Cardinality(inbox) \in Nat /\ Cardinality(inbox') \in Nat
    BY <2>1, FS_Subset, FS_CardinalityType
  <2> QED BY <2>2 DEF PagesAreGiven
<1>3. Considered(inbox) = inbox /\ Considered(inbox)' = inbox'
  BY <1>1, <1>2, AllConsidered
<1>4. ASSUME NEW key, key # file.key
      PROVE  Found(key)' = Found(key)
  <2>1. {f \in Considered(inbox)' : f.key = key} = {f \in Considered(inbox) : f.key = key}
    BY <1>3, <1>4
  <2> QED BY <2>1 DEF Found
<1>5. ASSUME NEW key, IsSaved(key)
      PROVE  IsSaved(key)'
  <2>1. CASE key # file.key
    BY <1>4, <1>5, <2>1 DEF IsSaved
  <2>2. CASE key = file.key
    <3> DEFINE Beats(f, g) == \/ g.captured < f.captured
                              \/ g.captured = f.captured /\ f.path < g.path
    <3>1. PICK best \in inbox : /\ best.key = key
                                /\ \A f \in inbox : f.key = key /\ f # best => Beats(best, f)
      BY <1>3, <1>5 DEF IsSaved, Found
    <3>2. \A f \in Pages : f.path \in Nat /\ f.captured \in Nat
      BY DEF PagesAreGiven
    <3>3. CASE Beats(best, file)
      <4>1. \A f \in inbox' : f.key = key /\ f # best => Beats(best, f)
        BY <3>1, <3>3
      <4>2. best \in Found(key)'
        BY <1>3, <3>1, <4>1 DEF Found
      <4> QED BY <4>2 DEF IsSaved
    <3>4. CASE ~Beats(best, file)
      <4>1. best.path # file.path
        BY <1>1, <3>1 DEF PagesAreGiven
      <4>2. Beats(file, best)
        BY <1>1, <3>1, <3>2, <3>4, <4>1
      <4>3. \A f \in inbox' : f.key = key /\ f # file => Beats(file, f)
        BY <1>1, <3>1, <3>2, <4>2
      <4>4. file \in Found(key)'
        BY <1>3, <2>2, <4>3 DEF Found
      <4> QED BY <4>4 DEF IsSaved
    <3> QED BY <3>3, <3>4
  <2> QED BY <2>1, <2>2
<1> QED BY <1>4, <1>5
-------------------------------------------------------------------------------
(***************************************************************************)
(* The steps.                                                              *)
(***************************************************************************)

\* A file is saved: within the limit a plan goes on as it was.
LEMMA SaveKeepsPagesInv ==
    ASSUME PagesAreGiven, PagesInv, NEW file \in Pages, Save(file) PROVE PagesInv'
<1>1. /\ file \notin inbox /\ inbox' = inbox \cup {file}
      /\ UNCHANGED <<private, call, ready, outcome>>
      /\ ~disturbed' => /\ ~disturbed /\ file.key # SearchKey
                        /\ Cardinality(inbox') <= MaxSavedPages
  <2>1. IsFiniteSet(inbox')
    BY FS_Subset DEF Save, PagesAreGiven, PagesInv, PagesTypeOK
  <2>2. Cardinality(inbox') \in Nat /\ MaxSavedPages \in Nat
    BY <2>1, FS_CardinalityType DEF PagesAreGiven
  <2>3. /\ file \notin inbox /\ inbox' = inbox \cup {file}
        /\ UNCHANGED <<private, call, ready, outcome>>
    BY DEF Save
  <2>4. ~disturbed' => ~disturbed /\ file.key # SearchKey /\ ~(Cardinality(inbox') > MaxSavedPages)
    BY Zenon DEF Save
  <2> QED BY <2>2, <2>3, <2>4
<1>2. PagesTypeOK' /\ CallIsInOrder'
  <2>1. disturbed' \in BOOLEAN
    BY Zenon DEF Save
  <2> QED BY <1>1, <2>1 DEF PagesInv, PagesTypeOK, CallIsInOrder
<1>3. ASSUME ~disturbed'
      PROVE  PlanIsOnItsWay' /\ PlanIsKept' /\ CollectionFollows'
  <2>1. inbox \subseteq Pages /\ PlanIsOnItsWay /\ PlanIsKept /\ CollectionFollows
    BY <1>1, <1>3 DEF PagesInv, PagesTypeOK
  <2>2. /\ Found(SearchKey)' = Found(SearchKey)
        /\ \A key : IsSaved(key) => IsSaved(key)'
    BY <1>1, <1>3, <2>1, SavedStay
  <2>3. Page(SearchKey)' = Page(SearchKey)
    BY <2>2 DEF Page
  <2>4. Wanted(Page(SearchKey))' = Wanted(Page(SearchKey))
    BY <2>3 DEF Wanted
  <2>5. SearchReadable => SearchReadable'
    BY <2>2, <2>3 DEF SearchReadable
  <2> QED BY <1>1, <2>1, <2>2, <2>4, <2>5 DEF PlanIsOnItsWay, PlanIsKept, CollectionFollows
<1>4. ReadyPlanCollects'
  BY <1>1 DEF PagesInv, ReadyPlanCollects
<1> QED BY <1>2, <1>3, <1>4 DEF PagesInv

\* A removed file or an opened inbox spoils what was planned; a protected
\* inbox does not.
LEMMA OtherChangesKeepPagesInv ==
    ASSUME PagesAreGiven, PagesInv, Protect \/ Expose \/ \E file \in Pages : Remove(file)
    PROVE  PagesInv'
<1>1. CASE Protect
  <2>1. private' = TRUE /\ UNCHANGED <<inbox, call, ready, outcome, disturbed>>
    BY <1>1 DEF Protect
  <2>2. Found(SearchKey)' = Found(SearchKey) /\ \A key : IsSaved(key)' = IsSaved(key)
    BY <2>1 DEF IsSaved, Found, Considered
  <2>3. Page(SearchKey)' = Page(SearchKey)
    BY <2>2 DEF Page
  <2>4. Wanted(Page(SearchKey))' = Wanted(Page(SearchKey)) /\ SearchReadable' = SearchReadable
    BY <2>2, <2>3 DEF Wanted, SearchReadable
  <2> QED BY <2>1, <2>2, <2>4 DEF PagesInv, PagesTypeOK, CallIsInOrder, PlanIsOnItsWay, PlanIsKept,
                                 CollectionFollows, ReadyPlanCollects
<1>2. ASSUME NEW file \in Pages, Remove(file)
      PROVE  PagesInv'
  <2>1. /\ inbox' = inbox \ {file} /\ disturbed' = TRUE
        /\ UNCHANGED <<private, call, ready, outcome>>
    BY <1>2 DEF Remove
  <2> QED BY <2>1 DEF PagesInv, PagesTypeOK, CallIsInOrder, ReadyPlanCollects
<1>3. CASE Expose
  <2>1. private' = FALSE /\ disturbed' = TRUE /\ UNCHANGED <<inbox, call, ready, outcome>>
    BY <1>3 DEF Expose
  <2> QED BY <2>1 DEF PagesInv, PagesTypeOK, CallIsInOrder, ReadyPlanCollects
<1> QED BY <1>1, <1>2, <1>3

\* A step of a call sees the inbox as it is.
LEMMA InboxStays ==
    ASSUME UNCHANGED inbox
    PROVE  /\ \A key : IsSaved(key)' = IsSaved(key)
           /\ Wanted(Page(SearchKey))' = Wanted(Page(SearchKey))
           /\ SearchReadable' = SearchReadable
<1>1. \A key : Found(key)' = Found(key)
  BY DEF Found, Considered
<1>2. \A key : IsSaved(key)' = IsSaved(key) /\ Page(key)' = Page(key)
  BY <1>1 DEF IsSaved, Page
<1> QED BY <1>2 DEF Wanted, SearchReadable

\* A call without pages to look up.
LEMMA NothingFacts ==
    ASSUME PagesAreGiven, NEW at \in Positions,
           NEW c, c = [Nothing EXCEPT !.at = at] \/ (at = "idle" /\ c = Nothing)
    PROVE  /\ c \in [at : Positions, wanted : Seq(Keys), saved : SUBSET BOOLEAN]
           /\ c.at = at /\ c.wanted = <<>> /\ c.saved = {}
           /\ Len(c.wanted) \in 0 .. MaxDetails
<1>1. c = [at |-> at, wanted |-> <<>>, saved |-> {}]
  BY DEF Nothing
<1>2. <<>> \in Seq(Keys) /\ Len(<<>>) = 0 /\ MaxDetails \in Nat
  BY DEF PagesAreGiven
<1> QED BY <1>1, <1>2

\* A plan begins, and what an earlier one said is forgotten.
LEMMA PlanKeepsPagesInv == ASSUME PagesAreGiven, PagesInv, Plan PROVE PagesInv'
<1>1. /\ ready' \in {Absent, FALSE} /\ (ready' # Absent => private')
      /\ outcome' = Absent /\ disturbed' = FALSE /\ UNCHANGED <<inbox, private>>
      /\ call' = Nothing \/ /\ call' = [Nothing EXCEPT !.at = "plan search"]
                            /\ private /\ ready' = Absent
  BY DEF Plan
<1>2. /\ call'.at # "idle" => call'.at = "plan search" /\ private /\ ready' = Absent
      /\ call'.wanted = <<>> /\ call'.saved = {} /\ Len(call'.wanted) \in 0 .. MaxDetails
      /\ call' \in [at : Positions, wanted : Seq(Keys), saved : SUBSET BOOLEAN]
  <2>1. "idle" \in Positions /\ "plan search" \in Positions
    BY DEF Positions
  <2>2. CASE call' = Nothing
    BY <2>1, <2>2, NothingFacts
  <2>3. CASE call' = [Nothing EXCEPT !.at = "plan search"] /\ private /\ ready' = Absent
    BY <2>1, <2>3, NothingFacts
  <2> QED BY <1>1, <2>2, <2>3
<1>3. PagesTypeOK'
  BY <1>1, <1>2 DEF PagesInv, PagesTypeOK
<1>4. CallIsInOrder'
  BY <1>1, <1>2 DEF CallIsInOrder
<1>5. ready' # TRUE
  BY <1>1 DEF PagesAreGiven
<1>6. /\ PlanIsOnItsWay' /\ PlanIsKept' /\ CollectionFollows' /\ ReadyPlanCollects'
  BY <1>2, <1>5 DEF PlanIsOnItsWay, PlanIsKept, CollectionFollows, ReadyPlanCollects
<1> QED BY <1>3, <1>4, <1>6 DEF PagesInv

\* A call that ends with a plan: ready, only if everything is there.
LEMMA PlannedKeepsPagesInv ==
    ASSUME PagesAreGiven, PagesInv, NEW result, Planned(result), result \in BOOLEAN \cup {Absent},
           call.at \in {"plan search", "plan details"}, result # Absent => private,
           result = TRUE /\ ~disturbed =>
               /\ SearchReadable /\ Wanted(Page(SearchKey)) # <<>>
               /\ \A i \in DOMAIN Wanted(Page(SearchKey)) : IsSaved(Wanted(Page(SearchKey))[i])
    PROVE  PagesInv'
<1>1. /\ call' = Nothing /\ ready' = result
      /\ UNCHANGED <<inbox, private, outcome, disturbed>>
  BY DEF Planned
<1>2. outcome = Absent
  BY DEF PagesInv, CallIsInOrder
<1>3. /\ call'.at = "idle" /\ call'.wanted = <<>> /\ call'.saved = {}
      /\ call' \in [at : Positions, wanted : Seq(Keys), saved : SUBSET BOOLEAN]
      /\ Len(call'.wanted) \in 0 .. MaxDetails
  <2>1. "idle" \in Positions
    BY DEF Positions
  <2> QED BY <1>1, <2>1, NothingFacts
<1>4. PagesTypeOK'
  BY <1>1, <1>2, <1>3 DEF PagesInv, PagesTypeOK
<1>5. CallIsInOrder'
  BY <1>3 DEF CallIsInOrder
<1>6. ASSUME ~disturbed'
      PROVE  PlanIsOnItsWay' /\ PlanIsKept' /\ CollectionFollows'
  BY <1>1, <1>3, <1>6, InboxStays DEF PlanIsOnItsWay, PlanIsKept, CollectionFollows
<1>7. ReadyPlanCollects'
  BY <1>1, <1>2 DEF ReadyPlanCollects
<1> QED BY <1>4, <1>5, <1>6, <1>7 DEF PagesInv

\* The products to look up are those of the search page.
LEMMA PlanSearchKeepsPagesInv == ASSUME PagesAreGiven, PagesInv, PlanSearch PROVE PagesInv'
<1> DEFINE wanted == Wanted(Page(SearchKey))
<1>1. call.at = "plan search" /\ inbox \subseteq Pages
  BY DEF PlanSearch, PagesInv, PagesTypeOK
<1>2. CASE private /\ Planned(FALSE)
  BY <1>1, <1>2, PlannedKeepsPagesInv
<1>3. CASE SearchReadable /\ wanted # <<>> /\ Go("plan details", wanted, {})
  <2>1. /\ call' = [at |-> "plan details", wanted |-> wanted, saved |-> {}]
        /\ UNCHANGED <<inbox, private, ready, outcome, disturbed>>
    BY <1>3 DEF Go
  <2>2. wanted \in Seq(Keys) /\ Len(wanted) \in 0 .. MaxDetails /\ Len(wanted) \in Nat
    <3>1. wanted \in Seq(Keys) /\ Len(wanted) \in 0 .. MaxDetails
      BY <1>1, <1>3, SearchLeads
    <3> QED BY <3>1
  <2>3. ready = Absent /\ outcome = Absent /\ Absent # TRUE
    BY <1>1 DEF PagesInv, CallIsInOrder, PagesAreGiven
  <2> HIDE DEF wanted
  <2>4. /\ call'.at = "plan details" /\ call'.wanted = wanted /\ call'.saved = {}
        /\ call' \in [at : Positions, wanted : Seq(Keys), saved : SUBSET BOOLEAN]
    BY <2>1, <2>2 DEF Positions
  <2>5. PagesTypeOK' /\ CallIsInOrder'
    BY <1>3, <2>1, <2>2, <2>3, <2>4 DEF PagesInv, PagesTypeOK, CallIsInOrder
  <2>6. PlanIsOnItsWay'
    <3>1. wanted = Wanted(Page(SearchKey))' /\ SearchReadable'
      BY <1>3, <2>1, InboxStays DEF wanted
    <3>2. Len(wanted) - Len(wanted) = 0
      BY <2>2
    <3>3. LastOnes(wanted, wanted)
      BY <2>2, <3>2 DEF LastOnes
    <3>4. \A i \in 1 .. Len(wanted) - Len(wanted) : \A key : key = wanted[i] => IsSaved(key)'
      BY <3>2
    <3>5. call'.wanted = wanted
      BY <2>4
    <3>6. /\ LastOnes(call'.wanted, Wanted(Page(SearchKey))')
          /\ \A i \in 1 .. Len(Wanted(Page(SearchKey))') - Len(call'.wanted) :
                IsSaved(Wanted(Page(SearchKey))[i])'
      BY <3>1, <3>3, <3>4, <3>5, Zenon
    <3> QED BY <3>1, <3>6, Zenon DEF PlanIsOnItsWay
  <2>7. PlanIsKept' /\ CollectionFollows' /\ ReadyPlanCollects'
    BY <2>1, <2>3 DEF PlanIsKept, CollectionFollows, ReadyPlanCollects
  <2> QED BY <2>5, <2>6, <2>7 DEF PagesInv
<1>4. CASE ~private \/ ~SearchReadable
  <2>1. Planned(Absent)
    BY <1>4 DEF PlanSearch, SearchReadable
  <2>2. Absent # TRUE
    BY DEF PagesAreGiven
  <2> QED BY <1>1, <2>1, <2>2, PlannedKeepsPagesInv
<1>5. CASE private /\ SearchReadable
  <2>1. IF wanted = <<>> THEN Planned(FALSE) ELSE Go("plan details", wanted, {})
    BY <1>5, Zenon DEF PlanSearch, SearchReadable
  <2> QED BY <1>2, <1>3, <1>5, <2>1, Zenon
<1> QED BY <1>4, <1>5

\* One product more of the plan is looked up.
LEMMA PlanDetailKeepsPagesInv == ASSUME PagesAreGiven, PagesInv, PlanDetail PROVE PagesInv'
<1> DEFINE left == call.wanted
           key == Head(left)
           saved == call.saved \cup {IsSaved(key)}
           wanted == Wanted(Page(SearchKey))
<1>1. /\ call.at = "plan details" /\ inbox \subseteq Pages
      /\ left \in Seq(Keys) /\ left # <<>> /\ Len(left) \in 0 .. MaxDetails
      /\ call.saved \subseteq BOOLEAN /\ MaxDetails \in Nat
  <2>1. call.at = "plan details" /\ inbox \subseteq Pages
    BY DEF PlanDetail, PagesInv, PagesTypeOK
  <2>2. call.wanted # <<>>
    BY <2>1 DEF PagesInv, PagesTypeOK
  <2>3. call.wanted \in Seq(Keys) /\ call.saved \subseteq BOOLEAN
    BY DEF PagesInv, CallIsInOrder
  <2>4. Len(call.wanted) \in 0 .. MaxDetails
    BY DEF PagesInv, PagesTypeOK
  <2>5. MaxDetails \in Nat
    BY DEF PagesAreGiven
  <2> QED BY <2>1, <2>2, <2>3, <2>4, <2>5
<1>2. IsSaved(key) \in BOOLEAN
  BY DEF IsSaved
<1>3. Len(left) \in Nat \ {0} /\ key = left[1]
  BY <1>1, TailFacts
<1>4. ASSUME ~disturbed
      PROVE  /\ SearchReadable /\ wanted \in Seq(Keys) /\ Len(wanted) \in Nat
             /\ LastOnes(left, wanted)
             /\ call.saved \subseteq {TRUE} =>
                    \A i \in 1 .. Len(wanted) - Len(left) : IsSaved(wanted[i])
             /\ key = wanted[Len(wanted) - Len(left) + 1]
  <2>1. /\ SearchReadable /\ LastOnes(left, wanted)
        /\ call.saved \subseteq {TRUE} =>
               \A i \in 1 .. Len(wanted) - Len(left) : IsSaved(wanted[i])
    BY <1>1, <1>4 DEF PagesInv, PlanIsOnItsWay
  <2>2. wanted \in Seq(Keys) /\ Len(wanted) \in Nat
    <3>1. wanted \in Seq(Keys)
      BY <1>1, <2>1, SearchLeads
    <3> QED BY <3>1
  <2>3. key = wanted[Len(wanted) - Len(left) + 1]
    <3> HIDE DEF key, wanted
    <3>1. 1 \in 1 .. Len(left)
      BY <1>3
    <3> QED BY <1>3, <2>1, <3>1 DEF LastOnes
  <2> QED BY <2>1, <2>2, <2>3
<1> HIDE DEF key, wanted
<1>5. CASE private /\ Len(left) = 1 /\ Planned(saved = {TRUE})
  <2>1. ASSUME saved = {TRUE}, ~disturbed
        PROVE  /\ SearchReadable /\ wanted # <<>>
               /\ \A i \in DOMAIN wanted : IsSaved(wanted[i])
    <3>1. call.saved \subseteq {TRUE} /\ IsSaved(key)
      BY <1>2, <2>1
    <3>2. /\ SearchReadable /\ wanted \in Seq(Keys) /\ Len(wanted) \in Nat
          /\ Len(wanted) - 1 \in Nat
          /\ \A i \in 1 .. Len(wanted) - 1 : IsSaved(wanted[i])
          /\ key = wanted[Len(wanted) - 1 + 1]
      BY <1>4, <1>5, <2>1, <3>1 DEF LastOnes
    <3>3. DOMAIN wanted = 1 .. Len(wanted) /\ wanted # <<>>
      BY <3>2
    <3>4. \A i \in 1 .. Len(wanted) : i \in 1 .. Len(wanted) - 1 \/ wanted[i] = key
      BY <3>2
    <3>5. \A i \in 1 .. Len(wanted) : IsSaved(wanted[i])
      BY <3>1, <3>2, <3>4, Zenon
    <3> QED BY <3>2, <3>3, <3>5
  <2>2. (saved = {TRUE}) \in BOOLEAN \cup {Absent}
    OBVIOUS
  <2> HIDE DEF saved
  <2>3. Planned(saved = {TRUE})
    BY <1>5
  <2> QED BY <1>1, <1>5, <2>1, <2>2, <2>3, PlannedKeepsPagesInv DEF wanted
<1>6. CASE Len(left) # 1 /\ Go("plan details", Tail(left), saved)
  <2>1. /\ call' = [at |-> "plan details", wanted |-> Tail(left), saved |-> saved]
        /\ UNCHANGED <<inbox, private, ready, outcome, disturbed>>
    BY <1>6 DEF Go
  <2>2. ready = Absent /\ outcome = Absent /\ Absent # TRUE
    BY <1>1 DEF PagesInv, CallIsInOrder, PagesAreGiven
  <2>3. /\ Tail(left) \in Seq(Keys) /\ Len(Tail(left)) = Len(left) - 1
        /\ \A i \in 1 .. Len(left) - 1 : Tail(left)[i] = left[i + 1]
    BY <1>1, TailFacts
  <2>4. Tail(left) # <<>> /\ Len(Tail(left)) \in 0 .. MaxDetails
    <3>1. Len(left) - 1 \in 0 .. MaxDetails /\ Len(left) - 1 # 0
      <4>1. \A m \in Nat : \A n \in 0 .. m : n # 0 /\ n # 1 => n - 1 \in 0 .. m /\ n - 1 # 0
        OBVIOUS
      <4>2. Len(left) \in 0 .. MaxDetails /\ MaxDetails \in Nat
        BY <1>1
      <4>3. Len(left) # 0 /\ Len(left) # 1
        BY <1>3, <1>6
      <4> QED BY <4>1, <4>2, <4>3, Zenon
    <3>2. Len(<<>>) = 0
      OBVIOUS
    <3> QED BY <2>3, <3>1, <3>2
  <2>5. saved \subseteq BOOLEAN
    BY <1>1, <1>2
  <2> HIDE DEF saved
  <2>6. call'.at = "plan details" /\ call'.wanted = Tail(left) /\ call'.saved = saved
    BY <2>1
  <2>7. PagesTypeOK'
    BY <2>1, <2>2, <2>4, <2>5, <2>6 DEF PagesInv, PagesTypeOK
  <2>8. CallIsInOrder'
    <3>1. call' \in [at : Positions, wanted : Seq(Keys), saved : SUBSET BOOLEAN]
      BY <2>1, <2>3, <2>5 DEF Positions
    <3> QED BY <2>1, <2>2, <2>6, <3>1 DEF CallIsInOrder
  <2>9. ASSUME ~disturbed'
        PROVE  PlanIsOnItsWay'
    <3>1. /\ Wanted(Page(SearchKey))' = wanted /\ SearchReadable'
          /\ \A k : IsSaved(k)' = IsSaved(k)
      BY <1>4, <2>1, <2>9, InboxStays DEF wanted
    <3>2. LastOnes(Tail(left), wanted)
      <4>1. /\ Len(wanted) - Len(left) \in Nat /\ Len(wanted) \in Nat
            /\ \A i \in 1 .. Len(left) : left[i] = wanted[Len(wanted) - Len(left) + i]
        BY <1>4, <2>1, <2>9 DEF LastOnes
      <4>2. ASSUME NEW i \in 1 .. Len(left) - 1
            PROVE  Tail(left)[i] = wanted[Len(wanted) - (Len(left) - 1) + i]
        <5>1. Tail(left)[i] = left[i + 1] /\ i + 1 \in 1 .. Len(left)
          BY <1>3, <2>3
        <5>2. left[i + 1] = wanted[Len(wanted) - Len(left) + (i + 1)]
          BY <4>1, <5>1
        <5>3. \A m, n, j \in Nat : m - n + (j + 1) = m - (n - 1) + j
          OBVIOUS
        <5>4. Len(wanted) - Len(left) + (i + 1) = Len(wanted) - (Len(left) - 1) + i
          BY <1>3, <4>1, <5>3
        <5> QED BY <5>1, <5>2, <5>4, Zenon
      <4>3. Len(wanted) - (Len(left) - 1) \in Nat
        BY <1>3, <4>1
      <4> QED BY <2>3, <4>2, <4>3, Zenon DEF LastOnes
    <3>3. ASSUME saved \subseteq {TRUE}, NEW i \in 1 .. Len(wanted) - Len(Tail(left))
          PROVE  IsSaved(wanted[i])
      <4>1. call.saved \subseteq {TRUE} /\ IsSaved(key)
        BY <1>2, <3>3 DEF saved
      <4>2. /\ \A j \in 1 .. Len(wanted) - Len(left) : IsSaved(wanted[j])
            /\ key = wanted[Len(wanted) - Len(left) + 1]
            /\ Len(wanted) - Len(left) \in Nat /\ Len(wanted) \in Nat
        BY <1>4, <2>1, <2>9, <4>1 DEF LastOnes
      <4>3. i \in 1 .. Len(wanted) - Len(left) \/ wanted[i] = key
        <5>1. \A m, n \in Nat : \A j \in 1 .. m - (n - 1) : j \in 1 .. m - n \/ j = m - n + 1
          OBVIOUS
        <5>2. i \in 1 .. Len(wanted) - (Len(left) - 1)
          BY <2>3
        <5>3. i \in 1 .. Len(wanted) - Len(left) \/ i = Len(wanted) - Len(left) + 1
          BY <1>3, <4>2, <5>1, <5>2
        <5> QED BY <4>2, <5>3, Zenon
      <4> QED BY <4>1, <4>2, <4>3, Zenon
    <3> QED BY <2>6, <3>1, <3>2, <3>3, Zenon DEF PlanIsOnItsWay
  <2>10. PlanIsKept' /\ CollectionFollows' /\ ReadyPlanCollects'
    BY <2>1, <2>2 DEF PlanIsKept, CollectionFollows, ReadyPlanCollects
  <2> QED BY <2>7, <2>8, <2>9, <2>10 DEF PagesInv
<1>7. CASE Planned(Absent)
  <2>1. Absent # TRUE
    BY DEF PagesAreGiven
  <2> QED BY <1>1, <1>7, <2>1, PlannedKeepsPagesInv
<1> QED BY <1>5, <1>6, <1>7 DEF PlanDetail, key

\* A collection that ends: after a ready plan with its pages.
LEMMA CollectedKeepsPagesInv ==
    ASSUME PagesAreGiven, PagesInv, NEW result \in Outcomes, Collected(result), outcome = Absent,
           call.at \in {"idle", "collect details"},
           ready = TRUE /\ ~disturbed => result \in {"details_collected", "detail_refused"}
    PROVE  PagesInv'
<1>1. /\ call' = Nothing /\ outcome' = result
      /\ UNCHANGED <<inbox, private, ready, disturbed>>
  BY DEF Collected
<1>2. /\ call'.at = "idle" /\ call'.wanted = <<>> /\ call'.saved = {}
      /\ call' \in [at : Positions, wanted : Seq(Keys), saved : SUBSET BOOLEAN]
      /\ Len(call'.wanted) \in 0 .. MaxDetails
  <2>1. "idle" \in Positions
    BY DEF Positions
  <2> QED BY <1>1, <2>1, NothingFacts
<1>3. PagesTypeOK'
  BY <1>1, <1>2 DEF PagesInv, PagesTypeOK, Outcomes
<1>4. CallIsInOrder'
  BY <1>2 DEF CallIsInOrder
<1>5. ASSUME ~disturbed'
      PROVE  PlanIsOnItsWay' /\ PlanIsKept' /\ CollectionFollows'
  BY <1>1, <1>2, <1>5, InboxStays
  DEF PagesInv, PlanIsOnItsWay, PlanIsKept, CollectionFollows
<1>6. ReadyPlanCollects'
  BY <1>1 DEF ReadyPlanCollects
<1> QED BY <1>3, <1>4, <1>5, <1>6 DEF PagesInv

\* A collection goes on with products that the plan knows.
LEMMA CollectionGoesOn ==
    ASSUME PagesAreGiven, PagesInv, outcome = Absent, NEW left \in Seq(Keys), left # <<>>,
           Len(left) \in 0 .. MaxDetails, Go("collect details", left, {}),
           call.at \in {"idle", "collect details"},
           ready = TRUE /\ ~disturbed => \A i \in DOMAIN left : IsSaved(left[i])
    PROVE  PagesInv'
<1>1. /\ call' = [at |-> "collect details", wanted |-> left, saved |-> {}]
      /\ UNCHANGED <<inbox, private, ready, outcome, disturbed>>
  BY DEF Go
<1>2. call'.at = "collect details" /\ call'.wanted = left /\ call'.saved = {}
  BY <1>1
<1>3. PagesTypeOK'
  BY <1>1, <1>2 DEF PagesInv, PagesTypeOK
<1>4. CallIsInOrder'
  <2>1. call' \in [at : Positions, wanted : Seq(Keys), saved : SUBSET BOOLEAN]
    BY <1>1 DEF Positions
  <2> QED BY <1>1, <1>2, <2>1 DEF CallIsInOrder
<1>5. ASSUME ~disturbed'
      PROVE  PlanIsOnItsWay' /\ PlanIsKept' /\ CollectionFollows'
  <2>1. PlanIsKept /\ ~disturbed
    BY <1>1, <1>5 DEF PagesInv
  <2>2. /\ \A key : IsSaved(key)' = IsSaved(key)
        /\ Wanted(Page(SearchKey))' = Wanted(Page(SearchKey))
        /\ SearchReadable' = SearchReadable
    BY <1>1, InboxStays
  <2>3. PlanIsOnItsWay'
    BY <1>2 DEF PlanIsOnItsWay
  <2>4. PlanIsKept'
    BY <1>1, <2>1, <2>2 DEF PlanIsKept
  <2>5. CollectionFollows'
    BY <1>1, <1>2, <2>1, <2>2, Zenon DEF CollectionFollows
  <2> QED BY <2>3, <2>4, <2>5
<1>6. ReadyPlanCollects'
  BY <1>1 DEF ReadyPlanCollects
<1> QED BY <1>3, <1>4, <1>5, <1>6 DEF PagesInv

LEMMA CollectKeepsPagesInv == ASSUME PagesAreGiven, PagesInv, Collect PROVE PagesInv'
<1> DEFINE search == Page(SearchKey)
           wanted == Wanted(search)
<1>1. call.at = "idle" /\ outcome = Absent /\ inbox \subseteq Pages
  BY DEF Collect, PagesInv, PagesTypeOK
<1>2. ready = TRUE /\ ~disturbed => private
  BY DEF PagesInv, PagesTypeOK, PagesAreGiven
<1>3. ready = TRUE /\ ~disturbed =>
          /\ SearchReadable /\ wanted # <<>>
          /\ \A i \in DOMAIN wanted : IsSaved(wanted[i])
  BY DEF PagesInv, PlanIsKept
<1> HIDE DEF wanted
<1>4. CASE SearchReadable
  <2>1. /\ wanted \in Seq(Keys) /\ Len(wanted) \in 0 .. MaxDetails
        /\ wanted = <<>> <=> search.candidates = <<>>
    BY <1>1, <1>4, SearchLeads DEF wanted
  <2>2. CASE ~private /\ Collected("inbox_not_private")
    BY <1>1, <1>2, <2>2, CollectedKeepsPagesInv DEF Outcomes
  <2>3. CASE search.candidates = <<>> /\ Collected("no_candidates")
    BY <1>1, <1>3, <2>1, <2>3, CollectedKeepsPagesInv DEF Outcomes
  <2>4. CASE private /\ search.candidates # <<>> /\ Go("collect details", wanted, {})
    BY <1>1, <1>3, <2>1, <2>4, CollectionGoesOn
  <2> QED BY <1>4, <2>2, <2>3, <2>4 DEF Collect, SearchReadable, wanted
<1>5. CASE ~SearchReadable
  <2>1. ASSUME NEW result \in Outcomes, Collected(result), ~private \/ ~SearchReadable
        PROVE  PagesInv'
    BY <1>1, <1>2, <1>3, <2>1, CollectedKeepsPagesInv
  <2>2. \E result \in Outcomes : Collected(result)
    BY <1>5 DEF Collect, SearchReadable, Outcomes
  <2> QED BY <1>5, <2>1, <2>2
<1> QED BY <1>4, <1>5

\* One product more of the collection is read.
LEMMA CollectDetailKeepsPagesInv == ASSUME PagesAreGiven, PagesInv, CollectDetail PROVE PagesInv'
<1> DEFINE left == call.wanted
           key == Head(left)
<1>1. call.at = "collect details" /\ outcome = Absent
  BY DEF CollectDetail, PagesInv, CallIsInOrder
<1>2. left \in Seq(Keys) /\ left # <<>>
  <2>1. left # <<>>
    BY <1>1 DEF PagesInv, PagesTypeOK
  <2> QED BY <2>1 DEF PagesInv, CallIsInOrder
<1>3. Len(left) \in 0 .. MaxDetails /\ MaxDetails \in Nat
  <2>1. Len(left) \in 0 .. MaxDetails
    BY DEF PagesInv, PagesTypeOK
  <2>2. MaxDetails \in Nat
    BY DEF PagesAreGiven
  <2> QED BY <2>1, <2>2
<1>4. ready = TRUE /\ ~disturbed => \A i \in DOMAIN left : IsSaved(left[i])
  BY <1>1 DEF PagesInv, CollectionFollows
<1>5. /\ Len(left) \in Nat \ {0} /\ key = left[1]
      /\ Tail(left) \in Seq(Keys) /\ Len(Tail(left)) = Len(left) - 1
      /\ \A i \in 1 .. Len(left) - 1 : Tail(left)[i] = left[i + 1]
  BY <1>2, TailFacts
<1> HIDE DEF key
<1>6. CASE ~IsSaved(key) /\ Collected("page_not_saved")
  <2>1. 1 \in DOMAIN left
    BY <1>2, <1>5
  <2>2. ~(ready = TRUE /\ ~disturbed)
    BY <1>4, <1>5, <1>6, <2>1
  <2> QED BY <1>1, <1>6, <2>2, CollectedKeepsPagesInv DEF Outcomes
<1>7. CASE Collected("detail_refused") \/ Collected("details_collected")
  BY <1>1, <1>7, CollectedKeepsPagesInv DEF Outcomes
<1>9. CASE ~private /\ Collected("inbox_not_private")
  <2>1. ~(ready = TRUE /\ ~disturbed)
    BY <1>9 DEF PagesInv, PagesTypeOK, PagesAreGiven
  <2> QED BY <1>1, <1>9, <2>1, CollectedKeepsPagesInv DEF Outcomes
<1>8. CASE Len(left) # 1 /\ Go("collect details", Tail(left), {})
  <2>1. Tail(left) # <<>> /\ Len(Tail(left)) \in 0 .. MaxDetails
    <3>1. Len(left) - 1 # 0 /\ Len(left) - 1 \in 0 .. MaxDetails
      <4>1. \A m \in Nat : \A n \in 0 .. m : n # 0 /\ n # 1 => n - 1 # 0 /\ n - 1 \in 0 .. m
        OBVIOUS
      <4>2. Len(left) # 0 /\ Len(left) # 1
        BY <1>5, <1>8
      <4> QED BY <1>3, <4>1, <4>2, Zenon
    <3>2. Len(<<>>) = 0
      OBVIOUS
    <3> QED BY <1>5, <3>1, <3>2
  <2>2. ASSUME ready = TRUE /\ ~disturbed, NEW i \in DOMAIN Tail(left)
        PROVE  IsSaved(Tail(left)[i])
    <3>1. i \in 1 .. Len(left) - 1 /\ i + 1 \in DOMAIN left
      BY <1>2, <1>5
    <3>2. Tail(left)[i] = left[i + 1]
      BY <1>5, <3>1
    <3> QED BY <1>4, <2>2, <3>1, <3>2, Zenon
  <2> QED BY <1>1, <1>5, <1>8, <2>1, <2>2, CollectionGoesOn
<1> QED BY <1>6, <1>7, <1>8, <1>9 DEF CollectDetail, key
-------------------------------------------------------------------------------
(***************************************************************************)
(* The theorems.                                                           *)
(***************************************************************************)

LEMMA InitPagesInv == ASSUME PagesAreGiven, PagesInit PROVE PagesInv
<1>1. call.at = "idle" /\ call.wanted = <<>> /\ call.saved = {} /\ Len(call.wanted) = 0
  BY DEF PagesInit, Nothing
<1>2. PagesTypeOK
  <2>1. Len(call.wanted) \in 0 .. MaxDetails
    BY <1>1 DEF PagesAreGiven
  <2> QED BY <1>1, <2>1 DEF PagesInit, PagesTypeOK
<1>3. CallIsInOrder
  BY <1>1 DEF PagesInit, Nothing, CallIsInOrder, Positions
<1>4. ready # TRUE /\ outcome = Absent
  BY DEF PagesInit, PagesAreGiven
<1> QED BY <1>1, <1>2, <1>3, <1>4
        DEF PagesInv, PlanIsOnItsWay, PlanIsKept, CollectionFollows, ReadyPlanCollects

LEMMA NextKeepsPagesInv == ASSUME PagesAreGiven, PagesInv, [PagesNext]_pagesVars PROVE PagesInv'
<1>1. CASE UNCHANGED pagesVars
  <2>1. UNCHANGED <<inbox, private, call, ready, outcome, disturbed>>
    BY <1>1 DEF pagesVars
  <2>2. /\ \A key : IsSaved(key)' = IsSaved(key)
        /\ Wanted(Page(SearchKey))' = Wanted(Page(SearchKey))
        /\ SearchReadable' = SearchReadable
    BY <2>1, InboxStays
  <2> QED BY <2>1, <2>2 DEF PagesInv, PagesTypeOK, CallIsInOrder, PlanIsOnItsWay, PlanIsKept,
                            CollectionFollows, ReadyPlanCollects
<1>2. CASE PagesNext
  BY <1>2, SaveKeepsPagesInv, OtherChangesKeepPagesInv, PlanKeepsPagesInv, PlanSearchKeepsPagesInv,
     PlanDetailKeepsPagesInv, CollectKeepsPagesInv, CollectDetailKeepsPagesInv DEF PagesNext
<1> QED BY <1>1, <1>2

-------------------------------------------------------------------------------
(***************************************************************************)
(* Both together.                                                          *)
(***************************************************************************)

\* A step of one leaves the other alone.
LEMMA EachIsOnItsOwn == Spec => FilesSpec /\ PagesSpec
<1>1. Init => FilesInit /\ PagesInit
  BY DEF Init
<1>2. [Next]_vars => [FilesNext]_filesVars /\ [PagesNext]_pagesVars
  BY DEF Next, vars
<1> QED BY <1>1, <1>2, PTL DEF Spec, FilesSpec, PagesSpec

(***************************************************************************)
(* The invariant of the files: every step keeps what each command has      *)
(* open, what it has written there and what is synced in order.            *)
(***************************************************************************)
THEOREM FilesInductive == Spec => []FilesInv
<1>1. FilesInit => FilesInv
  BY InitFilesInv, FilesAssumption
<1>2. FilesInv /\ [FilesNext]_filesVars => FilesInv'
  BY NextKeepsFilesInv, FilesAssumption
<1>3. FilesSpec => []FilesInv
  BY <1>1, <1>2, PTL DEF FilesSpec
<1> QED BY <1>3, EachIsOnItsOwn, PTL

(***************************************************************************)
(* The invariant of the inbox: a plan that is on its way knows what the    *)
(* search page leads to and what of it was found (assisted.py:59-79).      *)
(***************************************************************************)
THEOREM PlansInductive == Spec => []PagesInv
<1>1. PagesInit => PagesInv
  BY InitPagesInv, PagesAssumption
<1>2. PagesInv /\ [PagesNext]_pagesVars => PagesInv'
  BY NextKeepsPagesInv, PagesAssumption
<1>3. PagesSpec => []PagesInv
  BY <1>1, <1>2, PTL DEF PagesSpec
<1> QED BY <1>3, EachIsOnItsOwn, PTL

\* What the invariants say of the properties.
LEMMA FilesTypes == ASSUME FilesAreGiven, FilesInv PROVE FilesTypeOK
<1>1. /\ disk.inode \in [Names -> Inodes \cup {None}]
      /\ disk.data \in [Inodes -> [1 .. 2 -> Documents \cup {None}]]
      /\ disk.synced \subseteq Inodes
  BY ClientsAre DEF Disks, Contents
<1>2. \A n, o \in Names : disk.inode[n] = disk.inode[o] /\ n # o => ~Exists(n)
  BY DEF FilesInv, LinksDiffer, Exists
<1>3. ASSUME NEW c \in Clients
      PROVE  /\ job[c].kind = None <=> job[c] = Idle
             /\ job[c].at \in {"idle", "clear", "create", "backup", "open", "write", "finish", "replace"}
             /\ job[c].inode # None <=> job[c].at \in {"write", "finish"}
             /\ job[c].doc \in Documents \cup {None}
  <2>1. job[c] \in Jobs /\ JobIsInOrder(job[c])
    BY ClientsAre
  <2>2. job[c].kind = None <=> job[c] = Idle
    BY <2>1, IdleIs DEF JobIsInOrder
  <2> QED BY <2>1, <2>2, ClientsAre DEF Jobs, Steps, Writing
<1>4. /\ edits \in 0 .. MaxEdits /\ settled \in 0 .. edits /\ deaths \in 0 .. MaxDeaths
      /\ receipts \subseteq Documents /\ raced \subseteq Destinations
  BY DEF FilesInv, TypesOK
<1> QED BY <1>1, <1>2, <1>3, <1>4 DEF FilesTypeOK

(***************************************************************************)
(* Types: no two names are links to one inode, a command has an inode open *)
(* exactly while it writes, and a plan is ready only for an inbox that is   *)
(* private, unless it was opened to others since.                          *)
(***************************************************************************)
THEOREM CommandsTypeCorrect == Spec => []TypeOK
<1>1. FilesInv /\ PagesInv => TypeOK
  BY FilesTypes, FilesAssumption DEF TypeOK, PagesInv
<1> QED BY <1>1, FilesInductive, PlansInductive, PTL

LEMMA FilesAreNotTorn == ASSUME FilesAreGiven, FilesInv PROVE NothingIsTorn
<1>1. ASSUME NEW d \in Destinations, d \notin raced PROVE Whole(d)
  BY <1>1 DEF FilesInv, DestinationsAreWhole, Whole
<1>2. ASSUME NEW n \in Names \ {"config", Temporary.config} PROVE ~Mixed(n)
  <2>1. n \in Names \ {"config", "config.tmp"}
    BY NamesAre
  <2>2. Exists(n) => Data(n)[1] = None \/ Data(n)[2] = None \/ Data(n)[1] = Data(n)[2]
    BY <2>1 DEF FilesInv, NothingIsMixed
  <2> QED BY <2>2 DEF Mixed, Whole
<1> QED BY <1>1, <1>2 DEF NothingIsTorn

\* A destination that no two commands were writing at once is whole whenever
\* it exists, and a file that was created exclusively never mixes documents.
THEOREM FilesNothingIsTorn == Spec => []NothingIsTorn
<1>1. FilesInv => NothingIsTorn
  BY FilesAreNotTorn, FilesAssumption
<1> QED BY <1>1, FilesInductive, PTL

LEMMA FilesAreKept == ASSUME FilesAreGiven, FilesInv PROVE KeepsWhatWasThere
<1>1. ASSUME NEW n \in Names, NEW doc, Exists(n), Data(n)[1] = doc, Data(n)[2] = doc
      PROVE  Holds(n, doc)
  <2>1. Data(n) \in Contents
    BY <1>1, ClientsAre DEF Disks, Exists, Data
  <2> QED BY <1>1, <2>1 DEF Holds, Contents
<1>2. ASSUME NEW doc \in receipts PROVE Holds("archive", doc)
  BY <1>1, NamesAre DEF FilesInv, ReceiptsHold
<1>3. ASSUME NEW n \in {"config"} \cup Backups, HoldsRecent(n)
      PROVE  \E m \in settled .. edits, entry \in Entries \cup {None} : Holds(n, Config(m, entry))
  <2>1. PICK doc \in Configs : /\ doc = Data(n)[1] /\ Data(n)[2] = doc /\ Exists(n)
                               /\ doc[2] \in settled .. edits
    BY <1>3 DEF HoldsRecent, IsRecent
  <2>2. doc = Config(doc[2], doc[3]) /\ doc[3] \in Entries \cup {None}
    BY <2>1, ConfigsAre
  <2>3. Holds(n, doc)
    BY <1>1, <2>1, NamesAre
  <2> QED BY <2>1, <2>2, <2>3
<1>4. ASSUME settled > 0, ~("config" \in raced /\ powerLost)
      PROVE  \E n \in {"config"} \cup Backups : HoldsRecent(n)
  BY <1>4 DEF FilesInv, ConfigIsKept, InBackup
<1> QED BY <1>2, <1>3, <1>4 DEF KeepsWhatWasThere

\* An archive whose export has reported its receipt is never changed again;
\* the servers the user configured last while no install ran, or later ones,
\* are in the configuration or in a backup, whole, unless installs have raced
\* and the power has failed (host_config.py:124-173).
THEOREM FilesKeepWhatWasThere == Spec => []KeepsWhatWasThere
<1>1. FilesInv => KeepsWhatWasThere
  BY FilesAreKept, FilesAssumption
<1> QED BY <1>1, FilesInductive, PTL

(***************************************************************************)
(* A plan that is ready is kept by the collection after it, for any files, *)
(* any limit of the inbox and any number of candidates, whatever product   *)
(* pages are saved in the meantime (assisted.py:59-79,                     *)
(* collection.py:142-160, saved_pages.py:127-129).                         *)
(***************************************************************************)
THEOREM PlansAreKept == Spec => []ReadyPlanCollects
<1>1. PagesInv => ReadyPlanCollects
  BY DEF PagesInv
<1> QED BY <1>1, PlansInductive, PTL
===============================================================================
