------------------------------ MODULE LocalFiles ------------------------------
(***************************************************************************)
(* The files the local commands write: the archive of an export            *)
(* (infrastructure/storage/archive.py), the chip benchmark reference       *)
(* (infrastructure/benchmark_store.py) and the configuration of Claude     *)
(* Desktop (interfaces/host_config.py).  Several commands may run at once, *)
(* each may meet an I/O error or be killed at every step, and the power    *)
(* may fail.                                                               *)
(*                                                                         *)
(* The file system is that of a journalling POSIX host: names are links to *)
(* inodes, an open file stays writable after its name is gone or replaced, *)
(* changes of names are atomic and survive a power failure in their order, *)
(* data does only once it is synced.  A document is written in two halves, *)
(* so that a reader may find it torn (half of it) or mixed (halves of two  *)
(* documents).  Permissions and directories are left out: a refused one is *)
(* an I/O error.                                                           *)
(***************************************************************************)
EXTENDS Naturals, FiniteSets

CONSTANTS
    Clients,       \* commands that may run at once
    Entries,       \* the entries of this server that may be installed
    Backups,       \* a name for each second a backup may be made in
    Inodes,        \* enough for every name and command
    MaxEdits,      \* bound: changes Claude Desktop makes to its configuration
    MaxDeaths,     \* bound: commands killed and power failures
    None

Destinations == {"reference", "config"}
Temporary == [reference |-> "reference.tmp", config |-> "config.tmp"]
Names == {"archive"} \cup Destinations \cup {Temporary[d] : d \in Destinations} \cup Backups

VARIABLES
    disk,       \* inode: Names -> Inodes or None; data: Inodes -> halves; synced: inodes
    job,        \* what each client does
    edits,      \* the number of the last change made in Claude Desktop
    settled,    \* history: that of the last one made while no install ran
    deaths,
    receipts,   \* history: the archives whose export reported success
    raced,      \* history: the destinations that two commands were writing at once
    powerLost   \* history

filesVars == <<disk, job, edits, settled, deaths, receipts, raced, powerLost>>
-------------------------------------------------------------------------------
Empty == [half \in 1 .. 2 |-> None]

Created(d, name, inode) ==
    [d EXCEPT !.inode[name] = inode, !.data[inode] = Empty, !.synced = @ \ {inode}]
Truncated(d, inode) == [d EXCEPT !.data[inode] = Empty, !.synced = @ \ {inode}]
Written(d, inode, half, doc) ==
    [d EXCEPT !.data[inode][half] = doc, !.synced = @ \ {inode}]
Synced(d, inode) == [d EXCEPT !.synced = @ \cup {inode}]
Unlinked(d, name) == [d EXCEPT !.inode[name] = None]
Renamed(d, from, to) == [d EXCEPT !.inode[to] = d.inode[from], !.inode[from] = None]

Exists(name) == disk.inode[name] # None
Data(name) == disk.data[disk.inode[name]]
Holds(name, doc) == Exists(name) /\ Data(name) = [half \in 1 .. 2 |-> doc]
Whole(name) == Exists(name) => Data(name)[1] # None /\ Data(name)[1] = Data(name)[2]
Mixed(name) == Exists(name) /\ None \notin {Data(name)[1], Data(name)[2]} /\ ~Whole(name)

Opened(jobs) == {jobs[c].inode : c \in Clients} \ {None}
Linked(d) == {d.inode[name] : name \in Names} \ {None}
Unused == Inodes \ (Linked(disk) \cup Opened(job))
NewInode == CHOOSE inode \in Unused : TRUE

\* An inode without a name that nobody has open is gone.
Reclaimed(d, jobs) ==
    LET used == Linked(d) \cup Opened(jobs)
    IN  [inode  |-> d.inode,
         data   |-> [i \in Inodes |-> IF i \in used THEN d.data[i] ELSE Empty],
         synced |-> d.synced \cap used]
-------------------------------------------------------------------------------
(***************************************************************************)
(* A job: kind, the step it is at, the file it has open (its name and      *)
(* inode), the document it writes there, and for an install the            *)
(* configuration it has read and the entry it installs.                    *)
(***************************************************************************)
Idle == [kind |-> None, at |-> "idle", name |-> None, inode |-> None, doc |-> None,
         original |-> None, entry |-> None]

Config(servers, entry) == <<"config", servers, entry>>
Documents ==
    {<<"archive", c>> : c \in Clients} \cup {<<"reference", c>> : c \in Clients}
    \cup {Config(n, e) : n \in 0 .. MaxEdits, e \in Entries \cup {None}}
NoServers == Config(0, None)

(***************************************************************************)
(* What is given: the names of backups are no others, None is nothing      *)
(* else, and a new inode can always be found.                              *)
(***************************************************************************)
FilesAreGiven ==
    /\ IsFiniteSet(Clients) /\ IsFiniteSet(Backups)
    /\ Backups \cap ({"archive"} \cup Destinations \cup {Temporary[d] : d \in Destinations}) = {}
    /\ None \notin {"export", "refresh", "install"} \cup Names
    /\ None \notin Inodes /\ None \notin Documents
    /\ IsFiniteSet(Inodes) => Cardinality(Inodes) > Cardinality(Names) + Cardinality(Clients)
    /\ MaxEdits \in Nat /\ MaxDeaths \in Nat

ASSUME FilesAssumption == FilesAreGiven

Busy(kind) == {c \in Clients : job[c].kind = kind}
Destination(kind) == IF kind = "refresh" THEN "reference" ELSE "config"

FilesInit ==
    /\ disk = [inode |-> [name \in Names |-> None], data |-> [i \in Inodes |-> Empty],
               synced |-> {}]
    /\ job = [c \in Clients |-> Idle]
    /\ edits = 0 /\ settled = 0 /\ deaths = 0
    /\ receipts = {} /\ raced = {} /\ powerLost = FALSE

Do(c, newDisk, newJob) ==
    /\ job' = [job EXCEPT ![c] = newJob]
    /\ disk' = Reclaimed(newDisk, job')

Unobserved == UNCHANGED <<edits, settled, deaths, receipts, raced, powerLost>>

Begin(c, newJob) ==
    /\ job[c].kind = None
    /\ Do(c, disk, newJob)
    /\ raced' = raced \cup IF newJob.kind # "export" /\ Busy(newJob.kind) # {}
                           THEN {Destination(newJob.kind)} ELSE {}
    /\ UNCHANGED <<edits, settled, deaths, receipts, powerLost>>

Export(c) == Begin(c, [Idle EXCEPT !.kind = "export", !.at = "create", !.doc = <<"archive", c>>])

Refresh(c) == Begin(c, [Idle EXCEPT !.kind = "refresh", !.at = "clear",
                                    !.doc = <<"reference", c>>])

(***************************************************************************)
(* install_claude_desktop_server: the configuration is read and merged in  *)
(* memory.  A file that does not parse is left alone, as it is when its    *)
(* entry is already the one to install; an empty file is an empty object.  *)
(* A dry run ends here as well, and is no step.                            *)
(***************************************************************************)
Install(c, entry) ==
    LET original == IF ~Exists("config") THEN None
                    ELSE IF Data("config") = Empty THEN NoServers ELSE Data("config")[1]
        merged == Config(IF original = None THEN 0 ELSE original[2], entry)
    IN  /\ Exists("config") => Whole("config") \/ Data("config") = Empty
        /\ original # merged
        /\ Begin(c, [Idle EXCEPT !.kind = "install", !.doc = merged, !.entry = entry,
                                 !.original = original,
                                 !.at = IF original = None THEN "open" ELSE "backup"])

Step(c, step, newDisk) == Do(c, newDisk, [job[c] EXCEPT !.at = step]) /\ Unobserved

Use(c, step, name, inode, newDisk) ==
    Do(c, newDisk, [job[c] EXCEPT !.at = step, !.name = name, !.inode = inode]) /\ Unobserved

\* The refresh removes what it finds under the temporary name.
Clear(c) ==
    /\ job[c].at = "clear"
    /\ Step(c, "create", Unlinked(disk, Temporary.reference))

\* Mutant: the archive is opened like any other file.
CreateOrTruncate(c) ==
    LET name == IF job[c].kind = "export" THEN "archive" ELSE Temporary.reference
    IN  /\ job[c].at = "create"
        /\ IF Exists(name)
           THEN Use(c, "write", name, disk.inode[name], Truncated(disk, disk.inode[name]))
           ELSE Use(c, "write", name, NewInode, Created(disk, name, NewInode))

\* O_CREAT | O_EXCL: an existing file is an error.
Create(c) ==
    LET name == IF job[c].kind = "export" THEN "archive" ELSE Temporary.reference
    IN  /\ job[c].at = "create"
        /\ ~Exists(name)
        /\ Use(c, "write", name, NewInode, Created(disk, name, NewInode))

\* The mode "xb" likewise.  The name is that of the second it is opened in.
OpenBackup(c) ==
    \E name \in Backups :
        /\ job[c].at = "backup"
        /\ ~Exists(name)
        /\ Use(c, "write", name, NewInode, Created(disk, name, NewInode))

\* The mode "wb" truncates what it finds, be it open in another command.
OpenTemporary(c) ==
    LET name == Temporary.config
        inode == IF Exists(name) THEN disk.inode[name] ELSE NewInode
    IN  /\ job[c].at = "open"
        /\ Use(c, "write", name, inode,
               IF Exists(name) THEN Truncated(disk, inode) ELSE Created(disk, name, inode))

\* What is written: a backup is the original.
Payload(c) ==
    IF job[c].name \notin Backups THEN job[c].doc
    ELSE IF job[c].original = NoServers THEN None ELSE job[c].original

FirstHalf(c) ==
    /\ job[c].at = "write"
    /\ Step(c, "finish", Written(disk, job[c].inode, 1, Payload(c)))

\* Mutant: nothing is synced.
SecondHalfUnsynced(c) ==
    LET written == Written(disk, job[c].inode, 2, Payload(c))
    IN  /\ job[c].at = "finish"
        /\ IF job[c].name = "archive"
           THEN /\ Do(c, written, Idle)
                /\ receipts' = receipts \cup {job[c].doc}
                /\ UNCHANGED <<edits, settled, deaths, raced, powerLost>>
           ELSE Use(c, IF job[c].name \in Backups THEN "open" ELSE "replace", None, None, written)

(***************************************************************************)
(* The rest is written and the file closed: an archive and a temporary     *)
(* file after fsync, a backup without.  The export is done.                *)
(***************************************************************************)
SecondHalf(c) ==
    LET written == Written(disk, job[c].inode, 2, Payload(c))
        synced == Synced(written, job[c].inode)
    IN  /\ job[c].at = "finish"
        /\ IF job[c].name = "archive"
           THEN /\ Do(c, synced, Idle)
                /\ receipts' = receipts \cup {job[c].doc}
                /\ UNCHANGED <<edits, settled, deaths, raced, powerLost>>
           ELSE IF job[c].name \in Backups THEN Use(c, "open", None, None, written)
           ELSE Use(c, "replace", None, None, synced)

\* os.replace moves whatever bears the temporary name by now.
Replace(c) ==
    LET destination == Destination(job[c].kind)
    IN  /\ job[c].at = "replace"
        /\ Exists(Temporary[destination])
        /\ Do(c, Renamed(disk, Temporary[destination], destination), Idle)
        /\ Unobserved

(***************************************************************************)
(* OSError at any of these steps, an existing file that must not exist and *)
(* a missing temporary file among them.  The export removes the archive it *)
(* created; the others remove their temporary name, whose ever it is.      *)
(***************************************************************************)
Fail(c) ==
    /\ job[c].kind # None
    /\ Do(c, IF job[c].kind # "export" THEN Unlinked(disk, Temporary[Destination(job[c].kind)])
             ELSE IF job[c].at = "create" THEN disk ELSE Unlinked(disk, "archive"), Idle)
    /\ Unobserved
-------------------------------------------------------------------------------
\* A command is killed.
Die(c) ==
    /\ job[c].kind # None
    /\ deaths < MaxDeaths
    /\ deaths' = deaths + 1
    /\ Do(c, disk, Idle)
    /\ UNCHANGED <<edits, settled, receipts, raced, powerLost>>

\* Data that was not synced may be lost.
LosePower ==
    /\ deaths < MaxDeaths
    /\ deaths' = deaths + 1
    /\ powerLost' = TRUE
    /\ job' = [c \in Clients |-> Idle]
    /\ \E lost \in SUBSET (Linked(disk) \ disk.synced) :
          disk' = Reclaimed([disk EXCEPT !.data = [i \in Inodes |-> IF i \in lost THEN Empty
                                                                    ELSE disk.data[i]]], job')
    /\ UNCHANGED <<edits, settled, receipts, raced>>

(***************************************************************************)
(* The user changes other servers in Claude Desktop, which replaces its    *)
(* configuration by itself, at any time: it is to be quit only after an    *)
(* install (cli.py:322, install-windows.cmd:46).                           *)
(***************************************************************************)
Edit ==
    LET inode == NewInode
        entry == IF Exists("config") THEN Data("config")[1][3] ELSE None
        doc == Config(edits + 1, entry)
        fresh == Created(disk, "config", inode)
    IN  /\ edits < MaxEdits
        /\ Whole("config")
        /\ edits' = edits + 1
        /\ settled' = IF Busy("install") = {} THEN edits' ELSE settled
        /\ disk' = Reclaimed(Synced(Written(Written(fresh, inode, 1, doc), inode, 2, doc), inode),
                             job)
        /\ UNCHANGED <<job, deaths, receipts, raced, powerLost>>

FilesNext ==
    \/ \E c \in Clients :
          \/ Export(c) \/ Refresh(c) \/ \E entry \in Entries : Install(c, entry)
          \/ Clear(c) \/ Create(c) \/ OpenBackup(c) \/ OpenTemporary(c)
          \/ FirstHalf(c) \/ SecondHalf(c) \/ Replace(c)
          \/ Fail(c) \/ Die(c)
    \/ LosePower \/ Edit

FilesSpec == FilesInit /\ [][FilesNext]_filesVars
-------------------------------------------------------------------------------
FilesTypeOK ==
    /\ disk.inode \in [Names -> Inodes \cup {None}]
    /\ disk.data \in [Inodes -> [1 .. 2 -> Documents \cup {None}]]
    /\ disk.synced \subseteq Inodes
    /\ \A n, o \in Names : disk.inode[n] = disk.inode[o] /\ n # o => ~Exists(n)
    /\ \A c \in Clients :
          /\ job[c].kind = None <=> job[c] = Idle
          /\ job[c].at \in {"idle", "clear", "create", "backup", "open", "write",
                            "finish", "replace"}
          /\ job[c].inode # None <=> job[c].at \in {"write", "finish"}
          /\ job[c].doc \in Documents \cup {None}
    /\ edits \in 0 .. MaxEdits /\ settled \in 0 .. edits /\ deaths \in 0 .. MaxDeaths
    /\ receipts \subseteq Documents /\ raced \subseteq Destinations

(***************************************************************************)
(* A destination that no two commands were writing at once is whole        *)
(* whenever it exists, at every step, after every error, kill and power    *)
(* failure: that is what the temporary file, fsync and replace are for     *)
(* (benchmark_store.py:38-44, host_config.py:169-173).  Commands that race *)
(* may tear it, but a file that was created exclusively never mixes two    *)
(* documents, so that a reader can tell (benchmark_store.py:39).           *)
(***************************************************************************)
NothingIsTorn ==
    /\ \A destination \in Destinations : destination \notin raced => Whole(destination)
    /\ \A name \in Names \ {"config", Temporary.config} : ~Mixed(name)

(***************************************************************************)
(* What was whole once is kept: an archive whose export has reported its   *)
(* receipt is never changed again, and the servers the user configured     *)
(* last while no install ran, or later ones, are in the configuration or   *)
(* in a backup, whole, even when installs race and are killed.  Two        *)
(* exceptions: what is changed during an install may be lost for good,     *)
(* since the install replaces the configuration it has read without        *)
(* looking at it again (host_config.py:124-173); and because a backup is   *)
(* not synced, a race and a power failure together can lose anything       *)
(* (host_config.py:164-168).                                               *)
(***************************************************************************)
KeepsWhatWasThere ==
    /\ \A doc \in receipts : Holds("archive", doc)
    /\ settled > 0 /\ ~("config" \in raced /\ powerLost) =>
          \E name \in {"config"} \cup Backups, n \in settled .. edits, entry \in Entries \cup {None} :
              Holds(name, Config(n, entry))
===============================================================================
