------------------------------- MODULE AppFiles -------------------------------
(***************************************************************************)
(* The files of the application on the local backend: the registry of         *)
(* organizations, truncated and rewritten as a whole; the private keys that     *)
(* the server makes for itself when it first starts; the evidence artifacts,   *)
(* stored under their digests; and the backup of it all.                       *)
(*                                                                         *)
(* LocalLedger has the steps of a commit; here an event, a number and the      *)
(* artifact it refers to, goes into memory and onto the file in one step, or   *)
(* its write fails and the server lives on.  A key pair is a number.  A server *)
(* that cannot read a file does not start, and nobody repairs, deletes or      *)
(* replaces files by hand.                                                     *)
(***************************************************************************)
EXTENDS Naturals, Sequences, FiniteSets

CONSTANTS
    Clients,        \* organizations that register over the API
    Artifacts,      \* contents of evidence artifacts
    Handlers,       \* requests the server handles at once
    MaxKeys, MaxFileEvents, MaxFaults, MaxExports,      \* bounds
    NoKey, Nobody

Portal == "consumer-portal"
Files == {"registry", "portal key", "oracle key"}

ASSUME FilesAssumption ==
    /\ Portal \notin Clients
    /\ MaxKeys \in Nat /\ NoKey \notin 1 .. MaxKeys
    /\ Nobody \notin Handlers

VARIABLES
    disk,           \* the contents of the files
    torn,           \* the files that were truncated and not written since
    server,         \* "down", a step of the start, or "up"
    registry,       \* the organizations in memory and their public keys
    signer,         \* the key of the consumer portal in memory
    events,         \* the events in memory
    nextEvent,
    writer,         \* the handler that holds the write lock
    handlers,       \* what each request is doing
    nextKey,
    faults,         \* crashes and failed writes so far
    acked,          \* registrations answered with a private key
    answered,       \* events whose commit was answered
    refs,           \* artifacts whose reference was returned
    attested,       \* the keys of oracle attestations given out
    archives        \* the backups downloaded

startVars == << disk, torn, server, registry, signer, nextKey, faults >>
requestVars == << writer, handlers, acked, refs, attested, archives >>
eventVars == << events, nextEvent, answered >>
fileVars == << startVars, requestVars, eventVars >>

NoOrgs == [o \in {} |-> NoKey]
Unoccupied == [step |-> "idle"]

FilesInit ==
    /\ disk = [registry |-> NoOrgs, portalKey |-> NoKey, oracleKey |-> NoKey,
               ledger |-> << >>, tail |-> "ended",
               artifacts |-> [a \in Artifacts |-> "absent"]]
    /\ torn = {}
    /\ server = "down"
    /\ registry = NoOrgs
    /\ signer = NoKey
    /\ events = << >>
    /\ nextEvent = 1
    /\ answered = {}
    /\ writer = Nobody
    /\ handlers = [h \in Handlers |-> Unoccupied]
    /\ nextKey = 1
    /\ faults = 0
    /\ acked = {}
    /\ refs = {}
    /\ attested = {}
    /\ archives = {}

\* The organizations with one more; the registry keeps public keys only.
With(orgs, org, key) ==
    [o \in DOMAIN orgs \cup {org} |-> IF o = org THEN key ELSE orgs[o]]

\* open(path, "w"), and the write that follows it
Truncated(file) == torn \cup {file}
Written(file) == torn \ {file}
-----------------------------------------------------------------------------
(* The start of the server *)

(* For the mutation runs: a registry that cannot be parsed counts as empty. *)
ReadableOrEmpty == TRUE

RegistryReadable == "registry" \notin torn

\* The registry, and then the ledger; either may stop the start.
LoadFiles ==
    /\ server = "down"
    /\ RegistryReadable
    /\ disk.tail # "torn"
    /\ registry' = disk.registry
    /\ events' = disk.ledger
    /\ server' = "oracle key"
    /\ UNCHANGED << disk, torn, signer, nextKey, faults, requestVars, nextEvent, answered >>

\* The weather oracle reads its key, or makes one and writes it; so does the
\* issuer of passports, last of all.
FindOracleKey ==
    /\ server = "oracle key"
    /\ disk.oracleKey # NoKey
    /\ server' = "portal"
    /\ UNCHANGED << disk, torn, registry, signer, nextKey, faults, requestVars, eventVars >>

OpenOracleKey ==
    /\ server = "oracle key"
    /\ disk.oracleKey = NoKey /\ "oracle key" \notin torn
    /\ torn' = Truncated("oracle key")
    /\ server' = "write oracle key"
    /\ UNCHANGED << disk, registry, signer, nextKey, faults, requestVars, eventVars >>

WriteOracleKey ==
    /\ server = "write oracle key"
    /\ nextKey <= MaxKeys
    /\ disk' = [disk EXCEPT !.oracleKey = nextKey]
    /\ torn' = Written("oracle key")
    /\ nextKey' = nextKey + 1
    /\ server' = "portal"
    /\ UNCHANGED << registry, signer, faults, requestVars, eventVars >>

(* For the mutation runs: a portal that has lost its key makes another one. *)
SignerFoundOrNew == IF disk.portalKey = NoKey THEN nextKey ELSE disk.portalKey

SignerFound == disk.portalKey

\* The portal is registered: its key is in the key file, if there is one.
FindPortal ==
    /\ server = "portal"
    /\ Portal \in DOMAIN registry
    /\ "portal key" \notin torn
    /\ signer' = SignerFound
    /\ server' = "up"
    /\ UNCHANGED << disk, torn, registry, nextKey, faults, requestVars, eventVars >>

\* It is not: it is registered, the registry saved, and the key file written.
RegisterPortal ==
    /\ server = "portal"
    /\ Portal \notin DOMAIN registry
    /\ nextKey <= MaxKeys
    /\ registry' = With(registry, Portal, nextKey)
    /\ nextKey' = nextKey + 1
    /\ disk' = [disk EXCEPT !.registry = NoOrgs]
    /\ torn' = Truncated("registry")
    /\ server' = "save portal"
    /\ UNCHANGED << signer, faults, requestVars, eventVars >>

SavePortal ==
    /\ server = "save portal"
    /\ disk' = [disk EXCEPT !.registry = registry]
    /\ torn' = Written("registry")
    /\ server' = "portal key"
    /\ UNCHANGED << registry, signer, nextKey, faults, requestVars, eventVars >>

OpenPortalKey ==
    /\ server = "portal key"
    /\ torn' = Truncated("portal key")
    /\ disk' = [disk EXCEPT !.portalKey = NoKey]
    /\ server' = "write portal key"
    /\ UNCHANGED << registry, signer, nextKey, faults, requestVars, eventVars >>

WritePortalKey ==
    /\ server = "write portal key"
    /\ disk' = [disk EXCEPT !.portalKey = registry[Portal]]
    /\ torn' = Written("portal key")
    /\ signer' = registry[Portal]
    /\ server' = "up"
    /\ UNCHANGED << registry, nextKey, faults, requestVars, eventVars >>

Crash ==
    /\ server # "down"
    /\ faults < MaxFaults
    /\ faults' = faults + 1
    /\ server' = "down"
    /\ registry' = NoOrgs
    /\ signer' = NoKey
    /\ events' = << >>
    /\ writer' = Nobody
    /\ handlers' = [h \in Handlers |-> Unoccupied]
    /\ UNCHANGED << disk, torn, nextKey, acked, refs, attested, archives, nextEvent,
                    answered >>

Start ==
    \/ LoadFiles \/ FindOracleKey \/ OpenOracleKey \/ WriteOracleKey
    \/ FindPortal \/ RegisterPortal \/ SavePortal \/ OpenPortalKey
    \/ WritePortalKey
-----------------------------------------------------------------------------
(* Requests *)

Doing(h, step) == handlers[h].step = step

Proceed(h, call) == handlers' = [handlers EXCEPT ![h] = call]

\* register_org, under the write lock
RegisterOrg(h, org) ==
    /\ server = "up" /\ Doing(h, "idle") /\ writer = Nobody
    /\ org \notin DOMAIN registry
    /\ nextKey <= MaxKeys
    /\ registry' = With(registry, org, nextKey)
    /\ nextKey' = nextKey + 1
    /\ disk' = [disk EXCEPT !.registry = NoOrgs]
    /\ torn' = Truncated("registry")
    /\ writer' = h
    /\ Proceed(h, [step |-> "save", org |-> org, key |-> nextKey])
    /\ UNCHANGED << server, signer, faults, acked, refs, attested, archives, eventVars >>

SaveRegistry(h) ==
    /\ Doing(h, "save")
    /\ disk' = [disk EXCEPT !.registry = registry]
    /\ torn' = Written("registry")
    /\ acked' = acked \cup {<< handlers[h].org, handlers[h].key >>}
    /\ writer' = Nobody
    /\ Proceed(h, Unoccupied)
    /\ UNCHANGED << server, registry, signer, nextKey, faults, refs, attested, archives,
                    eventVars >>

\* The disk is full: the organization stays in memory, its key is lost.
SaveFails(h) ==
    /\ Doing(h, "save")
    /\ faults < MaxFaults
    /\ faults' = faults + 1
    /\ writer' = Nobody
    /\ Proceed(h, Unoccupied)
    /\ UNCHANGED << disk, torn, server, registry, signer, nextKey, acked, refs,
                    attested, archives, eventVars >>

\* EvidenceStore.put, for a file that is sent or a response of the weather
\* provider; the name holds the digest, so the same bytes meet the same file.
OpenArtifact(h, a, source) ==
    /\ server = "up" /\ Doing(h, "idle")
    /\ disk' = [disk EXCEPT !.artifacts[a] = "partial"]
    /\ Proceed(h, [step |-> "upload", artifact |-> a, source |-> source])
    /\ UNCHANGED << torn, server, registry, signer, nextKey, faults, writer, acked,
                    refs, attested, archives, eventVars >>

\* What the oracle fetched goes out with an attestation under its key.
Attest(source) == attested \cup (IF source = "oracle" THEN {disk.oracleKey} ELSE {})

WriteArtifact(h) ==
    LET a == handlers[h].artifact
    IN  /\ Doing(h, "upload")
        /\ disk' = [disk EXCEPT !.artifacts[a] = "whole"]
        /\ refs' = refs \cup {a}
        /\ attested' = Attest(handlers[h].source)
        /\ Proceed(h, Unoccupied)
        /\ UNCHANGED << torn, server, registry, signer, nextKey, faults, writer,
                        acked, archives, eventVars >>

(* A line that the write gets through whole, without its newline ("bare"), or *)
(* in part ("torn").  What follows anything but a newline shares its line and *)
(* cannot be parsed.                                                         *)
WriteLine(event, end) ==
    IF disk.tail = "ended" /\ end # "torn"
    THEN [disk EXCEPT !.ledger = Append(@, event), !.tail = end]
    ELSE [disk EXCEPT !.tail = "torn"]

\* commit_event under the write lock: the event goes into memory ...
Record(a) ==
    /\ server = "up" /\ writer = Nobody
    /\ a \in refs
    /\ nextEvent <= MaxFileEvents
    /\ nextEvent' = nextEvent + 1
    /\ events' = Append(events, [id |-> nextEvent, artifact |-> a])
    /\ UNCHANGED << torn, server, registry, signer, nextKey, requestVars >>

\* ... and onto the file,
AppendEvent(a) ==
    LET event == [id |-> nextEvent, artifact |-> a]
    IN  /\ Record(a)
        /\ disk' = WriteLine(event, "ended")
        /\ answered' = answered \cup {event}
        /\ UNCHANGED faults

\* or the disk is full: it stays in memory, and some of it may be on the file.
AppendFails(a) ==
    LET event == [id |-> nextEvent, artifact |-> a]
    IN  /\ faults < MaxFaults
        /\ faults' = faults + 1
        /\ Record(a)
        /\ disk' \in {disk, WriteLine(event, "bare"), WriteLine(event, "torn")}
        /\ UNCHANGED answered

(* For the mutation runs: the export does not take the write lock.          *)
HolderNone(h) == Nobody

Holder(h) == h

Stored == {a \in Artifacts : disk.artifacts[a] # "absent"}

\* The files an archive is made of; "names" are the artifacts it was to hold.
Contents(names) ==
    [registry |-> disk.registry, torn |-> "registry" \in torn,
     ledger |-> disk.ledger, tail |-> disk.tail,
     artifacts |-> [a \in names |-> disk.artifacts[a]]]

\* The height that the summary gives is that of the ledger in memory.  "acked" and
\* "answered" are what had been promised by then.
Summary == [height |-> Len(events), acked |-> acked, answered |-> answered]

\* admin_export: the summary and the list of files first ...
BeginExport(h) ==
    /\ server = "up" /\ Doing(h, "idle") /\ writer = Nobody
    /\ Cardinality(archives) < MaxExports
    /\ writer' = Holder(h)
    /\ Proceed(h, [step |-> "hash", names |-> Stored, summary |-> Summary])
    /\ UNCHANGED << startVars, acked, refs, attested, archives, eventVars >>

\* ... then the checksum of every file ...
HashFiles(h) ==
    /\ Doing(h, "hash")
    /\ Proceed(h, [step |-> "pack", summary |-> handlers[h].summary,
                   hashed |-> Contents(handlers[h].names)])
    /\ UNCHANGED << startVars, writer, acked, refs, attested, archives, eventVars >>

\* ... and at last the files again, into the archive.
PackFiles(h) ==
    LET call == handlers[h]
    IN  /\ Doing(h, "pack")
        /\ archives' = archives \cup
               {[summary |-> call.summary, hashed |-> call.hashed,
                 packed |-> Contents(DOMAIN call.hashed.artifacts)]}
        /\ writer' = Nobody
        /\ Proceed(h, Unoccupied)
        /\ UNCHANGED << startVars, acked, refs, attested, eventVars >>

FilesNext ==
    \/ Start
    \/ Crash
    \/ \E h \in Handlers :
          \/ \E org \in Clients : RegisterOrg(h, org)
          \/ SaveRegistry(h) \/ SaveFails(h)
          \/ \E a \in Artifacts, source \in {"upload", "oracle"} : OpenArtifact(h, a, source)
          \/ WriteArtifact(h)
          \/ BeginExport(h) \/ HashFiles(h) \/ PackFiles(h)
    \/ \E a \in Artifacts : AppendEvent(a) \/ AppendFails(a)

FilesSpec == FilesInit /\ [][FilesNext]_fileVars
-----------------------------------------------------------------------------
\* The checksums hold, and registry and ledger can be loaded.
Restores(archive) ==
    /\ archive.packed = archive.hashed
    /\ ~archive.packed.torn /\ archive.packed.tail # "torn"

(* Whenever the server is up, it knows every organization that was ever       *)
(* handed a private key, with that key: a registry that a crash left torn     *)
(* keeps the server down, and is never taken for an empty one.                *)
AckedOrgsSurvive ==
    server = "up" =>
        \A entry \in acked : /\ entry[1] \in DOMAIN registry
                             /\ registry[entry[1]] = entry[2]

(* A backup that can be restored has every event that was answered before it, *)
(* every organization that was handed a key, and a file for every artifact    *)
(* its events refer to.  Its ledger has no event that the height in its       *)
(* summary does not count; after a failed write it may have fewer, since the   *)
(* summary is of the ledger in memory.                                        *)
ArchiveComplete ==
    \A archive \in archives :
        LET files == archive.packed
            lines == 1 .. Len(files.ledger)
        IN  Restores(archive) =>
                /\ Len(files.ledger) <= archive.summary.height
                /\ archive.summary.answered \subseteq {files.ledger[i] : i \in lines}
                /\ \A entry \in archive.summary.acked :
                       /\ entry[1] \in DOMAIN files.registry
                       /\ files.registry[entry[1]] = entry[2]
                /\ \A i \in lines : files.ledger[i].artifact \in DOMAIN files.artifacts

(* Wherever the start was interrupted before: the portal signs scans with the *)
(* key it is registered with or not at all, and the attestations given out    *)
(* earlier verify with the key that the oracle has.                           *)
KeysKept ==
    server = "up" =>
        /\ signer # NoKey => registry[Portal] = signer
        /\ attested \subseteq {disk.oracleKey}
=============================================================================
