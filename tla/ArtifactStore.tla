---------------------------- MODULE ArtifactStore ----------------------------
(***************************************************************************)
(* The private artifact files of the runs                                  *)
(* (src/fcp_mcp/workflow/artifacts.py), one directory per run: candidate,  *)
(* diff, failure evidence and receipt.  A writer takes an exclusive kernel *)
(* lock on the directory, counts the bytes already there, writes a         *)
(* temporary file and puts it in place with os.replace; then it reads it   *)
(* back through its descriptor and withdraws it when that fails.  A reader *)
(* takes a shared lock and accepts the bytes only if they are those        *)
(* recorded.  A library of actions: the modules that call the store supply *)
(* the callers and say what happens next.                                  *)
(***************************************************************************)
EXTENDS Integers, FiniteSetsExt

CONSTANTS
    Runs,               \* run identifiers
    Kinds,              \* kinds of artifact, a file name each
    Nothing,            \* no file, or no lock
    Corrupt,            \* a file truncated by somebody else
    SizeOf(_, _),       \* bytes of a body of some kind
    MaxArtifactBytes    \* config.max_artifact_bytes

VARIABLES
    stored,   \* run -> kind -> the body on disk
    locked    \* run -> who holds the exclusive lock of its directory

ArtifactInit ==
    /\ stored = [r \in Runs |-> [kind \in Kinds |-> Nothing]]
    /\ locked = [r \in Runs |-> Nothing]

Unlocked(r) == locked[r] = Nothing

Bytes(kind, body) == IF body \in {Nothing, Corrupt} THEN 0 ELSE SizeOf(kind, body)

(* The limit is on the run's directory as a whole and counts every file in  *)
(* it, recorded or not; the file about to be replaced does not count.       *)
Fits(r, kind, body) ==
    Bytes(kind, body) + MapThenSumSet(LAMBDA other: Bytes(other, stored[r][other]),
                                      Kinds \ {kind})
        <= MaxArtifactBytes

(* write, as far as os.replace.                                             *)
Publish(p, r, kind, body) ==
    /\ Unlocked(r)
    /\ Fits(r, kind, body)
    /\ locked' = [locked EXCEPT ![r] = p]
    /\ stored' = [stored EXCEPT ![r][kind] = body]

(* The rest of write: the bytes read back are those written.                *)
Confirm(p, r, kind, body) ==
    /\ locked[r] = p
    /\ stored[r][kind] = body
    /\ locked' = [locked EXCEPT ![r] = Nothing]
    /\ UNCHANGED stored

(* The rest of write after an error: the published file is unlinked, unless *)
(* that fails too; its failure is only a note on the first error.           *)
Withdraw(p, r, kind) ==
    /\ locked[r] = p
    /\ locked' = [locked EXCEPT ![r] = Nothing]
    /\ stored' \in {stored, [stored EXCEPT ![r][kind] = Nothing]}

(* What read accepts and refuses; it waits for a writer.                    *)
Readable(r, kind, body) == Unlocked(r) /\ stored[r][kind] = body
Unreadable(r, kind, body) == Unlocked(r) /\ stored[r][kind] # body

(* The kernel drops the locks of a process that dies; its files stay.        *)
DropLocks(p) ==
    /\ locked' = [r \in Runs |-> IF locked[r] = p THEN Nothing ELSE locked[r]]
    /\ UNCHANGED stored

Damage(r, kind) ==
    /\ stored[r][kind] \notin {Nothing, Corrupt}
    /\ stored' = [stored EXCEPT ![r][kind] = Corrupt]
    /\ UNCHANGED locked
=============================================================================
