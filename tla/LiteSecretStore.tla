--------------------------- MODULE LiteSecretStore ---------------------------
(***************************************************************************)
(* lite.LiteSecretStore (src/harness/lite/secret.go): credentials by name, *)
(* each a Go map.  A map is a reference, which the caller keeps and may    *)
(* write through, so StoreCredentials and GetCredentials copy; the lock    *)
(* covers neither copy, only the access to the store's own map.            *)
(***************************************************************************)
EXTENDS LiteProcess, Sequences

CONSTANTS
    Secrets,        \* names of credentials
    Environment,    \* those that are set in the environment
    MaxMaps,        \* bound: maps ever made
    MaxWrites       \* bound: writes of callers through maps they hold

ASSUME SecretBounds ==
    Environment \subseteq Secrets /\ MaxMaps \in Nat /\ MaxWrites \in Nat

VARIABLES
    maps,       \* maps[r]: what the map r holds, as a number
    stored,     \* the map stored under each name
    holds,      \* holds[c]: the map c has made or been given last; 0: none
    secretOp,   \* secretOp[c]: the call c is in
    writes,     \* contents written so far; numbers them
    meant       \* meant[n]: what the map last stored under n held (history)

secretVars == <<maps, stored, holds, secretOp, writes, meant>>

NoCall == [at |-> "idle"]

SecretsInit ==
    /\ maps = <<>> /\ stored = <<>> /\ meant = <<>>
    /\ holds = [c \in Clients |-> 0]
    /\ secretOp = [c \in Clients |-> NoCall]
    /\ writes = 0

-----------------------------------------------------------------------------
Between(c) == secretOp[c] = NoCall

NewMap(content) == Len(maps) < MaxMaps /\ maps' = Append(maps, content)
Hold(c, r) == holds' = [holds EXCEPT ![c] = r]

(* The caller makes a map of its own, or writes to the one it holds.       *)
CallerWrites(c) ==
    /\ Between(c)
    /\ writes < MaxWrites /\ writes' = writes + 1
    /\ \/ NewMap(writes') /\ Hold(c, Len(maps'))
       \/ /\ holds[c] # 0
          /\ maps' = [maps EXCEPT ![holds[c]] = writes']
          /\ UNCHANGED holds
    /\ UNCHANGED <<stored, secretOp, meant>>

StoreCopies(c, n) ==
    /\ Between(c) /\ holds[c] # 0
    /\ NewMap(maps[holds[c]])
    /\ secretOp' = [secretOp EXCEPT ![c] =
         [at |-> "insert", name |-> n, map |-> Len(maps'), content |-> maps[holds[c]]]]
    /\ UNCHANGED <<stored, holds, writes, meant>>

StoreInserts(c) ==
    LET op == secretOp[c] IN
    /\ op.at = "insert"
    /\ stored' = With(stored, op.name, op.map)
    /\ meant' = With(meant, op.name, op.content)
    /\ secretOp' = [secretOp EXCEPT ![c] = NoCall]
    /\ UNCHANGED <<maps, holds, writes>>

(* A name that is not stored is looked up in the environment.              *)
GetLooksUp(c, n) ==
    /\ Between(c)
    /\ \/ /\ n \in DOMAIN stored
          /\ secretOp' = [secretOp EXCEPT ![c] = [at |-> "copy", map |-> stored[n]]]
          /\ UNCHANGED <<maps, holds>>
       \/ /\ n \in Environment \ DOMAIN stored
          /\ NewMap(0) /\ Hold(c, Len(maps'))
          /\ UNCHANGED secretOp
    /\ UNCHANGED <<stored, writes, meant>>

ReturnsStored(c, r) == Hold(c, r) /\ UNCHANGED maps    \* variant for CredentialsArePrivate
ReturnsCopy(c, r) == NewMap(maps[r]) /\ Hold(c, Len(maps'))

GetCopies(c) ==
    /\ secretOp[c].at = "copy"
    /\ ReturnsCopy(c, secretOp[c].map)
    /\ secretOp' = [secretOp EXCEPT ![c] = NoCall]
    /\ UNCHANGED <<stored, writes, meant>>

SecretStep(c) ==
    \/ CallerWrites(c) \/ StoreInserts(c) \/ GetCopies(c)
    \/ \E n \in Secrets : StoreCopies(c, n) \/ GetLooksUp(c, n)

SecretsCrash ==
    /\ maps' = <<>> /\ stored' = <<>> /\ meant' = <<>>
    /\ holds' = [c \in Clients |-> 0]
    /\ secretOp' = [c \in Clients |-> NoCall]
    /\ UNCHANGED writes

-----------------------------------------------------------------------------
(* Whatever callers write to the maps they have passed to the store or got *)
(* from it, the store holds what was passed when it was passed; and no     *)
(* caller writes to a map while a Get is copying it without the lock.      *)
CredentialsArePrivate ==
    /\ \A n \in DOMAIN stored : maps[stored[n]] = meant[n]
    /\ \A c, d \in Clients : secretOp[c].at = "copy" => holds[d] # secretOp[c].map
=============================================================================
