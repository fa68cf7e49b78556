------------------------------ MODULE Secrets ------------------------------
(***************************************************************************)
(* The encrypted secret store (src/internal/secrets) as a sequence of      *)
(* commands: `nexus secret set`, rotate, remove, export and import, and    *)
(* what a run is given by Env in between.  Each command is a process of    *)
(* its own that reads the file and replaces it (SharedFiles has what       *)
(* happens when two overlap), under the master key its environment gives   *)
(* it, and time passes.                                                    *)
(***************************************************************************)
EXTENDS Naturals, Sequences, FiniteSets, Functions

CONSTANTS
  Agents, Devices, Keys,   \* what a secret is scoped to, and its name
  Values,                  \* plaintexts
  MasterKeys, Passphrases,
  Lifetimes,               \* what --expires-in may be
  Grace,                   \* how long the value before a rotation is offered
  Everywhere, NoValue, Never,
  MaxTime, MaxOps          \* bounds of the clock and of the commands

SecretsAssumption ==
  /\ Grace \in Nat \ {0} /\ MaxTime \in Nat /\ MaxOps \in Nat
  /\ Lifetimes \subseteq Nat
  /\ Everywhere \notin Devices /\ NoValue \notin Values /\ Never \notin Nat

VARIABLES
  secrets,   \* the entries of secrets.json
  backup,    \* the backup file
  now,       \* the clock
  ops,       \* how many commands changed something
  log        \* what was written to which scope, in order

vars == <<secrets, backup, now, ops, log>>

Scopes == [agent : Agents, device : Devices \cup {Everywhere}, key : Keys]

(* A value is stored sealed under the master key of the process.           *)
Seal(v, mk) == [plain |-> v, under |-> mk]
Opens(box, mk) == box.under = mk
Unsealed == [plain |-> NoValue, under |-> NoValue]

NoBackup == [pass |-> NoValue, entries |-> {}, agent |-> NoValue, asOf |-> 0]
Init == secrets = {} /\ backup = NoBackup /\ now = 0 /\ ops = 0 /\ log = <<>>

At(scope) == {s \in secrets : s.scope = scope}
Wrote(op, scope, v, mk, expires) ==
  [op |-> op, scope |-> scope, plain |-> v, under |-> mk, at |-> now, expires |-> expires]

Expired(s) == s.expires # Never /\ now > s.expires

-----------------------------------------------------------------------------
Busy == ops < MaxOps /\ ops' = ops + 1

(* Broken: an overwrite is taken for a rotation.                           *)
SetAsRotation(scope, v, mk, expires) ==
  /\ Busy
  /\ LET old == At(scope)
         entry == [scope |-> scope, value |-> Seal(v, mk), expires |-> expires,
                   version |-> 1,
                   previous |-> IF old = {} THEN Unsealed
                                ELSE (CHOOSE s \in old : TRUE).value,
                   rotated |-> now]
     IN  secrets' = (secrets \ old) \cup {entry}
  /\ log' = Append(log, Wrote("set", scope, v, mk, expires))
  /\ UNCHANGED <<backup, now>>

(* An overwrite forgets the value before it, and its expiry.               *)
Set(scope, v, mk, expires) ==
  /\ Busy
  /\ LET old == At(scope)
         entry == [scope |-> scope, value |-> Seal(v, mk), expires |-> expires,
                   version |-> IF old = {} THEN 1 ELSE (CHOOSE s \in old : TRUE).version + 1,
                   previous |-> Unsealed, rotated |-> 0]
     IN  secrets' = (secrets \ old) \cup {entry}
  /\ log' = Append(log, Wrote("set", scope, v, mk, expires))
  /\ UNCHANGED <<backup, now>>

(* A rotation keeps the expiry.                                            *)
Rotate(scope, v, mk) ==
  /\ Busy
  /\ \E s \in At(scope) :
       /\ secrets' = (secrets \ {s}) \cup
            {[s EXCEPT !.previous = s.value, !.value = Seal(v, mk),
                       !.rotated = now, !.version = @ + 1]}
       /\ log' = Append(log, Wrote("rotate", scope, v, mk, s.expires))
  /\ UNCHANGED <<backup, now>>

Remove(scope) ==
  /\ Busy
  /\ At(scope) # {}
  /\ secrets' = secrets \ At(scope)
  /\ log' = Append(log, Wrote("remove", scope, NoValue, NoValue, Never))
  /\ UNCHANGED <<backup, now>>

-----------------------------------------------------------------------------

(* Export: the plaintexts of one agent's secrets, or of all, under a       *)
(* passphrase.  It refuses if one of them does not open, or there is none. *)
(* Previous values stay behind.                                            *)
Exported(agent) == {s \in secrets : agent \in {NoValue, s.scope.agent}}

Export(agent, mk, pass) ==
  /\ Busy
  /\ Exported(agent) # {} /\ \A s \in Exported(agent) : Opens(s.value, mk)
  /\ backup' = [pass |-> pass, agent |-> agent, asOf |-> Len(log),
                entries |-> {[scope |-> s.scope, plain |-> s.value.plain,
                              version |-> s.version, expires |-> s.expires] : s \in Exported(agent)}]
  /\ UNCHANGED <<secrets, now, log>>

(* A backup's entries in the order of the file, whichever it is.           *)
Listed(entries) == CHOOSE f \in Bijection(1..Cardinality(entries), entries) : TRUE

(* Import: the entries replace those of their scopes, sealed again under   *)
(* the master key of this machine; without the passphrase, nothing.        *)
Restored(e, mk) ==
  [scope |-> e.scope, value |-> Seal(e.plain, mk), expires |-> e.expires,
   version |-> e.version, previous |-> Unsealed, rotated |-> 0]

Import(mk, pass) ==
  /\ Busy
  /\ backup # NoBackup /\ pass = backup.pass
  /\ secrets' = {s \in secrets : \A e \in backup.entries : e.scope # s.scope}
                  \cup {Restored(e, mk) : e \in backup.entries}
  /\ log' = log \o Listed({Wrote("set", e.scope, e.plain, mk, e.expires) : e \in backup.entries})
  /\ UNCHANGED <<backup, now>>

Tick == now < MaxTime /\ now' = now + 1 /\ UNCHANGED <<secrets, backup, ops, log>>

Next ==
  \/ \E scope \in Scopes, mk \in MasterKeys, v \in Values :
       \/ \E life \in Lifetimes \cup {Never} :
            Set(scope, v, mk, IF life = Never THEN Never ELSE now + life)
       \/ Rotate(scope, v, mk)
  \/ \E scope \in Scopes : Remove(scope)
  \/ \E agent \in Agents \cup {NoValue}, mk \in MasterKeys, pass \in Passphrases :
       Export(agent, mk, pass)
  \/ \E mk \in MasterKeys, pass \in Passphrases : Import(mk, pass)
  \/ Tick

Spec == Init /\ [][Next]_vars

-----------------------------------------------------------------------------
(* resolve and Env: what a run of an agent on a device is given.           *)

Resolve(agent, key, device) ==
  LET own == At([agent |-> agent, device |-> device, key |-> key])
  IN  IF own # {} THEN own ELSE At([agent |-> agent, device |-> Everywhere, key |-> key])

Missing == [status |-> "missing", value |-> NoValue, previous |-> NoValue]

Env(agent, key, device, mk) ==
  LET hits == Resolve(agent, key, device)
      s == CHOOSE x \in hits : TRUE
  IN  IF hits = {} \/ Expired(s) THEN Missing
      ELSE IF ~Opens(s.value, mk) THEN [Missing EXCEPT !.status = "error"]
      ELSE [status |-> "given", value |-> s.value.plain,
            previous |-> IF /\ s.previous # Unsealed /\ now - s.rotated < Grace
                            /\ Opens(s.previous, mk)
                           THEN s.previous.plain ELSE NoValue]

-----------------------------------------------------------------------------
(* Every variable keeps its type, and a scope has one entry at most.       *)
TypeOK ==
  /\ \A s \in secrets : /\ s.scope \in Scopes /\ s.value \in [plain : Values, under : MasterKeys]
                        /\ s.previous \in [plain : Values, under : MasterKeys] \cup {Unsealed}
                        /\ s.version \in 1..MaxOps /\ s.rotated \in 0..now
                        /\ s.expires \in Nat \cup {Never}
  /\ \A s, t \in secrets : s.scope = t.scope => s = t
  /\ now \in 0..MaxTime /\ ops \in 0..MaxOps
  /\ backup.asOf \in 0..Len(log)

(* What the history of a scope means: its last write holds; a rotation     *)
(* also offers the value before it, while the grace lasts and if it opens. *)
Writes(scope, n) == {i \in 1..n : log[i].scope = scope}
LastWrite(scope, n) == CHOOSE i \in Writes(scope, n) : \A j \in Writes(scope, n) : j <= i
Holds(scope, n) == Writes(scope, n) # {} /\ log[LastWrite(scope, n)].op # "remove"

Narrowest(agent, key, device) ==
  LET own == [agent |-> agent, device |-> device, key |-> key]
  IN  IF Holds(own, Len(log)) THEN own ELSE [own EXCEPT !.device = Everywhere]

Meant(scope, mk) ==
  LET last == LastWrite(scope, Len(log))
      w == log[last]
      before == log[LastWrite(scope, last - 1)]
  IN  IF ~Holds(scope, Len(log)) \/ (w.expires # Never /\ now > w.expires) THEN Missing
      ELSE IF w.under # mk THEN [Missing EXCEPT !.status = "error"]
      ELSE [status |-> "given", value |-> w.plain,
            previous |-> IF w.op = "rotate" /\ now - w.at < Grace /\ before.under = mk
                           THEN before.plain ELSE NoValue]

(* A run is given exactly what the commands before it amount to: the       *)
(* device's own secret before the one for all devices, never one that has  *)
(* expired, an error and never silence under the wrong master key, and the *)
(* value before a rotation only within its grace.                          *)
EnvIsWhatWasWritten ==
  \A agent \in Agents, key \in Keys, device \in Devices \cup {Everywhere}, mk \in MasterKeys :
    Env(agent, key, device, mk) = Meant(Narrowest(agent, key, device), mk)

(* A backup holds what its agent's scopes held when it was written, all of *)
(* them, and nothing of another agent.                                     *)
BackupIsComplete ==
  backup # NoBackup =>
    {[scope |-> e.scope, plain |-> e.plain] : e \in backup.entries} =
    {[scope |-> scope, plain |-> log[LastWrite(scope, backup.asOf)].plain] :
       scope \in {s \in Scopes : Holds(s, backup.asOf) /\ backup.agent \in {NoValue, s.agent}}}
=============================================================================
