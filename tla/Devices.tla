------------------------------ MODULE Devices ------------------------------
(***************************************************************************)
(* The devices of an account, beside its sessions: a client registers a    *)
(* device for its session or its OAuth refresh token, the server makes one *)
(* up for a session that syncs or a refresh token that is granted, devices *)
(* send each other notifications and commands, and are disconnected.  The  *)
(* push service, pushbox and the OAuth server are other services.          *)
(***************************************************************************)
EXTENDS SessionCache

CONSTANTS
  Refreshes,  \* refresh tokens for sync
  Urls,       \* push endpoints, each with its keys
  BadKeys,    \* those whose stored key is not valid
  MaxBox      \* bound: commands that wait for a device

ASSUME DeviceAssumption ==
  /\ MaxBox \in Nat
  /\ BadKeys \subseteq Urls
  /\ None \notin Refreshes \cup Urls \cup DeviceIds

VARIABLES
  reg,      \* MySQL: id of a device -> what else its record has
  dead,     \* push service: the endpoints it no longer knows
  live,     \* OAuth server: refresh tokens
  box,      \* pushbox: id of a device -> how many commands were stored
  task,     \* what the requests about devices are doing
  held,     \* history: refresh tokens that a client was given
  lost,     \* history: those whose device went without them
  linked,   \* history: <<session, device>>, once they belonged together
  certs,    \* history: <<session, device>> that a certificate names
  notices   \* history: <<device, command>> that was pushed

dvars == <<reg, dead, live, box, task, held, lost, linked, certs, notices>>
vars == <<svars, dvars>>

\* A device as db.devices shows it.
Records == [sess : Ids \cup {None}, ref : Refreshes \cup {None},
            url : Urls \cup {None}, gone : BOOLEAN]
Regs == [ref : Refreshes \cup {None}, url : Urls \cup {None}, gone : BOOLEAN]
Shown == [d \in DOMAIN devs |->
  [sess |-> devs[d], ref |-> reg[d].ref, url |-> reg[d].url, gone |-> reg[d].gone]]

TaskOps == {"register", "sign", "grant", "notify", "invoke", "destroy"}
Tasks ==
  [op : TaskOps,
   pc : {"load", "create", "update", "conflict", "answer", "name", "others",
         "read", "store", "push", "delete", "wait", "revoke"},
   sess : Ids \cup {None}, ref : Refreshes \cup {None},  \* the credentials
   dev : DeviceIds \cup {None},  \* the device of the request
   url : Urls \cup {None},       \* the endpoint it gives
   index : 0..MaxBox,            \* the command it stored
   batch : UNION {[S -> Records] : S \in SUBSET DeviceIds}]  \* devices read

ASSUME TaskAssumption == None \notin Tasks

TypeOK ==
  /\ STypeOK
  /\ reg \in [DOMAIN devs -> Regs]
  /\ dead \subseteq Urls
  /\ live \subseteq Refreshes
  /\ box \in [DeviceIds -> 0..MaxBox]
  /\ task \in [Jobs -> Tasks \cup {None}]
  /\ held \subseteq Refreshes /\ lost \subseteq Refreshes
  /\ linked \cup certs \subseteq (Ids \X (DeviceIds \cup {None}))
  /\ notices \subseteq (DeviceIds \X (0..MaxBox))

NoDevices == [d \in {} |-> None]
DInit ==
  /\ reg = NoDevices
  /\ dead = {}
  /\ live = {}
  /\ box = [d \in DeviceIds |-> 0]
  /\ task = [j \in Jobs |-> None]
  /\ held = {} /\ lost = {} /\ linked = {} /\ certs = {} /\ notices = {}

-----------------------------------------------------------------------------
(* How requests begin: with a session token, or a refresh token.           *)

Task(op, pc, s, r) ==
  [op |-> op, pc |-> pc, sess |-> s, ref |-> r, dev |-> None, url |-> None,
   index |-> 0, batch |-> NoDevices]
DevicesOf(s, r) ==
  {d \in DOMAIN devs : (s # None /\ devs[d] = s) \/ (r # None /\ reg[d].ref = r)}
Own(s, r) == IF DevicesOf(s, r) = {} THEN None ELSE CHOOSE d \in DevicesOf(s, r) : TRUE
Idle(j) == task[j] = None /\ job[j] = None
To(j, pc) == task' = [task EXCEPT ![j].pc = pc]
\* db.devices and db.device also read Redis, and delete what cannot be parsed.
ReadDevices ==
  IF cache = Garbage THEN cache' = Empty /\ job' = [k \in Jobs |-> Spoilt(job[k])]
  ELSE UNCHANGED <<cache, job>>
Finish(j) == task' = [task EXCEPT ![j] = None]
At(j, pc) == task[j] # None /\ task[j].pc = pc
History == <<held, lost, linked, certs, notices>>
Services == <<dead, live, box>>

\* "Check if anything has actually changed."  This compares the endpoint given
\* with one that neither kind of credentials has: it always differs.  A request
\* that gives none, and renames a device, is an update too.
IsSpuriousUpdate(own, given, url, renames) ==
  given # None /\ given = own /\ url = None /\ ~renames

\* A registration with a key that is not valid is refused.
Offered == (Urls \ BadKeys) \cup {None}

\* /account/device: the id that the client gives, or else that of its device.
Register(j, s, own, given, url, renames) ==
  LET id == IF given # None THEN given ELSE own
  IN  /\ ~IsSpuriousUpdate(own, given, url, renames)
      /\ task' = [task EXCEPT ![j] =
           [s EXCEPT !.dev = id, !.url = url,
                     !.pc = IF id = None THEN "create" ELSE "update"]]

StartRegister(j, s) ==
  /\ Idle(j)
  /\ s \in DOMAIN rows /\ ~Expired(s)
  /\ \E given \in DOMAIN devs \cup {None}, url \in Offered, renames \in BOOLEAN :
       Register(j, Task("register", "load", s, None), Own(s, None), given, url, renames)
  /\ UNCHANGED <<svars, reg, Services, History>>

\* scheme-refresh-token.js: the token is checked, and then the devices are read.
StartRefresh(j, r) ==
  /\ Idle(j)
  /\ r \in live \cap held
  /\ task' = [task EXCEPT ![j] = Task("register", "load", None, r)]
  /\ UNCHANGED <<svars, reg, Services, History>>
Load(j) ==
  /\ At(j, "load")
  /\ \E given \in DOMAIN devs \cup {None}, url \in Offered, renames \in BOOLEAN :
       Register(j, task[j], Own(None, task[j].ref), given, url, renames)
  /\ ReadDevices
  /\ UNCHANGED <<rows, devs, clock, faults, excused, reg, Services, History>>

\* /certificate/sign notes the access "in the background".
StartSign(j, s) ==
  /\ Idle(j)
  /\ s \in DOMAIN rows /\ ~Expired(s)
  /\ job' = [job EXCEPT ![j] = Job("touch", "read", {s})]
  /\ task' = [task EXCEPT ![j] =
       [Task("sign", IF Own(s, None) = None THEN "create" ELSE "name", s, None)
         EXCEPT !.dev = Own(s, None)]]
  /\ UNCHANGED <<tables, clock, faults, excused, reg, Services, History>>

\* /oauth/token: the OAuth server grants a refresh token, with or without a
\* session token as credentials, and a device is made up for it.
StartGrant(j, s, r) ==
  /\ Idle(j)
  /\ s = None \/ (s \in DOMAIN rows /\ ~Expired(s))
  /\ r \notin live \cup held
  /\ live' = live \cup {r}
  /\ task' = [task EXCEPT ![j] = Task("grant", "create", s, r)]
  /\ UNCHANGED <<svars, reg, dead, box, History>>

\* /account/devices/notify, /account/devices/invoke_command and
\* /account/device/destroy.
StartOther(j, op, d) ==
  /\ Idle(j)
  /\ op \in {"notify", "invoke", "destroy"}
  /\ task' = [task EXCEPT ![j] = [Task(op, "read", None, None) EXCEPT !.dev = d]]
  /\ UNCHANGED <<svars, reg, Services, History>>

-----------------------------------------------------------------------------
(* db.createDevice and db.updateDevice, called by devices.upsert.          *)

\* The unique keys of the table: one device per session and refresh token.
Taken(s, r, d) == DevicesOf(s, r) \ {d} # {}

Create(j, d) ==
  LET t == task[j]
  IN  /\ At(j, "create")
      /\ IF d \in DOMAIN devs \/ Taken(t.sess, t.ref, d)
         THEN /\ task' = [task EXCEPT ![j].pc = "conflict", ![j].dev = d]
              /\ UNCHANGED <<devs, reg, linked>>
         ELSE /\ devs' = [e \in DOMAIN devs \cup {d} |-> IF e = d THEN t.sess ELSE devs[e]]
              /\ reg' = [e \in DOMAIN devs \cup {d} |-> IF e = d
                   THEN [ref |-> t.ref, url |-> t.url, gone |-> FALSE] ELSE reg[e]]
              /\ linked' = IF t.sess = None THEN linked ELSE linked \cup {<<t.sess, d>>}
              /\ task' = [task EXCEPT ![j].dev = d, ![j].pc = "answer"]
      /\ UNCHANGED <<rows, cache, job, clock, faults, excused, Services, held, lost, certs, notices>>

\* Mutant: the error has the id that was not stored.
MutantConflicting(t) == t.dev

Conflicting(t) == Own(t.sess, t.ref)

\* createDevice lists the devices to tell an id that was taken, and retries,
\* from a session that has a device.  /certificate/sign then names that device,
\* which may be gone by now.
CreateConflict(j) ==
  LET t == task[j]
  IN  /\ At(j, "conflict")
      /\ IF t.dev \in DOMAIN devs
         THEN To(j, "create")
         ELSE IF t.op = "sign"
         THEN task' = [task EXCEPT ![j].pc = "name", ![j].dev = Conflicting(t)]
         ELSE Finish(j)
      /\ ReadDevices
      /\ UNCHANGED <<rows, devs, clock, faults, excused, reg, Services, History>>

\* What MySQL makes of an update: what is not given stays.  The flag is always
\* given: `!! deviceInfo.pushEndpointExpired`.
Updated(old, ref, url, gone) ==
  [ref |-> IF ref # None THEN ref ELSE old.ref,
   url |-> IF url # None THEN url ELSE old.url, gone |-> gone]
\* The refresh token that the update took the device from.
Dropped(old, new) == IF new.ref # old.ref THEN {old.ref} \ {None} ELSE {}

Update(j) ==
  LET t == task[j]
      d == t.dev
      new == Updated(reg[d], t.ref, t.url, FALSE)
  IN  /\ At(j, "update")
      /\ Finish(j)
      /\ IF d \notin DOMAIN devs \/ Taken(t.sess, t.ref, d)
         THEN /\ UNCHANGED <<devs, reg, lost, linked>>
              /\ IF d \in DOMAIN devs THEN ReadDevices ELSE UNCHANGED <<cache, job>>
         ELSE /\ devs' = IF t.sess = None THEN devs ELSE [devs EXCEPT ![d] = t.sess]
              /\ reg' = [reg EXCEPT ![d] = new]
              /\ lost' = lost \cup Dropped(reg[d], new)
              /\ linked' = IF t.sess = None THEN linked ELSE linked \cup {<<t.sess, d>>}
              /\ UNCHANGED <<cache, job>>
      /\ UNCHANGED <<rows, clock, faults, excused, Services, held, certs, notices>>

-----------------------------------------------------------------------------
(* The answers, and what goes on in the background.                        *)

\* A new device: the certificate names it, or its refresh token reaches the
\* client once a mail is sent.  The other devices are told in the background.
Answer(j) ==
  LET t == task[j]
  IN  /\ At(j, "answer")
      /\ To(j, "others")
      /\ certs' = IF t.op = "sign" THEN certs \cup {<<t.sess, t.dev>>} ELSE certs
      /\ \/ /\ held' = IF t.op = "grant" THEN held \cup {t.ref} ELSE held
            /\ lost' = lost \cup (IF t.op = "grant" /\ Own(None, t.ref) = None THEN {t.ref} ELSE {})
            /\ UNCHANGED faults
         \/ /\ t.op = "grant"
            /\ faults < MaxFaults
            /\ faults' = faults + 1
            /\ UNCHANGED <<held, lost>>
      /\ UNCHANGED <<tables, job, clock, excused, reg, Services, linked, notices>>

\* A session that has a device already.
Name(j) ==
  /\ At(j, "name")
  /\ certs' = certs \cup {<<task[j].sess, task[j].dev>>}
  /\ Finish(j)
  /\ UNCHANGED <<svars, reg, Services, held, lost, linked, notices>>

\* The devices that a request is about to notify: all but the new one, all, or
\* the target of a command, which must exist.
Batch(t) ==
  LET S == CASE t.pc = "others" -> DOMAIN devs \ {t.dev}
             [] t.op = "invoke" -> DOMAIN devs \cap {t.dev}
             [] OTHER -> DOMAIN devs
  IN  [d \in S |-> Shown[d]]

Read(j) ==
  LET t == task[j]
  IN  /\ At(j, "others") \/ At(j, "read")
      /\ ReadDevices
      /\ IF DOMAIN Batch(t) = {} /\ t.op # "destroy" THEN Finish(j)
         ELSE task' = [task EXCEPT ![j].batch = Batch(t),
                ![j].pc = CASE t.op = "invoke" -> "store"
                            [] t.op = "destroy" -> "delete"
                            [] OTHER -> "push"]
      /\ UNCHANGED <<rows, devs, clock, faults, excused, reg, Services, History>>

\* The command waits in pushbox, and then the device is told its index.
StoreCommand(j) ==
  LET d == task[j].dev
  IN  /\ At(j, "store")
      /\ \/ /\ box[d] < MaxBox
            /\ box' = [box EXCEPT ![d] = @ + 1]
            /\ task' = [task EXCEPT ![j].pc = "push", ![j].index = box[d] + 1]
            /\ UNCHANGED faults
         \/ /\ faults < MaxFaults
            /\ faults' = faults + 1
            /\ Finish(j)
            /\ UNCHANGED box
      /\ UNCHANGED <<tables, job, clock, excused, reg, dead, live, History>>

\* Mutant: only the flag is written, and not the record that was read.
MutantFlagged(old, shown) == Updated(old, None, None, TRUE)

\* Mutant: the record that was read is written back as it was.
MutantWrittenBack(old, shown) == Updated(old, shown.ref, shown.url, shown.gone)

\* The device that was read is written back, with the flag.
Flagged(old, shown) == Updated(old, shown.ref, shown.url, TRUE)

\* The push service answers that it does not know an endpoint, or a message for
\* it cannot be encrypted: "if we've stored an invalid key in the db for some
\* reason".
Resets(u) == u \in dead \cup BadKeys

\* sendPush, one device after the other.  A device with an endpoint is told or
\* flagged; a failure of another kind, or of the update, is logged.  A push
\* without a message is sent even to an endpoint with an invalid key.
Push(j, d) ==
  LET t == task[j]
      r == t.batch[d]
      rest == [e \in DOMAIN t.batch \ {d} |-> t.batch[e]]
      sent == r.url # None /\ ~r.gone
      new == Flagged(reg[d], r)
  IN  /\ At(j, "push")
      /\ d \in DOMAIN t.batch
      /\ IF DOMAIN rest = {} THEN Finish(j) ELSE task' = [task EXCEPT ![j].batch = rest]
      /\ \/ UNCHANGED <<reg, lost, notices>>
         \/ /\ sent /\ Resets(r.url) /\ d \in DOMAIN devs /\ ~Taken(None, r.ref, d)
            /\ reg' = [reg EXCEPT ![d] = new]
            /\ lost' = lost \cup Dropped(reg[d], new)
            /\ UNCHANGED notices
         \/ /\ sent /\ ~Resets(r.url) /\ t.op = "invoke"
            /\ notices' = notices \cup {<<d, t.index>>}
            /\ UNCHANGED <<reg, lost>>
      /\ UNCHANGED <<svars, Services, held, linked, certs>>

-----------------------------------------------------------------------------
(* /account/device/destroy.                                                *)

\* The device as it was read may have no refresh token, or another.
Delete(j) ==
  LET d == task[j].dev
      read == task[j].batch
      known == d \in DOMAIN read /\ read[d].ref = reg[d].ref
  IN  /\ At(j, "delete")
      /\ \/ /\ d \notin DOMAIN devs
            /\ Finish(j)
            /\ UNCHANGED <<svars, reg, lost>>
         \/ /\ DropDevice(j, d)
            /\ reg' = [e \in DOMAIN devs' |-> reg[e]]
            /\ lost' = lost \cup (IF known THEN {} ELSE {reg[d].ref} \ {None})
            /\ To(j, "wait")
      /\ UNCHANGED <<Services, held, linked, certs, notices>>

RefOf(t) == IF t.dev \in DOMAIN t.batch THEN {t.batch[t.dev].ref} \ {None} ELSE {}

\* deleteDevice returns, or fails on the entry in Redis.
Deleted(j) ==
  LET t == task[j]
  IN  /\ At(j, "wait") /\ job[j] # None
      /\ job' = [job EXCEPT ![j] = None]
      /\ \/ /\ job[j].pc = "dropped"
            /\ IF RefOf(t) # {} THEN To(j, "revoke")
               ELSE IF t.batch = NoDevices THEN Finish(j) ELSE To(j, "push")
            /\ UNCHANGED lost
         \/ /\ job[j].pc = "failed"
            /\ Finish(j)
            /\ lost' = lost \cup RefOf(t)
      /\ UNCHANGED <<tables, clock, faults, excused, reg, Services, held, linked, certs, notices>>

\* Mutant: the token is revoked only if the session of the device is known.
MutantRevoked(t) == IF t.batch[t.dev].sess = None THEN {} ELSE RefOf(t)

Revoked(t) == RefOf(t)

\* An error is logged, and the token stays.
Revoke(j) ==
  /\ At(j, "revoke")
  /\ To(j, "push")
  /\ \/ live' = live \ Revoked(task[j]) /\ UNCHANGED <<faults, lost>>
     \/ /\ faults < MaxFaults
        /\ faults' = faults + 1
        /\ lost' = lost \cup RefOf(task[j])
        /\ UNCHANGED live
  /\ UNCHANGED <<tables, job, clock, excused, reg, dead, box, held, linked, certs, notices>>

\* An endpoint is given up.
Unsubscribe(u) ==
  /\ u \notin dead
  /\ dead' = dead \cup {u}
  /\ UNCHANGED <<svars, reg, live, box, task, History>>

\* A request about sessions only; the devices of a session go with it, and a
\* refresh token that shared such a device is on no list any more.
SessionStep ==
  /\ SNext
  /\ reg' = [d \in DOMAIN devs' |-> reg[d]]
  /\ lost' = lost \cup ({reg[d].ref : d \in DOMAIN devs \ DOMAIN devs'} \ {None})
  /\ UNCHANGED <<Services, task, held, linked, certs, notices>>

DNext ==
  \/ \E j \in Jobs :
       \/ \E s \in Ids : StartRegister(j, s) \/ StartSign(j, s)
       \/ \E r \in Refreshes : StartRefresh(j, r)
                               \/ \E s \in Ids \cup {None} : StartGrant(j, s, r)
       \/ \E op \in TaskOps, d \in DOMAIN devs : StartOther(j, op, d)
       \/ \E d \in DeviceIds : Create(j, d) \/ Push(j, d)
       \/ Load(j) \/ CreateConflict(j) \/ Update(j) \/ Answer(j) \/ Name(j)
       \/ Read(j) \/ StoreCommand(j) \/ Delete(j) \/ Deleted(j) \/ Revoke(j)
  \/ \E u \in Urls : Unsubscribe(u)

Init == SInit /\ DInit
Next == SessionStep \/ DNext
Spec == Init /\ [][Next]_vars

-----------------------------------------------------------------------------
(* Properties.                                                             *)

\* A device is marked as one that lost its endpoint only if the push service
\* gave up the endpoint that its record has, or the key stored with it is not
\* valid, even if the device registers another while a push to the old one is
\* under way (push.js sendPush).
GoneEndpointsReset == \A d \in DOMAIN reg : reg[d].gone => Resets(reg[d].url)

\* A push that overtakes a registration writes the endpoint that it read over
\* the new one.  The device then has the flag, by which "the clients will check
\* this and re-register push endpoints": no endpoint but one that a client just
\* gave takes the place of another without it (push.js sendPush).
OverwrittenAreFlagged ==
  [][\A d \in DOMAIN reg \cap DOMAIN reg' : reg'[d].url # reg[d].url =>
       \/ reg'[d].gone
       \/ \E j \in Jobs : At(j, "update") /\ task'[j] = None
                          /\ task[j].dev = d /\ task[j].url = reg'[d].url]_vars

\* A certificate that names a device names one that was registered for the
\* session it was signed for, whoever registered it first (sign.js).
CertificatesNameOwnDevice == \A c \in certs : c[2] = None \/ c \in linked

\* A device is told of a command only once it can fetch the command
\* (devices-and-sessions.js invoke_command).
NoticesFollowMessages == \A n \in notices : n[2] \in 1..box[n[1]]

\* So what is recorded of endpoints, and what is pushed to them, is true.
PushTellsTheTruth == GoneEndpointsReset /\ NoticesFollowMessages

\* A refresh token for sync that a client holds, and that works, is shown as a
\* device, so that its user can disconnect it; or its device is being
\* disconnected; or it was lost on a way that this module lists: a call failed
\* after its device was deleted, or its device was overtaken by another request
\* (devices-and-sessions.js destroy, utils/oauth.js newTokenNotification).
LiveTokensAreListed ==
  \A r \in live \cap held :
    \/ \E d \in DOMAIN reg : reg[d].ref = r
    \/ r \in lost
    \/ \E j \in Jobs : task[j] # None /\ task[j].pc \in {"wait", "revoke"}
                       /\ r \in RefOf(task[j])

\* A test says that /account/device "should not remove the push endpoint
\* expired flag on any other property update" than that of the endpoint.
FlagOutlivesOtherUpdates ==
  [][\A d \in DOMAIN reg \cap DOMAIN reg' : reg[d].gone /\ ~reg'[d].gone =>
       \E j \in Jobs : task[j] # task'[j] /\ At(j, "update") /\ task[j].url # None]_vars

SessionsAreTable == Table!Spec
=============================================================================
