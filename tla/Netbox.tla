------------------------------- MODULE Netbox -------------------------------
(* The coordinator's inventory sink: snapshots the agents collect are          *)
(* reconciled into NetBox by tasks that run beside the bridge, one per          *)
(* snapshot, each a series of HTTP calls that may fail, or take effect with     *)
(* their answer lost.  NetBox itself is external.                               *)
EXTENDS Naturals, Sequences, FiniteSets, SequencesExt

CONSTANTS
  Hosts, Devices,
  SerialOf,                        \* device -> the serial NetBox records for it
  Filter,                          \* serial -> devices NetBox's list filter returns
  Hardware,                        \* host -> what its two DMI files may be, [product, board]
  Networks,                        \* host -> what its NICs may look like, see collect
  V4, V6,                          \* addresses of the two families
  Curated,                         \* a device an operator has made rows for
  Slots,                           \* MAX_INFLIGHT_INVENTORY_UPSERTS permits
  MAX_TRANSIENT_RETRIES,
  Budgets, MaxId                   \* bounds: snapshots by host, in one of these ways; rows
                                   \* ever created

NoHost == "nohost"
NoSerial == "noserial"
None == 0                          \* NULL primary; row ids start at 1

ASSUME NetboxAssumption ==
  /\ \A s \in DOMAIN Filter :
       /\ Filter[s] \subseteq Devices /\ IsFiniteSet(Filter[s])
       /\ {d \in Devices : SerialOf[d] = s} \subseteq Filter[s]
  /\ \A h \in Hosts : \A hw \in Hardware[h] : \A f \in {hw.product, hw.board} :
       f.kind = "serial" => f.serial \in DOMAIN Filter
  /\ \A h \in Hosts : \A net \in Networks[h] :
       IsFiniteSet(DOMAIN net) /\ \A n \in DOMAIN net : IsFiniteSet(net[n])
  /\ NoHost \notin Hosts /\ Curated \in Devices
  /\ V4 \cap V6 = {}
  /\ {MAX_TRANSIENT_RETRIES, MaxId} \subseteq Nat

VARIABLES
  dev,        \* NetBox: device -> [claim, p4, p6]
  ifaces,     \* NetBox: interface rows [id, dev, name]
  addrs,      \* NetBox: IP rows [id, iface, cidr]
  lastId,     \* NetBox: the last row id handed out
  synced,     \* host -> content hash of its last successful snapshot, or {}
  task,       \* slot -> the upsert running in it
  reports,    \* host -> its snapshots that reached the bridge
  torn,       \* history: hosts with writes of an upsert that did not end Updated
  contested   \* history: devices that two hosts reconciled at the same time

vars == <<dev, ifaces, addrs, lastId, synced, task, reports, torn, contested>>

-----------------------------------------------------------------------------
(* The agent's collectors.                                                     *)

\* A DMI file is [kind, serial]: "missing", "denied", "blank", "placeholder",
\* "corrupt" (an interior control byte) or "serial", whose padding is trimmed.
normalize_serial(raw) == IF raw.kind = "serial" THEN raw.serial ELSE NoSerial

\* product_serial, else board_serial, else nothing.
read_dmi_serial(hw) ==
  LET product == normalize_serial(hw.product)
  IN IF product # NoSerial THEN product ELSE normalize_serial(hw.board)

\* An interface's addresses, in an order that does not depend on the OS's.
sorted_deduped(ips) == SetToSeq(ips)

\* net: interface name -> set of addresses.  Interfaces come in order of name.
collect_interfaces(net) ==
  [k \in 1..Cardinality(DOMAIN net) |->
     LET name == SetToSeq(DOMAIN net)[k]
     IN [name |-> name, ips |-> sorted_deduped(net[name])]]

\* The facts the sink uses.  The rest of a snapshot (host name, OS, kernel, processors,
\* memory, and the gaps of what could not be read) is neither hashed nor written.
collect(hw, net) == [serial |-> read_dmi_serial(hw), ifs |-> collect_interfaces(net)]

-----------------------------------------------------------------------------
(* Helpers of the sink.                                                        *)

\* The hash covers the serial, the host and the interfaces, and nothing else.
content_hash(serial, host, obs) == <<serial, host, obs.ifs>>

\* NetBox stores prefixes: a host address is /32 or /128.  Anything that is not
\* an address is left out.
to_cidr(ip) == IF ip \in V4 THEN <<<<ip, 32>>>> ELSE IF ip \in V6 THEN <<<<ip, 128>>>> ELSE <<>>

is_ipv4_cidr(cidr) == cidr[1] \in V4

\* A task before, after and between its attempts.
Idle == [st |-> "idle"]

\* There is nothing to match such a snapshot on.
SkippedNoSerial(obs) == obs.serial = NoSerial

Attempt(h, obs, n) ==
  [st |-> "match", host |-> h, obs |-> obs, attempt |-> n, dev |-> NoHost, cur |-> {}, old |-> {},
   i |-> 1, j |-> 0, ifid |-> None, kept |-> {}, p4 |-> None, p6 |-> None]

Reconciling(t) == task[t].st \in {"interfaces", "addresses", "ensure", "finalize", "delete"}
Holds(t) == task[t].st \notin {"idle", "wait"}
Running(t) == task[t].st # "idle"

already_synced(h, hash) == hash \in synced[h]

MutRetriedResumes(t) ==
  IF task[t].attempt < MAX_TRANSIENT_RETRIES
  THEN IF task[t].st = "ensure" THEN [task[t] EXCEPT !.attempt = @ + 1]
       ELSE Attempt(task[t].host, task[t].obs, task[t].attempt + 1)
  ELSE Idle

MutRetriedForever(t) == Attempt(task[t].host, task[t].obs, task[t].attempt)

\* A transient error starts over from the match, the last attempt's is returned.
Retried(t) ==
  IF task[t].attempt < MAX_TRANSIENT_RETRIES
  THEN Attempt(task[t].host, task[t].obs, task[t].attempt + 1) ELSE Idle

\* The answer to a call arrives, or is lost after the call took effect.  (A call that was
\* given up takes effect before the next one is made, or never.)
Answered(t, next) ==
  \E lost \in BOOLEAN : task' = [task EXCEPT ![t] = IF lost THEN Retried(t) ELSE next]

Become(t, next) == task' = [task EXCEPT ![t] = next]

\* A call that NetBox was asked to write with.
Wrote(t) == torn' = torn \cup {task[t].host}

\* The operator has given the device Curated an interface "mgmt" with a primary
\* address of a wider prefix; the other devices are bare.
Init ==
  /\ dev = [d \in Devices |->
              [claim |-> NoHost, p4 |-> IF d = Curated THEN 2 ELSE None, p6 |-> None]]
  /\ ifaces = {[id |-> 1, dev |-> Curated, name |-> "mgmt"]}
  /\ addrs = {[id |-> 2, iface |-> 1, cidr |-> <<CHOOSE v \in V4 : TRUE, 24>>]}
  /\ lastId = 2
  /\ synced = [h \in Hosts |-> {}]
  /\ task = [t \in Slots |-> Idle]
  /\ reports = [h \in Hosts |-> 0]
  /\ torn = {} /\ contested = {}

-----------------------------------------------------------------------------
(* The bridge.                                                                 *)

\* decode_inventory opened a snapshot of host h.  If a permit is free a task is
\* spawned, which ends at once (SkippedNoSerial) or waits for the host's lock;
\* otherwise the snapshot is shed.
Arrive(h) ==
  /\ \E t \in Slots, hw \in Hardware[h], net \in Networks[h] :
       /\ ~Running(t) /\ \A u \in Slots : u < t => Running(u)
       /\ ~SkippedNoSerial(collect(hw, net))
       /\ Become(t, [st |-> "wait", host |-> h, obs |-> collect(hw, net)])
  /\ reports' = [reports EXCEPT ![h] = @ + 1]
  /\ \E b \in Budgets : \A x \in Hosts : reports'[x] <= b[x]
  /\ UNCHANGED <<dev, ifaces, addrs, lastId, synced, torn, contested>>

\* The coordinator restarts: tasks and the dedup cache are gone.
Restart ==
  /\ \E t \in Slots : Running(t)
  /\ task' = [t \in Slots |-> Idle]
  /\ synced' = [h \in Hosts |-> {}]
  /\ UNCHANGED <<dev, ifaces, addrs, lastId, reports, torn, contested>>

-----------------------------------------------------------------------------
(* upsert.                                                                     *)

LockFree(t) == \A u \in Slots \ {t} : Holds(u) => task[u].host # task[t].host

Hash(t) == content_hash(task[t].obs.serial, task[t].host, task[t].obs)

\* With the host's lock: Unchanged, or the first attempt.
Dedup(t) ==
  /\ task[t].st = "wait" /\ LockFree(t)
  /\ Become(t, IF already_synced(task[t].host, Hash(t)) THEN Idle
               ELSE Attempt(task[t].host, task[t].obs, 0))
  /\ UNCHANGED <<dev, ifaces, addrs, lastId, synced, reports, torn, contested>>

\* The devices with the serial; a lone loose match of the filter is no match.
match_by_serial(serial) ==
  LET found == Filter[serial]
  IN IF Cardinality(found) = 1 /\ \A d \in found : SerialOf[d] # serial THEN {} ELSE found

MutHostCollisionNever(h, d) == FALSE

\* A device that another host has claimed is left alone.
HostCollision(h, d) == dev[d].claim \notin {NoHost, h}

\* What the upsert goes on with: a lone match that no other host has claimed.
Mine(t) ==
  LET found == match_by_serial(task[t].obs.serial)
  IN {d \in found : Cardinality(found) = 1 /\ ~HostCollision(task[t].host, d)}

\* The device, if another host's upsert is at work on it.
Raced(t) ==
  {d \in Mine(t) : \E u \in Slots \ {t} :
                     Reconciling(u) /\ task[u].dev = d /\ task[u].host # task[t].host}

\* Unmatched, AmbiguousMatch and HostCollision end the upsert without a write.
Match(t) ==
  /\ task[t].st = "match"
  /\ IF Mine(t) = {} THEN Become(t, Idle)
     ELSE \E d \in Mine(t) : Become(t, [task[t] EXCEPT !.st = "interfaces", !.dev = d])
  /\ contested' = contested \cup Raced(t)
  /\ UNCHANGED <<dev, ifaces, addrs, lastId, synced, reports, torn>>

-----------------------------------------------------------------------------
(* reconcile.                                                                  *)

OnDevice(d) == {r \in ifaces : r.dev = d}
AddrsOf(d) == {a \in addrs : \E r \in OnDevice(d) : r.id = a.iface}
RowIds(rows) == {r.id : r \in rows}

\* read_interfaces is two lists: the interfaces, then the addresses.  Addresses of
\* an interface that is not in the first list are ignored.  (A device has no more rows
\* than device_filter's page of 1000.)
ReadInterfaces(t) ==
  /\ task[t].st = "interfaces"
  /\ Become(t, [task[t] EXCEPT !.st = "addresses", !.cur = OnDevice(task[t].dev)])
  /\ UNCHANGED <<dev, ifaces, addrs, lastId, synced, reports, torn, contested>>

ReadAddresses(t) ==
  /\ task[t].st = "addresses"
  /\ Become(t, [task[t] EXCEPT
       !.st = IF task[t].obs.ifs = <<>> THEN "finalize" ELSE "ensure",
       !.old = {a \in AddrsOf(task[t].dev) : a.iface \in RowIds(task[t].cur)}])
  /\ UNCHANGED <<dev, ifaces, addrs, lastId, synced, reports, torn, contested>>

Observed(t) == task[t].obs.ifs[task[t].i]
Wanted(t) == to_cidr(Observed(t).ips[task[t].j])

\* Where the loop goes after address j of interface i (j = 0: the interface).
Onwards(t, x) ==
  IF x.j < Len(Observed(t).ips) THEN [x EXCEPT !.j = @ + 1]
  ELSE IF x.i < Len(task[t].obs.ifs) THEN [x EXCEPT !.i = @ + 1, !.j = 0]
  ELSE [x EXCEPT !.st = "finalize"]

\* An observed interface that NetBox has is reused.
KeepInterface(t) ==
  /\ task[t].st = "ensure" /\ task[t].j = 0
  /\ \E r \in task[t].cur :
       /\ r.name = Observed(t).name
       /\ Become(t, Onwards(t, [task[t] EXCEPT !.ifid = r.id]))
  /\ UNCHANGED <<dev, ifaces, addrs, lastId, synced, reports, torn, contested>>

\* NetBox refuses a second interface of one name on a device: Invalid.
create_interface(t) ==
  /\ task[t].st = "ensure" /\ task[t].j = 0
  /\ \A r \in task[t].cur : r.name # Observed(t).name
  /\ IF \E r \in OnDevice(task[t].dev) : r.name = Observed(t).name
     THEN Become(t, Idle) /\ UNCHANGED <<ifaces, lastId, torn>>
     ELSE /\ lastId < MaxId
          /\ lastId' = lastId + 1
          /\ ifaces' = ifaces \cup {[id |-> lastId', dev |-> task[t].dev, name |-> Observed(t).name]}
          /\ Answered(t, Onwards(t, [task[t] EXCEPT !.ifid = lastId']))
          /\ Wrote(t)
  /\ UNCHANGED <<dev, addrs, synced, reports, contested>>

\* existing_ips: a row with the prefix; of several, the one NetBox listed first.
Existing(t, cidr) == {a \in task[t].old : a.cidr = cidr}

\* The first IPv4 and the first IPv6 row become the primaries.
WithIp(t, id, cidr) ==
  LET x == [task[t] EXCEPT !.kept = @ \cup {id}]
  IN Onwards(t, IF is_ipv4_cidr(cidr) THEN [x EXCEPT !.p4 = IF @ = None THEN id ELSE @]
                ELSE [x EXCEPT !.p6 = IF @ = None THEN id ELSE @])

AtIp(t) == task[t].st = "ensure" /\ task[t].j > 0 /\ Wanted(t) # <<>>

\* What is not an address is passed over.
SkipIp(t) ==
  /\ task[t].st = "ensure" /\ task[t].j > 0 /\ Wanted(t) = <<>>
  /\ Become(t, Onwards(t, task[t]))
  /\ UNCHANGED <<dev, ifaces, addrs, lastId, synced, reports, torn, contested>>

MutKeepIpAnywhere(t) ==
  /\ AtIp(t)
  /\ \E a \in Existing(t, Wanted(t)[1]) : Become(t, WithIp(t, a.id, a.cidr))
  /\ UNCHANGED <<dev, ifaces, addrs, lastId, synced, reports, torn, contested>>

KeepIp(t) ==
  /\ AtIp(t)
  /\ \E a \in Existing(t, Wanted(t)[1]) :
       a.iface = task[t].ifid /\ Become(t, WithIp(t, a.id, a.cidr))
  /\ UNCHANGED <<dev, ifaces, addrs, lastId, synced, reports, torn, contested>>

\* NetBox answers 4xx when the row or the interface is gone: Invalid.
move_ip(t) ==
  /\ AtIp(t)
  /\ \E a \in Existing(t, Wanted(t)[1]) :
       /\ a.iface # task[t].ifid
       /\ IF a.id \in RowIds(addrs) /\ task[t].ifid \in RowIds(ifaces)
          THEN /\ addrs' = {b \in addrs : b.id # a.id} \cup {[a EXCEPT !.iface = task[t].ifid]}
               /\ Answered(t, WithIp(t, a.id, a.cidr))
               /\ Wrote(t)
          ELSE Become(t, Idle) /\ UNCHANGED <<addrs, torn>>
  /\ UNCHANGED <<dev, ifaces, lastId, synced, reports, contested>>

create_ip(t) ==
  LET cidr == Wanted(t)[1]
  IN /\ AtIp(t)
     /\ Existing(t, cidr) = {}
     /\ IF task[t].ifid \in RowIds(ifaces)
        THEN /\ lastId < MaxId
             /\ lastId' = lastId + 1
             /\ addrs' = addrs \cup {[id |-> lastId', iface |-> task[t].ifid, cidr |-> cidr]}
             /\ Answered(t, WithIp(t, lastId', cidr))
             /\ Wrote(t)
        ELSE Become(t, Idle) /\ UNCHANGED <<addrs, lastId, torn>>
     /\ UNCHANGED <<dev, ifaces, synced, reports, contested>>

MutFinalizedKeeps(t) ==
  [claim |-> task[t].host,
   p4 |-> IF task[t].p4 = None THEN dev[task[t].dev].p4 ELSE task[t].p4,
   p6 |-> IF task[t].p6 = None THEN dev[task[t].dev].p6 ELSE task[t].p6]

\* Both primaries, NULL if there is none, and the claim in one PATCH.
Finalized(t) == [claim |-> task[t].host, p4 |-> task[t].p4, p6 |-> task[t].p6]

finalize_device(t) ==
  /\ task[t].st = "finalize"
  /\ IF {task[t].p4, task[t].p6} \subseteq RowIds(addrs) \cup {None}
     THEN /\ dev' = [dev EXCEPT ![task[t].dev] = Finalized(t)]
          /\ Answered(t, [task[t] EXCEPT !.st = "delete"])
          /\ Wrote(t)
     ELSE Become(t, Idle) /\ UNCHANGED <<dev, torn>>
  /\ UNCHANGED <<ifaces, addrs, lastId, synced, reports, contested>>

Primaries == {dev[d].p4 : d \in Devices} \cup {dev[d].p6 : d \in Devices}

StaleIps(t) == {a \in task[t].old : a.id \notin task[t].kept}
StaleInterfaces(t) ==
  {r \in task[t].cur : \A k \in DOMAIN task[t].obs.ifs : task[t].obs.ifs[k].name # r.name}

\* NetBox refuses to delete a primary and a row that is gone: Invalid.
delete_ip(t) ==
  /\ task[t].st = "delete"
  /\ \E a \in StaleIps(t) :
       IF a.id \in RowIds(addrs) \ Primaries
       THEN /\ addrs' = {b \in addrs : b.id # a.id}
            /\ Answered(t, [task[t] EXCEPT !.old = @ \ {a}])
            /\ Wrote(t)
       ELSE Become(t, Idle) /\ UNCHANGED <<addrs, torn>>
  /\ UNCHANGED <<dev, ifaces, lastId, synced, reports, contested>>

\* An interface takes the addresses it still has with it.
delete_interface(t) ==
  /\ task[t].st = "delete" /\ StaleIps(t) = {}
  /\ \E r \in StaleInterfaces(t) :
       LET under == {a \in addrs : a.iface = r.id}
       IN IF r.id \in RowIds(ifaces) /\ RowIds(under) \cap Primaries = {}
          THEN /\ ifaces' = {x \in ifaces : x.id # r.id}
               /\ addrs' = addrs \ under
               /\ Answered(t, [task[t] EXCEPT !.cur = @ \ {r}])
               /\ Wrote(t)
          ELSE Become(t, Idle) /\ UNCHANGED <<ifaces, addrs, torn>>
  /\ UNCHANGED <<dev, lastId, synced, reports, contested>>

\* Updated: the snapshot's hash is remembered and the lock and permit are freed.
mark_synced(t) ==
  /\ task[t].st = "delete" /\ StaleIps(t) = {} /\ StaleInterfaces(t) = {}
  /\ synced' = [synced EXCEPT ![task[t].host] = {Hash(t)}]
  /\ Become(t, Idle)
  /\ torn' = torn \ {task[t].host}
  /\ UNCHANGED <<dev, ifaces, addrs, lastId, reports, contested>>

\* Stages in which the task waits for an answer of NetBox.
Calling(t) == task[t].st = "match" \/ Reconciling(t)

\* The call never reached NetBox, or got a 429 or 5xx: Backend.
CallFails(t) ==
  /\ Calling(t)
  /\ Become(t, Retried(t))
  /\ UNCHANGED <<dev, ifaces, addrs, lastId, synced, reports, torn, contested>>

\* Any other 4xx (a token, a missing custom field): Invalid, at once.
CallRejected(t) ==
  /\ Calling(t)
  /\ Become(t, Idle)
  /\ UNCHANGED <<dev, ifaces, addrs, lastId, synced, reports, torn, contested>>

Call(t) ==
  \/ Match(t) \/ ReadInterfaces(t) \/ ReadAddresses(t)
  \/ create_interface(t) \/ move_ip(t) \/ create_ip(t)
  \/ finalize_device(t) \/ delete_ip(t) \/ delete_interface(t)
  \/ CallFails(t) \/ CallRejected(t)

Step(t) ==
  \/ Dedup(t) \/ Call(t) \/ KeepInterface(t) \/ KeepIp(t) \/ SkipIp(t) \/ mark_synced(t)

Next ==
  \/ \E h \in Hosts : Arrive(h)
  \/ \E t \in Slots : Step(t)
  \/ Restart

\* The runtime runs tasks, the host's mutex is a queue, and the HTTP client gives
\* up on a call that is not answered.
Spec == Init /\ [][Next]_vars /\ \A t \in Slots : WF_vars(Step(t))

-----------------------------------------------------------------------------
(* Properties.                                                                 *)

\* The serials that really are a host's own.
Genuine(h) ==
  {f.serial : f \in {g \in UNION {{hw.product, hw.board} : hw \in Hardware[h]} : g.kind = "serial"}}

Content(d) == <<dev[d], OnDevice(d), AddrsOf(d)>>

\* Whatever changes on a device is the work of an upsert (upsert,
\* match_and_reconcile) of a host whose own hardware serial is the device's, with
\* no other device sharing it, and which holds the claim or found none; only
\* hosts that raced for an unclaimed device overwrite each other (the race the
\* module's documentation admits).
OnlyItsOwnDevice ==
  [][\A d \in Devices : Content(d)' # Content(d) =>
       \E t \in Slots :
         /\ Reconciling(t) /\ task[t].dev = d
         /\ SerialOf[d] \in Genuine(task[t].host)
         /\ \A e \in Devices \ {d} : SerialOf[e] # SerialOf[d]
         /\ dev[d].claim \in {NoHost, task[t].host} \/ d \in contested]_vars

\* Retries after a lost answer (reconcile, upsert's loop) never leave a second row
\* for a prefix, unless the host itself observed the address on two interfaces or
\* two hosts raced.
NoDuplicateRows ==
  \A d \in Devices \ contested : \A a, b \in AddrsOf(d) :
    a # b /\ a.cidr = b.cidr =>
      \E net \in UNION {Networks[h] : h \in Hosts} : \E n, m \in DOMAIN net : n # m /\ a.cidr[1] \in net[n] \cap net[m]

\* A primary IP never dangles, and no reconcile is about to delete the primary it
\* has just left in place (the order finalize, then delete, of reconcile).
PrimaryStays ==
  \A d \in Devices \ contested :
    /\ {dev[d].p4, dev[d].p6} \ {None} \subseteq RowIds(AddrsOf(d))
    /\ \A t \in Slots : task[t].st = "delete" /\ task[t].dev = d =>
         RowIds(StaleIps(t)) \cap {dev[d].p4, dev[d].p6} = {}

\* The interfaces, the prefixes, and the prefixes by interface that a snapshot asks for.
NamesIn(ifs) == {ifs[k].name : k \in DOMAIN ifs}
PrefixesIn(ifs) ==
  UNION {ToSet(to_cidr(ip)) : ip \in UNION {ToSet(ifs[k].ips) : k \in DOMAIN ifs}}
PlacesIn(ifs) ==
  {p \in NamesIn(ifs) \X PrefixesIn(ifs) :
     \E k \in DOMAIN ifs : \E l \in DOMAIN ifs[k].ips :
       ifs[k].name = p[1] /\ to_cidr(ifs[k].ips[l]) = <<p[2]>>}

\* The prefixes that it asks for on two interfaces.
Shared(ifs) == {c \in PrefixesIn(ifs) : \E p, q \in PlacesIn(ifs) : p # q /\ p[2] = c /\ q[2] = c}

\* The prefixes by interface that NetBox has.
PlacesOf(d) ==
  {<<s.iface.name, s.addr.cidr>> :
     s \in {u \in [iface : OnDevice(d), addr : AddrsOf(d)] : u.addr.iface = u.iface.id}}

\* The device of a snapshot shows what the snapshot says: whose it is, which interfaces
\* it has, the prefixes each under an interface that has it, under every one unless
\* there are several, and a primary of each family there is.
Shows(h, obs) ==
  \A d \in Devices : SerialOf[d] = obs.serial =>
    /\ dev[d].claim = h
    /\ {r.name : r \in OnDevice(d)} = NamesIn(obs.ifs)
    /\ {a.cidr : a \in AddrsOf(d)} = PrefixesIn(obs.ifs)
    /\ PlacesOf(d) \subseteq PlacesIn(obs.ifs)
    /\ \A p \in PlacesIn(obs.ifs) \ PlacesOf(d) : p[2] \in Shared(obs.ifs)
    /\ dev[d].p4 = None <=> \A c \in PrefixesIn(obs.ifs) : ~is_ipv4_cidr(c)
    /\ dev[d].p6 = None <=> \A c \in PrefixesIn(obs.ifs) : is_ipv4_cidr(c)

\* And it shows every address under every interface that has it.
Reflects(h, obs) ==
  /\ Shows(h, obs)
  /\ \A d \in Devices : SerialOf[d] = obs.serial => PlacesOf(d) = PlacesIn(obs.ifs)

\* The snapshot of t is about to be dropped as Unchanged.
SaysUnchanged(t) ==
  task[t].st = "wait" /\ LockFree(t) /\ already_synced(task[t].host, Hash(t))

\* Two hosts have raced for the device of t's snapshot.
Disputed(t) == \E d \in contested : SerialOf[d] = task[t].obs.serial

\* A snapshot that upsert is about to drop as Unchanged is what the device shows,
\* unless a later upsert of the host wrote and then failed, or two hosts raced.  An
\* address that the host has on two interfaces is shown under one of them at least:
\* existing_ips is not updated by a move, so its row may be under no other, although
\* UpsertOutcome::Unchanged says that the record reflects the snapshot.
SyncedIsCurrent ==
  \A t \in Slots : SaysUnchanged(t) =>
    Shows(task[t].host, task[t].obs) \/ task[t].host \in torn \/ Disputed(t)

\* UpsertOutcome::Unchanged (ports.rs) after a later upsert failed: the record already
\* reflected this snapshot.
UnchangedMeansCurrent ==
  \A t \in Slots : SaysUnchanged(t) => Reflects(task[t].host, task[t].obs) \/ Disputed(t)

\* However NetBox fails, an upsert ends and its permit (inventory_slots) and its
\* host's lock are free again.
PermitsComeBack == \A t \in Slots : Running(t) ~> ~Running(t)

=============================================================================
