---------------------------- MODULE AdapterCache ----------------------------
(***************************************************************************)
(* The order-executor's adapter cache (registry.py) for one account, with  *)
(* what makes a cached adapter out of date: the dashboard rotates the      *)
(* credentials and asks for an eviction (routes/accounts.ts), or switches  *)
(* the account between net and hedge mode (main.py, adapters/blofin.py),   *)
(* or deactivates it.                                                      *)
(*                                                                         *)
(* get() looks in the cache, then awaits the row and builds an adapter: a  *)
(* caller, a rotation and a mode switch interleave at those awaits.        *)
(***************************************************************************)
EXTENDS Naturals, FiniteSets, SequencesExt

CONSTANTS
  NULL,
  Callers,       \* requests that go through the registry
  MaxCalls,      \* bound: calls begun
  MaxRotations,  \* bound: credential rotations
  MaxSwitches,   \* bound: mode switches
  MaxFaults      \* bound: failing calls and executor restarts

VARIABLES
  row,       \* exchange_accounts: credentials, position_mode, is_active
  exchange,  \* the mode the exchange has the account in
  adapters,  \* every adapter built since the executor started
  cached,    \* the registry's entry, an index of adapters
  call,      \* the requests under way
  rotation,  \* the dashboard's credential update
  switch,    \* the mode switch request
  begun, rotations, switches, faults,
  behind     \* why the cache may be behind the row, as far as the code goes

vars == <<row, exchange, adapters, cached, call, rotation, switch,
          begun, rotations, switches, faults, behind>>
counts == <<begun, rotations, switches, faults>>

Modes == {"net", "hedge"}
Reasons == {"raced", "unevicted", "unwritten", "unread"}
NoCall == [step |-> "idle", record |-> NULL, adapter |-> NULL]
Other(mode) == CHOOSE m \in Modes : m # mode
Adapter(record) == [cred |-> record.cred, mode |-> record.mode, open |-> TRUE]
Fault == faults < MaxFaults /\ faults' = faults + 1

\* A record read and not yet turned into an adapter.
Loading == {c \in Callers : call[c].step = "loading"}

Init ==
  /\ row = [cred |-> 0, mode |-> "net", active |-> TRUE]
  /\ exchange = "net"
  /\ adapters = <<>> /\ cached = NULL
  /\ call = [c \in Callers |-> NoCall]
  /\ rotation = "idle"
  /\ switch = [step |-> "idle", to |-> "net", adapter |-> NULL]
  /\ begun = 0 /\ rotations = 0 /\ switches = 0 /\ faults = 0
  /\ behind = {}

(***************************************************************************)
(* AccountRegistry.get                                                     *)
(***************************************************************************)
\* A hit returns at once; a miss runs the query.
Get(c) ==
  /\ call[c].step = "idle" /\ begun < MaxCalls
  /\ begun' = begun + 1
  /\ IF cached # NULL
     THEN call' = [call EXCEPT ![c] = [NoCall EXCEPT !.step = "using", !.adapter = cached]]
     ELSE /\ row.active
          /\ call' = [call EXCEPT ![c] = [NoCall EXCEPT !.step = "loading", !.record = row]]
  /\ UNCHANGED <<row, exchange, adapters, cached, rotation, switch, rotations, switches, faults, behind>>

\* The account is unknown or inactive: the request fails, nothing is cached.
GetRefused ==
  /\ cached = NULL /\ ~row.active /\ begun < MaxCalls
  /\ begun' = begun + 1
  /\ UNCHANGED <<row, exchange, adapters, cached, call, rotation, switch, rotations, switches, faults, behind>>

\* The record becomes an adapter, and the adapter the cache entry: an entry another caller
\* made meanwhile is overwritten, and never closed.
Load(c) ==
  /\ call[c].step = "loading"
  /\ adapters' = Append(adapters, Adapter(call[c].record))
  /\ cached' = Len(adapters')
  /\ call' = [call EXCEPT ![c] = [NoCall EXCEPT !.step = "using", !.adapter = Len(adapters')]]
  /\ UNCHANGED <<row, exchange, rotation, switch, counts, behind>>

Finish(c) ==
  /\ call[c].step = "using"
  /\ call' = [call EXCEPT ![c] = NoCall]
  /\ UNCHANGED <<row, exchange, adapters, cached, rotation, switch, counts, behind>>

(***************************************************************************)
(* Credential rotation: store the new secret, then evict the adapter.      *)
(***************************************************************************)
\* Whoever read the row before it became r caches what it was.
Raced(r) == IF \E c \in Loading : call[c].record.cred # r.cred \/ call[c].record.mode # r.mode
            THEN {"raced"} ELSE {}

Store ==
  /\ rotation = "idle" /\ rotations < MaxRotations
  /\ rotations' = rotations + 1
  /\ row' = [row EXCEPT !.cred = @ + 1]
  /\ rotation' = "stored"
  /\ UNCHANGED <<exchange, adapters, cached, call, switch, begun, switches, faults, behind>>

Keep == cached' = cached /\ adapters' = adapters
Evict ==
  /\ cached' = NULL
  /\ adapters' = IF cached = NULL THEN adapters ELSE [adapters EXCEPT ![cached].open = FALSE]

Invalidate ==
  /\ rotation = "stored"
  /\ Evict
  /\ rotation' = "idle"
  /\ behind' = (behind \ {"raced", "unevicted"}) \cup Raced(row)
  /\ UNCHANGED <<row, exchange, call, switch, counts>>

\* Eviction is best effort: the dashboard reports success when it fails.
InvalidateLost ==
  /\ rotation = "stored"
  /\ Fault
  /\ rotation' = "idle"
  /\ behind' = behind \cup {"unevicted"}
  /\ UNCHANGED <<row, exchange, adapters, cached, call, switch, begun, rotations, switches>>

\* Deactivating an account does not touch the executor.
Deactivate ==
  /\ row.active /\ Fault
  /\ row' = [row EXCEPT !.active = FALSE]
  /\ UNCHANGED <<exchange, adapters, cached, call, rotation, switch, begun, rotations, switches, behind>>

(***************************************************************************)
(* Mode switch: the exchange, the read-back, the adapter, then the row.    *)
(***************************************************************************)
SwitchBegin ==
  /\ switch.step = "idle" /\ switches < MaxSwitches /\ cached # NULL
  /\ switches' = switches + 1
  /\ switch' = [step |-> "ask", to |-> Other(row.mode), adapter |-> cached]
  /\ UNCHANGED <<row, exchange, adapters, cached, call, rotation, begun, rotations, faults, behind>>

SwitchEnds == switch' = [switch EXCEPT !.step = "idle"]

\* A closed client raises; the exchange refuses while anything is open.
SwitchRefused ==
  /\ switch.step = "ask"
  /\ SwitchEnds
  /\ UNCHANGED <<row, exchange, adapters, cached, call, rotation, counts, behind>>

SwitchAccepted ==
  /\ switch.step = "ask" /\ adapters[switch.adapter].open
  /\ exchange' = switch.to
  /\ switch' = [switch EXCEPT !.step = "readback"]
  /\ UNCHANGED <<row, adapters, cached, call, rotation, counts, behind>>

Confirm ==
  /\ switch.step = "readback" /\ adapters[switch.adapter].open
  /\ adapters' = [adapters EXCEPT ![switch.adapter].mode = switch.to]
  /\ switch' = [switch EXCEPT !.step = "write"]
  /\ UNCHANGED <<row, exchange, cached, call, rotation, counts, behind>>

\* No read-back, no change here: the exchange has switched all the same.
ConfirmUnread ==
  /\ switch.step = "readback"
  /\ adapters[switch.adapter].open => Fault
  /\ ~adapters[switch.adapter].open => UNCHANGED faults
  /\ SwitchEnds
  /\ behind' = behind \cup {"unread"}
  /\ UNCHANGED <<row, exchange, adapters, cached, call, rotation, begun, rotations, switches>>

\* An adapter loaded while the switch was under way has the old mode.
WriteMode ==
  /\ switch.step = "write"
  /\ row' = [row EXCEPT !.mode = switch.to]
  /\ SwitchEnds
  /\ behind' = (behind \ {"unread", "unwritten"}) \cup Raced(row')
               \cup (IF cached \in {switch.adapter, NULL} THEN {} ELSE {"raced"})
  /\ UNCHANGED <<exchange, adapters, cached, call, rotation, counts>>

\* The answer says so loudly; the next load brings the old mode back.
WriteModeFails ==
  /\ switch.step = "write"
  /\ Fault
  /\ SwitchEnds
  /\ behind' = behind \cup {"unwritten"}
  /\ UNCHANGED <<row, exchange, adapters, cached, call, rotation, begun, rotations, switches>>

Restart ==
  /\ adapters # <<>> /\ Fault
  /\ adapters' = <<>> /\ cached' = NULL
  /\ call' = [c \in Callers |-> NoCall]
  /\ switch' = [switch EXCEPT !.step = "idle"]
  /\ behind' = (behind \ {"raced", "unevicted"})
               \cup (IF switch.step \in {"readback", "write"} THEN {"unwritten"} ELSE {})
  /\ UNCHANGED <<row, exchange, rotation, begun, rotations, switches>>

Next ==
  \/ \E c \in Callers : Get(c) \/ Load(c) \/ Finish(c)
  \/ GetRefused \/ Store \/ Invalidate \/ InvalidateLost \/ Deactivate
  \/ SwitchBegin \/ SwitchRefused \/ SwitchAccepted \/ Confirm \/ ConfirmUnread
  \/ WriteMode \/ WriteModeFails \/ Restart

Spec == Init /\ [][Next]_vars

TypeOK ==
  /\ row \in [cred : 0..MaxRotations, mode : Modes, active : BOOLEAN]
  /\ exchange \in Modes
  /\ ToSet(adapters) \subseteq [cred : 0..MaxRotations, mode : Modes, open : BOOLEAN]
  /\ cached \in DOMAIN adapters \cup {NULL}
  /\ \A c \in Callers : call[c].step \in {"idle", "loading", "using"}
  /\ rotation \in {"idle", "stored"}
  /\ switch.step \in {"idle", "ask", "readback", "write"}
  /\ behind \subseteq Reasons

----------------------------------------------------------------------------
(***************************************************************************)
(* "Call invalidate() after credential rotation" (registry.py): between    *)
(* rotations and mode switches the cached adapter has the row's            *)
(* credentials, an open client, and the mode the exchange is in -- unless  *)
(* a load read the row before it changed, the eviction or the mode's write *)
(* was lost, or the exchange's answer to a switch could not be read.       *)
(***************************************************************************)
AdapterIsCurrent ==
  cached # NULL =>
    LET a == adapters[cached]
    IN  /\ a.open
        /\ rotation = "idle" /\ behind \cap {"raced", "unevicted"} = {} => a.cred = row.cred
        /\ switch.step = "idle" /\ behind \cap {"raced", "unread", "unwritten"} = {} =>
             a.mode = exchange

----------------------------------------------------------------------------
(***************************************************************************)
(* Why it holds: what a load has read is as new as the cached adapter, and *)
(* a switch that was accepted is known to the adapter it goes through.     *)
(***************************************************************************)
Rows == [cred : Nat, mode : Modes, active : BOOLEAN]
CacheTypes ==
  /\ row \in Rows /\ exchange \in Modes
  /\ adapters \in Seq([cred : Nat, mode : Modes, open : BOOLEAN])
  /\ cached \in DOMAIN adapters \cup {NULL}
  /\ call \in [Callers -> [step : {"idle", "loading", "using"}, record : Rows \cup {NULL},
                           adapter : Nat \cup {NULL}]]
  /\ \A c \in Loading : call[c].record \in Rows
  /\ rotation \in {"idle", "stored"}
  /\ switch \in [step : {"idle", "ask", "readback", "write"}, to : Modes, adapter : Nat \cup {NULL}]
  /\ switch.step # "idle" => switch.adapter \in DOMAIN adapters

CredsAreCurrent ==
  rotation = "idle" /\ behind \cap {"raced", "unevicted"} = {} =>
    /\ cached # NULL => adapters[cached].cred = row.cred
    /\ \A c \in Loading : call[c].record.cred = row.cred

ModeIsCurrent ==
  switch.step \in {"idle", "ask"} /\ behind \cap {"unread", "unwritten"} = {} =>
    /\ row.mode = exchange
    /\ "raced" \notin behind =>
         /\ cached # NULL => adapters[cached].mode = exchange
         /\ \A c \in Loading : call[c].record.mode = exchange

SwitchFits ==
  /\ switch.step \in {"readback", "write"} => exchange = switch.to
  /\ switch.step = "write" => adapters[switch.adapter].mode = switch.to

CacheInv ==
  /\ CacheTypes /\ CredsAreCurrent /\ ModeIsCurrent /\ SwitchFits
  /\ cached # NULL => adapters[cached].open
============================================================================
