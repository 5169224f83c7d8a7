------------------------------- MODULE Discovery -------------------------------
(***************************************************************************)
(* The devices of the Bluetooth page (pages/network/bluetooth.js): the     *)
(* search that is held while the page is up (the scan lease of             *)
(* crates/t6-paneld/src/api/bluetooth.rs), the switch, and what the sheet  *)
(* of a paired device does.  A pairing is here only what it does to them.  *)
(***************************************************************************)
EXTENDS Integers, FiniteSets

CONSTANTS
  Devs,          \* devices in reach
  MaxVisits,     \* bound: times the page is shown
  MaxPresses,    \* bound: what the person at the panel does
  MaxTrouble,    \* bound: requests that fail
  None

DiscoveryAssumption == {MaxVisits, MaxPresses, MaxTrouble} \subseteq Nat

VARIABLES
  powered, bonds,       \* the adapter; each device: "no", "paired", "connected"
  until, stopping,      \* SCAN_UNTIL is set; the watchdog's StopDiscovery is to come
  searching,            \* BlueZ discovers
  page, visits,         \* the page is shown
  leases,               \* posts under way: "hold", "drop"
  managed, sure, ops,   \* the sheet of a device: None or [dev, op]; posts under way [dev, op]
  known, req,           \* the Bluetooth resource and its request: None or [read, says]
  presses, trouble

scan  == <<until, stopping, searching>>
sheet == <<managed, sure, ops>>
data  == <<known, req>>
vars  == <<powered, bonds, scan, page, visits, leases, sheet, data, presses, trouble>>

now == [powered |-> powered, bonds |-> bonds]

Init ==
  /\ powered \in BOOLEAN /\ bonds \in [Devs -> {"no", "paired"}]
  /\ until = FALSE /\ stopping = FALSE /\ searching = FALSE
  /\ page = FALSE /\ visits = 0 /\ leases = {}
  /\ managed = None /\ sure = FALSE /\ ops = {}
  /\ known = now /\ req = None /\ presses = 0 /\ trouble = 0

Press == page /\ managed = None /\ presses < MaxPresses /\ presses' = presses + 1
Fails == trouble < MaxTrouble /\ trouble' = trouble + 1
refresh == req' = IF req = None THEN [read |-> FALSE, says |-> None] ELSE req

-----------------------------------------------------------------------------
(* The resource, and the page.                                              *)

Poll ==
  /\ page /\ req = None /\ known # now /\ refresh
  /\ UNCHANGED <<powered, bonds, scan, page, visits, leases, sheet, known, presses, trouble>>

Read ==
  /\ req # None /\ ~req.read /\ req' = [read |-> TRUE, says |-> now]
  /\ UNCHANGED <<powered, bonds, scan, page, visits, leases, sheet, known, presses, trouble>>

Answered ==
  /\ req # None /\ req' = None
  /\ \/ req.read /\ known' = req.says /\ UNCHANGED trouble
     \/ Fails /\ UNCHANGED known
  /\ UNCHANGED <<powered, bonds, scan, page, visits, leases, sheet, presses>>

show ==
  /\ ~page /\ visits < MaxVisits /\ visits' = visits + 1 /\ page' = TRUE
  /\ refresh /\ leases' = leases \cup {"hold"}
  /\ UNCHANGED <<powered, bonds, scan, sheet, known, presses, trouble>>

hide ==
  /\ page /\ page' = FALSE /\ leases' = leases \cup {"drop"}
  /\ managed' = None /\ sure' = FALSE
  /\ UNCHANGED <<powered, bonds, scan, visits, ops, data, presses, trouble>>

-----------------------------------------------------------------------------
(* The search: a lease of a minute, renewed every 50 seconds, which changes *)
(* something only where it was taken away.                                  *)

Rest == UNCHANGED <<powered, bonds, page, visits, sheet, data, presses>>

renew ==
  /\ page /\ leases = {} /\ ~until /\ leases' = {"hold"}
  /\ UNCHANGED scan /\ UNCHANGED trouble /\ Rest

\* in the order they arrive in; an adapter that is off does not start
post_scan ==
  \E l \in leases :
    /\ leases' = leases \ {l} /\ UNCHANGED <<stopping, trouble>>
    /\ IF l = "drop" THEN until' = FALSE /\ searching' = (searching /\ ~until)
       ELSE until' = (until \/ powered) /\ searching' = (searching \/ (~until /\ powered))
    /\ Rest

\* a mistake: the lease is forgotten, and BlueZ not told
forgets ==
  /\ until /\ ((~page /\ UNCHANGED trouble) \/ (page /\ Fails))
  /\ until' = FALSE /\ UNCHANGED <<stopping, searching, leases>> /\ Rest

\* the minute is over: the page is gone, or its renewals were lost
scan_watchdog ==
  /\ until /\ ((~page /\ UNCHANGED trouble) \/ (page /\ Fails))
  /\ until' = FALSE /\ stopping' = TRUE /\ UNCHANGED <<searching, leases>> /\ Rest

StopDiscovery ==
  /\ stopping /\ stopping' = FALSE /\ searching' = FALSE
  /\ UNCHANGED <<until, leases, trouble>> /\ Rest

-----------------------------------------------------------------------------
(* The switch, a pairing, and the sheet of a device.                        *)

\* off, BlueZ ends what goes on; on, the page searches again
setPower ==
  /\ Press /\ powered' = ~known.powered
  /\ IF powered' THEN leases' = leases \cup {"hold"} /\ UNCHANGED <<bonds, searching>>
     ELSE /\ bonds' = [d \in Devs |-> IF bonds[d] = "connected" THEN "paired" ELSE bonds[d]]
          /\ searching' = FALSE /\ UNCHANGED leases
  /\ refresh
  /\ UNCHANGED <<until, stopping, page, visits, sheet, known, trouble>>

\* the search is given up for it; it comes to a connection, to no more than trust,
\* or to nothing
pair(d) ==
  /\ Press /\ known.powered /\ known.bonds[d] = "no"
  /\ until' = FALSE /\ searching' = (searching /\ ~until)
  /\ \E b \in {"connected", "paired", "no"} :
       bonds' = IF powered /\ bonds[d] = "no" THEN [bonds EXCEPT ![d] = b] ELSE bonds
  /\ refresh
  /\ UNCHANGED <<powered, stopping, page, visits, leases, sheet, known, trouble>>

manage(d) ==
  /\ Press /\ known.powered /\ known.bonds[d] # "no"
  /\ \E op \in {IF known.bonds[d] = "connected" THEN "disconnect" ELSE "connect", "forget"} :
       managed' = [dev |-> d, op |-> op]
  /\ sure' = FALSE
  /\ UNCHANGED <<powered, bonds, scan, page, visits, leases, ops, data, trouble>>

\* to forget it is asked about once more; Back and the scrim leave it
chosen ==
  /\ managed # None
  /\ \/ managed' = None /\ sure' = FALSE /\ UNCHANGED ops
     \/ /\ managed.op = "forget" /\ ~sure /\ sure' = TRUE
        /\ UNCHANGED <<managed, ops>>
     \/ /\ managed.op = "forget" => sure
        /\ managed' = None /\ sure' = FALSE /\ ops' = ops \cup {managed}
  /\ UNCHANGED <<powered, bonds, scan, page, visits, leases, data, presses, trouble>>

\* BlueZ does it, if it can
OpDone ==
  \E o \in ops :
    /\ ops' = ops \ {o}
    /\ \/ /\ powered /\ bonds[o.dev] # "no" /\ UNCHANGED trouble
          /\ bonds' = [bonds EXCEPT ![o.dev] =
               CASE o.op = "forget" -> "no" [] o.op = "connect" -> "connected" [] o.op = "disconnect" -> "paired"]
       \/ (Fails \/ (UNCHANGED trouble /\ ~(powered /\ bonds[o.dev] # "no"))) /\ UNCHANGED bonds
    /\ refresh
    /\ UNCHANGED <<powered, scan, page, visits, leases, managed, sure, known, presses>>

Next ==
  \/ Poll \/ Read \/ Answered \/ show \/ hide
  \/ renew \/ post_scan \/ scan_watchdog \/ StopDiscovery
  \/ setPower \/ (\E d \in Devs : pair(d) \/ manage(d)) \/ chosen \/ OpDone

Fairness ==
  /\ WF_vars(Poll) /\ WF_vars(Read) /\ WF_vars(Answered) /\ WF_vars(renew) /\ WF_vars(post_scan)
  /\ WF_vars(scan_watchdog) /\ WF_vars(StopDiscovery) /\ WF_vars(OpDone)

Spec == Init /\ [][Next]_vars /\ Fairness

-----------------------------------------------------------------------------
TypeOK ==
  /\ bonds \in [Devs -> {"no", "paired", "connected"}]
  /\ presses \in 0..MaxPresses /\ visits \in 0..MaxVisits /\ trouble \in 0..MaxTrouble

\* BlueZ searches for nobody: there is a lease, or the order to stop is on its way, whatever
\* the order in which a page that comes and goes had its posts arrive.
SearchIsHeld == searching => until \/ stopping

\* A search ends with the page, and what the page shows is what there is.
DevicesShow == (page => known = now) /\ (~page => ~until /\ ~searching)
DevicesSettle == <>[]DevicesShow

\* With a page that is up, and Bluetooth on, the search goes on; not after a switch off
\* and on, or a lease begun while the last is being stopped.
SearchesOn == <>[](page /\ powered => searching)
=============================================================================
