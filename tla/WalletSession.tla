--------------------------- MODULE WalletSession ---------------------------
(***************************************************************************)
(* One tab's wallet session and network: WalletProvider.tsx, which         *)
(* connects, polls and disconnects, NetworkProvider.tsx, which follows the *)
(* network the wallet reports, and networkBridge.ts between them.  The     *)
(* generation counters appear as what they decide: the attempt that is     *)
(* live, and the switch whose end NetworkProvider still waits for.         *)
(***************************************************************************)
EXTENDS Naturals

CONSTANTS
  Supported,     \* the networks of NETWORK_CONFIGS
  Foreign,       \* networks a wallet may be on besides them
  Default,       \* DEFAULT_NETWORK_ID
  MaxAttempts,   \* connections and switches tried in a run; bounds runs
  MaxPolls       \* polls under way at a time; bounds runs

NoNet == "none"

ASSUME SessionConstants ==
  /\ Default \in Supported /\ MaxAttempts \in Nat /\ MaxPolls \in Nat
  /\ Foreign \cap Supported = {} /\ NoNet \notin Supported \cup Foreign

VARIABLES
  status, info,   \* what is rendered; info is the network of the last read
  api,            \* the attempt whose ConnectedAPI is held, 0 for none
  tries, live,    \* attempts begun, and the one that was not superseded
  attempts,
  connecting,     \* connectingWalletId is set
  polling,        \* the interval is running
  ticks,          \* polls under way: the interval does not wait for one to end
  failures,       \* consecutive failed polls
  lastEmitted,    \* the network last reported to the NetworkProvider
  remembered,     \* localStorage: reconnect to the last wallet
  appNet, persisted, ready, switching,
  asker,          \* the switch that may still clear `switching`
  pendingTx,      \* networkBridge.ts: pendingTxCount
  walletNet,      \* the network the wallet itself is on
  left,           \* attempts begun before the last disconnect
  ghost           \* a poll was applied after its session had ended

walletVars ==
  <<status, info, api, tries, live, attempts, connecting, polling, ticks,
    failures, lastEmitted, remembered, left, ghost>>
networkVars == <<appNet, persisted, switching, asker>>
sessionVars == <<walletVars, networkVars, ready, pendingTx, walletNet>>

Nets == Supported \cup Foreign
NoAttempt == [kind |-> "none", phase |-> "over", net |-> NoNet]
Polls == 1..MaxPolls
NoTick == [phase |-> "none", net |-> NoNet]
NoTicks == [k \in Polls |-> NoTick]
MaxFailures == 3

\* A page that was just loaded.
Unloaded ==
  /\ status = "idle" /\ info = NoNet /\ api = 0
  /\ tries = 0 /\ live = 0 /\ left = 0
  /\ attempts = [g \in 1..MaxAttempts |-> NoAttempt]
  /\ connecting = FALSE /\ polling = FALSE /\ ticks = NoTicks /\ failures = 0
  /\ lastEmitted = NoNet /\ ghost = FALSE
  /\ appNet = Default /\ ready = FALSE /\ switching = FALSE /\ asker = 0
  /\ pendingTx = 0

SessionInit ==
  /\ Unloaded
  /\ remembered \in BOOLEAN /\ persisted \in Supported \cup {NoNet}
  /\ walletNet \in Nets

Hydrate ==
  /\ ~ready /\ ready' = TRUE
  /\ appNet' = IF persisted = NoNet THEN appNet ELSE persisted
  /\ UNCHANGED <<walletVars, persisted, switching, asker, pendingTx, walletNet>>

StatusFor(net) == IF net \in Supported THEN "connected" ELSE "unsupported-network"

-----------------------------------------------------------------------------
(* The bridge *)

Known(net) == net \in Supported

\* reportWalletNetworkId and NetworkProvider's listener; `ended` is the switch
\* whose promise is settled in the same turn, 0 for none.
Report(net, ended) ==
  IF lastEmitted = net
  THEN /\ UNCHANGED <<lastEmitted, appNet, persisted, asker>>
       /\ switching' = (switching /\ ~(ended # 0 /\ asker = ended))
  ELSE /\ lastEmitted' = net
       /\ asker' = 0 /\ switching' = FALSE
       /\ IF Known(net) THEN appNet' = net /\ persisted' = net
                        ELSE UNCHANGED <<appNet, persisted>>

\* Slip: a switch that is superseded or refused is never reported as over.
NeverOver(g) == UNCHANGED networkVars

\* requestNetworkSwitch's then and catch.
SwitchOver(g) ==
  /\ switching' = (switching /\ asker # g)
  /\ UNCHANGED <<appNet, persisted, asker>>

\* Slip: the network reported last survives a disconnect.
Unforgotten == lastEmitted
Forgotten == NoNet

\* handleDisconnected.
Disconnected(becomes) ==
  /\ live' = 0 /\ left' = tries /\ api' = 0 /\ info' = NoNet
  /\ status' = becomes
  /\ polling' = FALSE /\ failures' = 0
  /\ lastEmitted' = Forgotten /\ remembered' = FALSE

-----------------------------------------------------------------------------
(* Attempts *)

Begin(kind, net) ==
  /\ tries < MaxAttempts
  /\ tries' = tries + 1 /\ live' = tries + 1
  /\ attempts' = [attempts EXCEPT ![tries + 1] =
       [kind |-> kind, net |-> net, phase |-> "asked"]]
  /\ status' = "connecting"
  /\ UNCHANGED <<info, api, polling, ticks, failures, lastEmitted, remembered,
                 left, ghost, ready, pendingTx, walletNet>>

\* connectTo, with the app's network as a hint.
Connect ==
  /\ ~connecting /\ connecting' = TRUE
  /\ Begin("connect", appNet)
  /\ UNCHANGED networkVars

\* The reconnection at load, once the wallet's extension has announced itself.
AutoConnect ==
  /\ ready /\ remembered /\ tries = 0
  /\ Begin("auto", appNet)
  /\ UNCHANGED <<connecting, networkVars>>

\* Slip: a switch does not wait for the pending transaction.
SwitchAnyway == TRUE
MaySwitch == pendingTx = 0

\* requestNetworkSwitch; without a wallet it only changes the preference.
RequestSwitch(net) ==
  /\ net \in Supported \ {appNet} /\ MaySwitch
  /\ IF api = 0
     THEN /\ appNet' = net /\ persisted' = net /\ switching' = FALSE /\ asker' = 0
          /\ UNCHANGED <<walletVars, ready, pendingTx, walletNet>>
     ELSE \/ /\ Begin("switch", net) /\ UNCHANGED connecting
             /\ switching' = TRUE /\ asker' = tries + 1
             /\ UNCHANGED <<appNet, persisted>>
          \/ /\ Disconnected("disconnected")    \* the extension is gone
             /\ switching' = FALSE /\ asker' = 0
             /\ UNCHANGED <<tries, attempts, connecting, ticks, ghost, appNet,
                            persisted, ready, pendingTx, walletNet>>

\* Slip: a superseded attempt goes on as if it were the newest.
AlwaysLive(g) == TRUE
Live(g) == live = g

To(g, phase) == attempts' = [attempts EXCEPT ![g].phase = phase]

\* A superseded attempt ends here; NetworkProvider hears of it if it still asks.
Ends(g) ==
  /\ To(g, "over")
  /\ IF attempts[g].kind = "switch" THEN SwitchOver(g) ELSE UNCHANGED networkVars

\* The wallet grants the connection, on the network it was asked for or its own.
Grant(g) ==
  /\ attempts[g].phase = "asked"
  /\ walletNet' \in {walletNet, attempts[g].net}
  /\ IF Live(g) THEN To(g, "granted") /\ UNCHANGED networkVars ELSE Ends(g)
  /\ UNCHANGED <<status, info, api, tries, live, connecting, polling, ticks,
                 failures, lastEmitted, remembered, left, ghost, ready, pendingTx>>

\* loadWalletInfo.
Load(g) ==
  /\ attempts[g].phase = "granted"
  /\ attempts' = [attempts EXCEPT ![g].phase = "loaded", ![g].net = walletNet]
  /\ UNCHANGED <<status, info, api, tries, live, connecting, polling, ticks,
                 failures, lastEmitted, remembered, left, ghost, ready, pendingTx,
                 walletNet, networkVars>>

Adopt(g) ==
  /\ attempts[g].phase = "loaded"
  /\ LET a == attempts[g] IN
     IF Live(g)
     THEN /\ To(g, "over")
          /\ api' = g /\ info' = a.net /\ status' = StatusFor(a.net)
          /\ polling' = TRUE /\ failures' = 0
          /\ connecting' = (connecting /\ a.kind # "connect")
          /\ remembered' = (remembered \/ a.kind = "connect")
          /\ Report(a.net, IF a.kind = "switch" THEN g ELSE 0)
     ELSE /\ Ends(g)
          /\ UNCHANGED <<api, info, status, polling, failures, connecting,
                         remembered, lastEmitted>>
  /\ UNCHANGED <<tries, live, ticks, left, ghost, ready, pendingTx, walletNet>>

\* The wallet refuses, fails, or is not heard of in time.
Break(g) ==
  /\ attempts[g].phase \in {"asked", "granted"} /\ Ends(g)
  /\ IF ~Live(g)
     THEN UNCHANGED <<status, info, api, live, left, polling, failures,
                      lastEmitted, remembered, connecting>>
     ELSE IF attempts[g].kind = "switch"
     THEN Disconnected("disconnected") /\ UNCHANGED connecting
     ELSE /\ status' = IF status = "connecting" \/ attempts[g].kind = "auto"
                       THEN "idle" ELSE status
          /\ connecting' = (connecting /\ attempts[g].kind # "connect")
          /\ UNCHANGED <<info, api, live, left, polling, failures, lastEmitted,
                         remembered>>
  /\ UNCHANGED <<tries, ticks, ghost, ready, pendingTx, walletNet>>

Disconnect ==
  /\ api # 0 /\ Disconnected("idle")
  /\ UNCHANGED <<tries, attempts, connecting, ticks, ghost, networkVars, ready,
                 pendingTx, walletNet>>

-----------------------------------------------------------------------------
(* Polls: their answers are not compared with the generation *)

TickIs(k, phase, net) ==
  ticks' = [ticks EXCEPT ![k] = [phase |-> phase, net |-> net]]
PollOver(k) == ticks' = [ticks EXCEPT ![k] = NoTick]

\* Places are given out from the lowest.
Vacant(k) == ticks[k] = NoTick /\ \A j \in 1..(k - 1) : ticks[j] # NoTick

StartTick(k) ==
  /\ polling /\ api # 0 /\ Vacant(k) /\ TickIs(k, "asked", NoNet)
  /\ UNCHANGED <<status, info, api, tries, live, attempts, connecting, polling,
                 failures, lastEmitted, remembered, left, ghost, networkVars,
                 ready, pendingTx, walletNet>>

LoadTick(k) ==
  /\ ticks[k].phase = "asked" /\ TickIs(k, "loaded", walletNet)
  /\ UNCHANGED <<status, info, api, tries, live, attempts, connecting, polling,
                 failures, lastEmitted, remembered, left, ghost, networkVars,
                 ready, pendingTx, walletNet>>

ApplyTick(k) ==
  /\ ticks[k].phase = "loaded" /\ PollOver(k)
  /\ LET net == ticks[k].net IN
     failures' = 0 /\ info' = net /\ status' = StatusFor(net) /\ Report(net, 0)
  /\ ghost' = (ghost \/ api = 0)
  /\ UNCHANGED <<api, tries, live, attempts, connecting, polling, remembered,
                 left, ready, pendingTx, walletNet>>

\* The wallet says it is disconnected, or a poll fails once too often.
FailTick(k) ==
  /\ ticks[k].phase = "asked" /\ PollOver(k)
  /\ \/ Disconnected("disconnected")
     \/ /\ failures + 1 < MaxFailures /\ failures' = failures + 1
        /\ UNCHANGED <<status, info, api, live, left, polling, lastEmitted,
                       remembered>>
  /\ UNCHANGED <<tries, attempts, connecting, ghost, networkVars, ready,
                 pendingTx, walletNet>>

PollStep(k) == LoadTick(k) \/ ApplyTick(k) \/ FailTick(k)

\* The user changes the network in the wallet itself.
WalletMoves ==
  /\ walletNet' \in Nets \ {walletNet}
  /\ UNCHANGED <<walletVars, networkVars, ready, pendingTx>>

-----------------------------------------------------------------------------
(* Transactions of this tab, which use-submit-order.ts counts, and reloads *)

MaySubmit == status = "connected" /\ api # 0 /\ ~switching

BeginTx ==
  /\ MaySubmit /\ pendingTx' = pendingTx + 1
  /\ UNCHANGED <<walletVars, networkVars, ready, walletNet>>
EndTx ==
  /\ pendingTx' = IF pendingTx = 0 THEN 0 ELSE pendingTx - 1
  /\ UNCHANGED <<walletVars, networkVars, ready, walletNet>>

ReloadSession ==
  /\ status' = "idle" /\ info' = NoNet /\ api' = 0
  /\ tries' = 0 /\ live' = 0 /\ left' = 0
  /\ attempts' = [g \in 1..MaxAttempts |-> NoAttempt]
  /\ connecting' = FALSE /\ polling' = FALSE /\ ticks' = NoTicks /\ failures' = 0
  /\ lastEmitted' = NoNet /\ ghost' = FALSE
  /\ appNet' = Default /\ ready' = FALSE /\ switching' = FALSE /\ asker' = 0
  /\ pendingTx' = 0
  /\ UNCHANGED <<remembered, persisted, walletNet>>

AttemptStep(g) == Grant(g) \/ Load(g) \/ Adopt(g) \/ Break(g)

-----------------------------------------------------------------------------
(* Properties *)

AttemptsTypeOK ==
  /\ tries \in 0..MaxAttempts
  /\ {api, live, left, asker} \subseteq 0..tries
  /\ DOMAIN attempts = 1..MaxAttempts
  /\ \A g \in 1..MaxAttempts :
       /\ attempts[g].phase \in {"asked", "granted", "loaded", "over"}
       /\ attempts[g].phase # "over" => attempts[g].net \in Nets
       /\ g > tries => attempts[g] = NoAttempt

NetworkTypeOK ==
  /\ lastEmitted \in Nets \cup {NoNet} /\ walletNet \in Nets
  /\ appNet \in Supported /\ persisted \in Supported \cup {NoNet}
  /\ ready \in BOOLEAN /\ switching \in BOOLEAN /\ pendingTx \in Nat

PollsTypeOK ==
  /\ status \in {"idle", "connecting", "connected", "unsupported-network",
                 "disconnected"}
  /\ info \in Nets \cup {NoNet}
  /\ DOMAIN ticks = Polls
  /\ \A k \in Polls :
       /\ ticks[k].phase \in {"none", "asked", "loaded"}
       /\ ticks[k].phase = "loaded" => ticks[k].net \in Nets
  /\ failures \in 0..(MaxFailures - 1)

FlagsTypeOK ==
  /\ connecting \in BOOLEAN /\ polling \in BOOLEAN
  /\ remembered \in BOOLEAN /\ ghost \in BOOLEAN

SessionTypeOK == AttemptsTypeOK /\ NetworkTypeOK /\ PollsTypeOK /\ FlagsTypeOK

\* While a session is held, the app is on the network the wallet was last read
\* to be on, if it is one the app knows (NetworkProvider.tsx: "the wallet is
\* the single source of truth once connected"), unless a poll was applied to a
\* session that had ended.
AppFollowsWallet ==
  ~ghost /\ api # 0 /\ info \in Supported => appNet = info

\* A session comes from an attempt begun after the last disconnect, whichever
\* attempts overlapped (WalletProvider.tsx: no stale attempt resurrects "a
\* session the user already disconnected").
NothingResurrected == api # 0 => api > left

\* A network switch asked of the app and the creation of an order never
\* overlap, although each is refused by another component.
SwitchAndTxExclude == ~(switching /\ pendingTx > 0)

\* A switch that was asked for comes to an end: the interface does not stay
\* in "switching", though the attempt may be superseded or the wallet change.
SwitchEnds == switching ~> ~switching
=============================================================================
