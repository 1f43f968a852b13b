------------------------------ MODULE WebProofs -----------------------------
(***************************************************************************)
(* Theorems about a browser profile (Web.tla), for any tabs, orders and    *)
(* networks, any number of attempts and any scenes.                        *)
(***************************************************************************)
EXTENDS Web, FiniteSetTheorems, TLAPS

-----------------------------------------------------------------------------
(* The wallet session by itself *)

SessionNext ==
  \/ Hydrate \/ Connect \/ AutoConnect \/ Disconnect \/ WalletMoves
  \/ \E k \in Polls : StartTick(k) \/ LoadTick(k) \/ ApplyTick(k) \/ FailTick(k)
  \/ BeginTx \/ EndTx \/ ReloadSession
  \/ \E net \in Supported : RequestSwitch(net)
  \/ \E g \in 1..MaxAttempts : Grant(g) \/ Load(g) \/ Adopt(g) \/ Break(g)

\* Attempts are numbered in the order they begin; a live one, and one whose
\* session is held, began after the last disconnect.
AttemptsInOrder ==
  /\ tries \in Nat /\ left \in 0..tries /\ live \in 0..tries /\ api \in 0..tries
  /\ live # 0 => live > left
  /\ NothingResurrected

\* What the app was told last is where it is, unless a poll outlived its
\* session; without a session it was told nothing.
AppIsWhereTold ==
  ~ghost =>
    /\ api = 0 => lastEmitted = NoNet
    /\ api # 0 => info = lastEmitted
    /\ lastEmitted \in Supported => appNet = lastEmitted /\ persisted = lastEmitted

SessionInv ==
  /\ AttemptsInOrder /\ AppIsWhereTold
  /\ switching \in BOOLEAN /\ pendingTx \in Nat /\ SwitchAndTxExclude

LEMMA SessionStarts == SessionInit => SessionInv
<1> SUFFICES ASSUME Unloaded PROVE SessionInv BY DEF SessionInit
<1> USE DEF Unloaded
<1>1. AttemptsInOrder BY DEF AttemptsInOrder, NothingResurrected
<1>2. AppIsWhereTold BY SessionConstants DEF AppIsWhereTold
<1>3. switching \in BOOLEAN /\ pendingTx \in Nat OBVIOUS
<1>4. SwitchAndTxExclude BY DEF SwitchAndTxExclude
<1> QED BY <1>1, <1>2, <1>3, <1>4 DEF SessionInv

LEMMA AttemptsKeepOrder ==
  ASSUME AttemptsInOrder, SessionNext PROVE AttemptsInOrder'
<1> USE DEF AttemptsInOrder, NothingResurrected, walletVars
<1>1. CASE Hydrate \/ WalletMoves \/ BeginTx \/ EndTx
  BY <1>1 DEF Hydrate, WalletMoves, BeginTx, EndTx
<1>2. CASE Connect \/ AutoConnect
  BY <1>2 DEF Connect, AutoConnect, Begin
<1>3. CASE Disconnect BY <1>3 DEF Disconnect, Disconnected
<1>4. ASSUME NEW k \in Polls, StartTick(k) \/ LoadTick(k) \/ ApplyTick(k)
      PROVE  AttemptsInOrder'
  BY <1>4 DEF StartTick, LoadTick, ApplyTick
<1>5. ASSUME NEW k \in Polls, FailTick(k) PROVE AttemptsInOrder'
  BY <1>5 DEF FailTick, Disconnected
<1>6. CASE ReloadSession BY <1>6 DEF ReloadSession
<1>7. ASSUME NEW net \in Supported, RequestSwitch(net) PROVE AttemptsInOrder'
  BY <1>7 DEF RequestSwitch, Begin, Disconnected
<1>8. ASSUME NEW g \in 1..MaxAttempts, Grant(g) \/ Load(g) PROVE AttemptsInOrder'
  BY <1>8 DEF Grant, Load
<1>9. ASSUME NEW g \in 1..MaxAttempts, Adopt(g) PROVE AttemptsInOrder'
  BY <1>9 DEF Adopt, Live
<1>10. ASSUME NEW g \in 1..MaxAttempts, Break(g) PROVE AttemptsInOrder'
  <2>1. CASE UNCHANGED <<api, live, left>> BY <1>10, <2>1 DEF Break
  <2>2. CASE Disconnected("disconnected") BY <1>10, <2>2 DEF Break, Disconnected
  <2> QED BY <1>10, <2>1, <2>2 DEF Break
<1> QED
  BY <1>1, <1>2, <1>3, <1>4, <1>5, <1>6, <1>7, <1>8, <1>9, <1>10 DEF SessionNext

\* What Report and SwitchOver leave true of the app's network.
LEMMA ReportTells ==
  ASSUME NEW net, NEW ended, Report(net, ended),
         lastEmitted \in Supported => appNet = lastEmitted /\ persisted = lastEmitted
  PROVE  /\ lastEmitted' = net
         /\ net \in Supported => appNet' = net /\ persisted' = net
  BY DEF Report, Known

LEMMA AppStaysTold ==
  ASSUME AttemptsInOrder, AppIsWhereTold, SessionNext PROVE AppIsWhereTold'
<1> USE SessionConstants DEF AppIsWhereTold, walletVars, networkVars
<1>1. CASE Hydrate BY <1>1 DEF Hydrate
<1>2. CASE WalletMoves \/ BeginTx \/ EndTx
  BY <1>2 DEF WalletMoves, BeginTx, EndTx
<1>14. ASSUME NEW k \in Polls, StartTick(k) \/ LoadTick(k) PROVE AppIsWhereTold'
  BY <1>14 DEF StartTick, LoadTick
<1>3. CASE Connect \/ AutoConnect BY <1>3 DEF Connect, AutoConnect, Begin
<1>4. CASE Disconnect BY <1>4 DEF Disconnect, Disconnected, Forgotten
<1>5. ASSUME NEW k \in Polls, FailTick(k) PROVE AppIsWhereTold'
  BY <1>5 DEF FailTick, Disconnected, Forgotten
<1>6. ASSUME NEW k \in Polls, ApplyTick(k) PROVE AppIsWhereTold'
  <2> SUFFICES ASSUME ~ghost' PROVE AppIsWhereTold' OBVIOUS
  <2>1. /\ ~ghost /\ api # 0 /\ api' = api /\ info' = ticks[k].net
        /\ Report(ticks[k].net, 0)
    BY <1>6 DEF ApplyTick
  <2> QED BY <2>1, ReportTells
<1>7. CASE ReloadSession BY <1>7 DEF ReloadSession
<1>8. ASSUME NEW net \in Supported, RequestSwitch(net) PROVE AppIsWhereTold'
  <2>1. CASE api = 0 BY <1>8, <2>1 DEF RequestSwitch
  <2>2. CASE api # 0 /\ Disconnected("disconnected")
    BY <1>8, <2>2 DEF RequestSwitch, Disconnected, Forgotten
  <2>3. CASE api # 0 /\ Begin("switch", net)
    BY <1>8, <2>3 DEF RequestSwitch, Begin
  <2> QED BY <1>8, <2>1, <2>2, <2>3 DEF RequestSwitch
<1>9. ASSUME NEW g \in 1..MaxAttempts, Ends(g) PROVE UNCHANGED <<appNet, persisted>>
  BY <1>9 DEF Ends, SwitchOver
<1>10. ASSUME NEW g \in 1..MaxAttempts, Grant(g) PROVE AppIsWhereTold'
  BY <1>9, <1>10 DEF Grant
<1>11. ASSUME NEW g \in 1..MaxAttempts, Load(g) PROVE AppIsWhereTold'
  BY <1>11 DEF Load
<1>12. ASSUME NEW g \in 1..MaxAttempts, Adopt(g) PROVE AppIsWhereTold'
  <2> DEFINE net == attempts[g].net
  <2>1. CASE ~Live(g) BY <1>9, <1>12, <2>1 DEF Adopt
  <2>2. CASE Live(g)
    <3>1. PICK ended : Report(net, ended) BY <1>12, <2>2 DEF Adopt
    <3>2. api' # 0 /\ info' = net /\ ghost' = ghost BY <1>12, <2>2 DEF Adopt
    <3>3. ~ghost => /\ lastEmitted' = net
                    /\ net \in Supported => appNet' = net /\ persisted' = net
      BY <3>1, ReportTells
    <3> QED BY <3>2, <3>3
  <2> QED BY <2>1, <2>2
<1>13. ASSUME NEW g \in 1..MaxAttempts, Break(g) PROVE AppIsWhereTold'
  <2>1. CASE UNCHANGED <<api, info, lastEmitted>> BY <1>9, <1>13, <2>1 DEF Break
  <2>2. CASE Disconnected("disconnected")
    BY <1>9, <1>13, <2>2 DEF Break, Disconnected, Forgotten
  <2> QED BY <1>13, <2>1, <2>2 DEF Break
<1> QED
  BY <1>1, <1>2, <1>3, <1>4, <1>5, <1>6, <1>7, <1>8, <1>10, <1>11, <1>12, <1>13,
     <1>14
     DEF SessionNext

LEMMA SwitchesWait ==
  ASSUME switching \in BOOLEAN, pendingTx \in Nat, SwitchAndTxExclude, SessionNext
  PROVE  switching' \in BOOLEAN /\ pendingTx' \in Nat /\ SwitchAndTxExclude'
<1> USE DEF SwitchAndTxExclude, walletVars, networkVars
<1>1. CASE Hydrate \/ WalletMoves \/ Disconnect
  BY <1>1 DEF Hydrate, WalletMoves, Disconnect
<1>10. ASSUME NEW k \in Polls, StartTick(k) \/ LoadTick(k) \/ FailTick(k)
       PROVE  UNCHANGED <<switching, pendingTx>>
  BY <1>10 DEF StartTick, LoadTick, FailTick
<1>2. CASE Connect \/ AutoConnect BY <1>2 DEF Connect, AutoConnect, Begin
<1>3. CASE BeginTx \/ EndTx BY <1>3 DEF BeginTx, EndTx, MaySubmit
<1>4. ASSUME NEW k \in Polls, ApplyTick(k)
      PROVE  /\ pendingTx' = pendingTx
             /\ switching' \in BOOLEAN /\ (switching' => switching)
  BY <1>4 DEF ApplyTick, Report
<1>5. CASE ReloadSession BY <1>5 DEF ReloadSession
<1>6. ASSUME NEW net \in Supported, RequestSwitch(net)
      PROVE  switching' \in BOOLEAN /\ pendingTx' = pendingTx /\ pendingTx = 0
  BY <1>6 DEF RequestSwitch, MaySwitch, Begin
<1>7. ASSUME NEW g \in 1..MaxAttempts, Ends(g)
      PROVE  switching' \in BOOLEAN /\ (switching' => switching)
  BY <1>7 DEF Ends, SwitchOver
<1>8. ASSUME NEW g \in 1..MaxAttempts, Grant(g) \/ Load(g) \/ Break(g)
      PROVE  /\ pendingTx' = pendingTx
             /\ switching' \in BOOLEAN /\ (switching' => switching)
  BY <1>7, <1>8 DEF Grant, Load, Break
<1>9. ASSUME NEW g \in 1..MaxAttempts, Adopt(g)
      PROVE  /\ pendingTx' = pendingTx
             /\ switching' \in BOOLEAN /\ (switching' => switching)
  BY <1>7, <1>9 DEF Adopt, Report
<1> QED BY <1>1, <1>2, <1>3, <1>4, <1>5, <1>6, <1>8, <1>9, <1>10 DEF SessionNext

LEMMA SessionStep ==
  ASSUME SessionInv, SessionNext \/ UNCHANGED sessionVars PROVE SessionInv'
<1>1. CASE UNCHANGED sessionVars
  BY <1>1 DEF sessionVars, walletVars, networkVars, SessionInv, AttemptsInOrder,
       AppIsWhereTold, NothingResurrected, SwitchAndTxExclude
<1>2. CASE SessionNext
  BY <1>2, AttemptsKeepOrder, AppStaysTold, SwitchesWait DEF SessionInv
<1> QED BY <1>1, <1>2

LEMMA SessionTypesStart == SessionInit => SessionTypeOK
<1> SUFFICES ASSUME SessionInit PROVE SessionTypeOK OBVIOUS
<1> USE SessionConstants DEF SessionInit, Unloaded
<1>1. AttemptsTypeOK
  <2>1. \A g \in 1..MaxAttempts : attempts[g] = NoAttempt OBVIOUS
  <2> QED BY <2>1 DEF AttemptsTypeOK, NoAttempt
<1>2. NetworkTypeOK BY DEF NetworkTypeOK
<1>3. PollsTypeOK BY DEF PollsTypeOK, NoTick, NoTicks, MaxFailures
<1>4. FlagsTypeOK BY DEF FlagsTypeOK
<1> QED BY <1>1, <1>2, <1>3, <1>4 DEF SessionTypeOK

\* What a switch of phase, and the beginning of an attempt, do to them.
LEMMA PhasesTyped ==
  ASSUME AttemptsTypeOK, NEW g \in 1..MaxAttempts,
         To(g, "over") \/ To(g, "granted"), attempts[g].phase # "over",
         tries' = tries, {api, live, left, asker}' \subseteq 0..tries
  PROVE  AttemptsTypeOK'
<1>1. g <= tries BY SessionConstants DEF AttemptsTypeOK, NoAttempt
<1>2. PICK phase \in {"over", "granted"} :
        attempts' = [attempts EXCEPT ![g] = [attempts[g] EXCEPT !.phase = phase]]
  BY DEF To
<1>3. ASSUME NEW h \in 1..MaxAttempts
      PROVE  /\ attempts'[h].phase \in {"asked", "granted", "loaded", "over"}
             /\ attempts'[h].phase # "over" => attempts'[h].net \in Nets
             /\ h > tries' => attempts'[h] = NoAttempt
  <2>1. CASE h = g
    <3>1. attempts'[h] = [attempts[g] EXCEPT !.phase = phase]
      BY <1>2, <2>1 DEF AttemptsTypeOK
    <3>2. attempts'[h].net = attempts[g].net BY <3>1
    <3>3. attempts'[h].phase \in {attempts[g].phase, phase} BY <3>1
    <3>4. ~(h > tries') BY <1>1, <2>1, SessionConstants DEF AttemptsTypeOK
    <3> QED BY <3>2, <3>3, <3>4 DEF AttemptsTypeOK
  <2>2. CASE h # g
    <3>1. attempts'[h] = attempts[h] BY <1>2, <2>2 DEF AttemptsTypeOK
    <3> QED BY <3>1 DEF AttemptsTypeOK
  <2> QED BY <2>1, <2>2
<1>4. DOMAIN attempts' = 1..MaxAttempts BY <1>2 DEF AttemptsTypeOK
<1> QED BY <1>3, <1>4 DEF AttemptsTypeOK

LEMMA BeginTyped ==
  ASSUME AttemptsTypeOK, NEW kind, NEW net \in Nets, Begin(kind, net),
         asker' \in {0, asker, tries + 1}
  PROVE  AttemptsTypeOK' /\ status' = "connecting" /\ live' = tries + 1
<1> DEFINE new == [kind |-> kind, net |-> net, phase |-> "asked"]
<1>1. /\ tries < MaxAttempts /\ tries' = tries + 1 /\ live' = tries + 1
      /\ attempts' = [attempts EXCEPT ![tries + 1] = new]
      /\ status' = "connecting" /\ api' = api /\ left' = left
  BY DEF Begin
<1>2. tries + 1 \in 1..MaxAttempts BY <1>1, SessionConstants DEF AttemptsTypeOK
<1>3. tries' \in 0..MaxAttempts /\ {api, live, left, asker}' \subseteq 0..tries'
  BY <1>1, <1>2, SessionConstants DEF AttemptsTypeOK
<1>4. DOMAIN attempts' = 1..MaxAttempts BY <1>1 DEF AttemptsTypeOK
<1>5. new.phase = "asked" /\ new.net = net OBVIOUS
<1> HIDE DEF new
<1>6. ASSUME NEW g \in 1..MaxAttempts
      PROVE  /\ attempts'[g].phase \in {"asked", "granted", "loaded", "over"}
             /\ attempts'[g].phase # "over" => attempts'[g].net \in Nets
             /\ g > tries' => attempts'[g] = NoAttempt
  <2>1. CASE g = tries + 1
    BY <1>1, <1>2, <1>5, <2>1, SessionConstants DEF AttemptsTypeOK
  <2>2. CASE g # tries + 1
    <3>1. attempts'[g] = attempts[g] BY <1>1, <2>2 DEF AttemptsTypeOK
    <3>2. g > tries' => g > tries BY <1>1, SessionConstants DEF AttemptsTypeOK
    <3> QED BY <3>1, <3>2 DEF AttemptsTypeOK
  <2> QED BY <2>1, <2>2
<1> QED BY <1>1, <1>3, <1>4, <1>6 DEF AttemptsTypeOK

LEMMA EndsTyped ==
  ASSUME AttemptsTypeOK, NEW g \in 1..MaxAttempts, Ends(g),
         attempts[g].phase # "over", tries' = tries,
         {api, live, left}' \subseteq 0..tries
  PROVE  AttemptsTypeOK'
<1>1. To(g, "over") /\ asker' = asker BY DEF Ends, SwitchOver, networkVars
<1>2. asker \in 0..tries BY DEF AttemptsTypeOK
<1> QED BY <1>1, <1>2, PhasesTyped

LEMMA AttemptsTyped ==
  ASSUME SessionTypeOK, SessionNext PROVE AttemptsTypeOK'
<1> USE DEF walletVars, networkVars
<1>0. /\ AttemptsTypeOK /\ appNet \in Nets /\ tries \in Nat
      /\ {api, live, left, asker} \subseteq 0..tries
  BY SessionConstants DEF SessionTypeOK, AttemptsTypeOK, NetworkTypeOK, Nets
<1>a. ASSUME UNCHANGED <<tries, attempts>>, {api, live, left, asker}' \subseteq 0..tries
      PROVE  AttemptsTypeOK'
  BY <1>0, <1>a DEF AttemptsTypeOK
<1>b. ASSUME NEW s, Disconnected(s), UNCHANGED tries
      PROVE  {api, live, left}' \subseteq 0..tries
  BY <1>0, <1>b DEF Disconnected
<1>1. CASE Hydrate \/ WalletMoves \/ BeginTx \/ EndTx
  <2>1. UNCHANGED <<tries, attempts, api, live, left, asker>>
    BY <1>1 DEF Hydrate, WalletMoves, BeginTx, EndTx
  <2> QED BY <1>0, <1>a, <2>1
<1>2. CASE Connect \/ AutoConnect
  <2>1. PICK kind : Begin(kind, appNet) /\ asker' = asker
    BY <1>2 DEF Connect, AutoConnect
  <2> QED BY <1>0, <2>1, BeginTyped
<1>3. CASE Disconnect
  <2>1. UNCHANGED <<tries, attempts, asker>> /\ Disconnected("idle")
    BY <1>3 DEF Disconnect
  <2> QED BY <1>0, <1>a, <1>b, <2>1
<1>4. ASSUME NEW k \in Polls, StartTick(k) \/ LoadTick(k) PROVE AttemptsTypeOK'
  <2>1. UNCHANGED <<tries, attempts, api, live, left, asker>>
    BY <1>4 DEF StartTick, LoadTick
  <2> QED BY <1>0, <1>a, <2>1
<1>5. ASSUME NEW k \in Polls, ApplyTick(k) PROVE AttemptsTypeOK'
  <2>1. UNCHANGED <<tries, attempts, api, live, left>> /\ asker' \in {0, asker}
    BY <1>5 DEF ApplyTick, Report
  <2> QED BY <1>0, <1>a, <2>1
<1>6. ASSUME NEW k \in Polls, FailTick(k) PROVE AttemptsTypeOK'
  <2>1. UNCHANGED <<tries, attempts, asker>> BY <1>6 DEF FailTick
  <2>2. {api, live, left}' \subseteq 0..tries BY <1>0, <1>6, <1>b, <2>1 DEF FailTick
  <2> QED BY <1>0, <1>a, <2>1, <2>2
<1>7. CASE ReloadSession
  <2>1. \A g \in 1..MaxAttempts : attempts'[g] = NoAttempt
    BY <1>7 DEF ReloadSession
  <2> QED BY <1>7, <2>1, SessionConstants DEF ReloadSession, AttemptsTypeOK, NoAttempt
<1>8. ASSUME NEW net \in Supported, RequestSwitch(net) PROVE AttemptsTypeOK'
  <2>1. CASE api = 0
    <3>1. UNCHANGED <<tries, attempts, api, live, left>> /\ asker' = 0
      BY <1>8, <2>1 DEF RequestSwitch
    <3> QED BY <1>0, <1>a, <3>1
  <2>2. CASE api # 0 /\ Begin("switch", net) /\ asker' = tries + 1
    <3>1. net \in Nets BY DEF Nets
    <3> QED BY <1>0, <2>2, <3>1, BeginTyped
  <2>3. CASE /\ api # 0 /\ Disconnected("disconnected")
             /\ asker' = 0 /\ UNCHANGED <<tries, attempts>>
    BY <1>0, <1>a, <1>b, <2>3
  <2> QED BY <1>8, <2>1, <2>2, <2>3 DEF RequestSwitch
<1>9. ASSUME NEW g \in 1..MaxAttempts, Grant(g) PROVE AttemptsTypeOK'
  <2>1. UNCHANGED <<tries, api, live, left>> /\ attempts[g].phase # "over"
    BY <1>9 DEF Grant
  <2>2. CASE Ends(g) BY <1>0, <2>1, <2>2, EndsTyped
  <2>3. CASE To(g, "granted") /\ asker' = asker BY <1>0, <2>1, <2>3, PhasesTyped
  <2> QED BY <1>9, <2>2, <2>3 DEF Grant
<1>10. ASSUME NEW g \in 1..MaxAttempts, Load(g) PROVE AttemptsTypeOK'
  <2>1. /\ UNCHANGED <<tries, api, live, left, asker>> /\ walletNet \in Nets
        /\ attempts[g].phase = "granted"
        /\ attempts' = [attempts EXCEPT ![g] =
             [attempts[g] EXCEPT !.phase = "loaded", !.net = walletNet]]
    BY <1>10 DEF Load, SessionTypeOK, NetworkTypeOK
  <2> DEFINE e == [attempts[g] EXCEPT !.phase = "loaded", !.net = walletNet]
  <2>2. e.phase \in {"loaded", attempts[g].phase} OBVIOUS
  <2> QED BY <1>0, <2>1, <2>2 DEF AttemptsTypeOK, NoAttempt
<1>11. ASSUME NEW g \in 1..MaxAttempts, Adopt(g) PROVE AttemptsTypeOK'
  <2>1. /\ UNCHANGED <<tries, live, left>> /\ attempts[g].phase # "over"
    BY <1>11 DEF Adopt
  <2>2. g \in 0..tries
    BY <1>0, <2>1, SessionConstants DEF AttemptsTypeOK, NoAttempt
  <2>3. CASE ~Live(g) BY <1>0, <1>11, <2>1, <2>3, EndsTyped DEF Adopt
  <2>4. CASE Live(g)
    <3>1. To(g, "over") /\ api' = g /\ asker' \in {0, asker}
      BY <1>11, <2>4 DEF Adopt, Report
    <3> QED BY <1>0, <2>1, <2>2, <3>1, PhasesTyped
  <2> QED BY <2>3, <2>4
<1>12. ASSUME NEW g \in 1..MaxAttempts, Break(g) PROVE AttemptsTypeOK'
  <2>1. Ends(g) /\ UNCHANGED tries /\ attempts[g].phase # "over"
    BY <1>12 DEF Break
  <2>2. {api, live, left}' \subseteq 0..tries
    <3>1. CASE UNCHANGED <<api, live, left>> BY <1>0, <3>1
    <3>2. CASE Disconnected("disconnected") BY <1>b, <2>1, <3>2
    <3> QED BY <1>12, <3>1, <3>2 DEF Break
  <2> QED BY <1>0, <2>1, <2>2, EndsTyped
<1> QED BY <1>1, <1>2, <1>3, <1>4, <1>5, <1>6, <1>7, <1>8, <1>9, <1>10, <1>11, <1>12
        DEF SessionNext

LEMMA ReportTyped ==
  ASSUME NetworkTypeOK, NEW net \in Nets, NEW ended, Report(net, ended)
  PROVE  /\ lastEmitted' \in Nets \cup {NoNet} /\ switching' \in BOOLEAN
         /\ appNet' \in Supported /\ persisted' \in Supported \cup {NoNet}
  BY DEF Report, Known, NetworkTypeOK

LEMMA NetworkTyped ==
  ASSUME SessionTypeOK, SessionNext, switching' \in BOOLEAN, pendingTx' \in Nat
  PROVE  NetworkTypeOK'
<1> USE SessionConstants DEF NetworkTypeOK, walletVars, networkVars
<1>0. NetworkTypeOK BY DEF SessionTypeOK
<1>a. ASSUME NEW s, Disconnected(s) PROVE lastEmitted' = NoNet
  BY <1>a DEF Disconnected, Forgotten
<1>1. CASE Hydrate BY <1>0, <1>1 DEF Hydrate
<1>2. CASE WalletMoves BY <1>0, <1>2 DEF WalletMoves
<1>3. CASE BeginTx \/ EndTx BY <1>0, <1>3 DEF BeginTx, EndTx
<1>15. ASSUME NEW k \in Polls, StartTick(k) \/ LoadTick(k) PROVE NetworkTypeOK'
  BY <1>0, <1>15 DEF StartTick, LoadTick
<1>4. CASE Connect \/ AutoConnect BY <1>0, <1>4 DEF Connect, AutoConnect, Begin
<1>5. CASE Disconnect BY <1>0, <1>5, <1>a DEF Disconnect
<1>6. ASSUME NEW k \in Polls, FailTick(k) PROVE NetworkTypeOK'
  BY <1>0, <1>6, <1>a DEF FailTick
<1>7. ASSUME NEW k \in Polls, ApplyTick(k) PROVE NetworkTypeOK'
  <2>1. ticks[k].net \in Nets BY <1>7 DEF ApplyTick, SessionTypeOK, PollsTypeOK
  <2>2. Report(ticks[k].net, 0) /\ UNCHANGED <<ready, walletNet>>
    BY <1>7 DEF ApplyTick
  <2> QED BY <1>0, <2>1, <2>2, ReportTyped
<1>8. CASE ReloadSession BY <1>0, <1>8 DEF ReloadSession
<1>9. ASSUME NEW net \in Supported, RequestSwitch(net) PROVE NetworkTypeOK'
  BY <1>0, <1>9, <1>a DEF RequestSwitch, Begin
<1>10. ASSUME NEW g \in 1..MaxAttempts, Ends(g) PROVE UNCHANGED <<appNet, persisted>>
  BY <1>10 DEF Ends, SwitchOver
<1>11. ASSUME NEW g \in 1..MaxAttempts, Grant(g) PROVE NetworkTypeOK'
  <2>1. attempts[g].net \in Nets
    BY <1>11 DEF Grant, SessionTypeOK, AttemptsTypeOK
  <2> QED BY <1>0, <1>10, <1>11, <2>1 DEF Grant
<1>12. ASSUME NEW g \in 1..MaxAttempts, Load(g) PROVE NetworkTypeOK'
  BY <1>0, <1>12 DEF Load
<1>13. ASSUME NEW g \in 1..MaxAttempts, Adopt(g) PROVE NetworkTypeOK'
  <2>1. attempts[g].net \in Nets
    BY <1>13 DEF Adopt, SessionTypeOK, AttemptsTypeOK
  <2>2. UNCHANGED <<ready, walletNet>> BY <1>13 DEF Adopt
  <2>3. CASE ~Live(g) BY <1>0, <1>10, <1>13, <2>3 DEF Adopt
  <2>4. CASE Live(g)
    <3>1. PICK ended : Report(attempts[g].net, ended) BY <1>13, <2>4 DEF Adopt
    <3> QED BY <1>0, <2>1, <2>2, <3>1, ReportTyped
  <2> QED BY <2>3, <2>4
<1>14. ASSUME NEW g \in 1..MaxAttempts, Break(g) PROVE NetworkTypeOK'
  <2>1. UNCHANGED <<appNet, persisted, ready, walletNet>>
    BY <1>10, <1>14 DEF Break
  <2>2. lastEmitted' \in {NoNet, lastEmitted} BY <1>14, <1>a DEF Break
  <2> QED BY <1>0, <2>1, <2>2
<1> QED BY <1>1, <1>2, <1>3, <1>4, <1>5, <1>6, <1>7, <1>8, <1>9, <1>11, <1>12, <1>13,
           <1>14, <1>15
        DEF SessionNext

TicksTypeOK ==
  /\ DOMAIN ticks = Polls
  /\ \A k \in Polls :
       /\ ticks[k].phase \in {"none", "asked", "loaded"}
       /\ ticks[k].phase = "loaded" => ticks[k].net \in Nets

LEMMA TicksTyped ==
  ASSUME TicksTypeOK, NEW k \in Polls, walletNet \in Nets,
         TickIs(k, "asked", NoNet) \/ TickIs(k, "loaded", walletNet) \/ PollOver(k)
  PROVE  TicksTypeOK'
<1>1. PICK e \in {[phase |-> "asked", net |-> NoNet],
                  [phase |-> "loaded", net |-> walletNet], NoTick} :
        ticks' = [ticks EXCEPT ![k] = e]
  BY DEF TickIs, PollOver
<1>2. e.phase \in {"none", "asked", "loaded"} /\ (e.phase = "loaded" => e.net \in Nets)
  BY DEF NoTick
<1> QED BY <1>1, <1>2 DEF TicksTypeOK

LEMMA PollsTyped ==
  ASSUME SessionTypeOK, SessionNext PROVE PollsTypeOK'
<1> USE DEF walletVars, MaxFailures
<1> DEFINE Shown == /\ status \in {"idle", "connecting", "connected",
                                   "unsupported-network", "disconnected"}
                    /\ info \in Nets \cup {NoNet}
                    /\ failures \in 0..(MaxFailures - 1)
<1>0. Shown /\ TicksTypeOK /\ walletNet \in Nets
  BY DEF SessionTypeOK, NetworkTypeOK, PollsTypeOK, TicksTypeOK
<1>c. Shown' /\ TicksTypeOK' => PollsTypeOK' BY DEF PollsTypeOK, TicksTypeOK
<1>d. ASSUME UNCHANGED ticks PROVE TicksTypeOK' BY <1>0, <1>d DEF TicksTypeOK
<1>a. ASSUME NEW s, Disconnected(s)
      PROVE  status' = s /\ info' = NoNet /\ failures' = 0
  BY <1>a DEF Disconnected
<1>b. \A net : StatusFor(net) \in {"connected", "unsupported-network"}
  BY DEF StatusFor
<1>1. CASE Hydrate \/ WalletMoves \/ BeginTx \/ EndTx
  <2>1. UNCHANGED <<status, info, failures, ticks>>
    BY <1>1 DEF Hydrate, WalletMoves, BeginTx, EndTx
  <2> QED BY <1>0, <1>c, <1>d, <2>1
<1>2. CASE Connect \/ AutoConnect
  <2>1. UNCHANGED <<info, failures, ticks>> /\ status' = "connecting"
    BY <1>2 DEF Connect, AutoConnect, Begin
  <2> QED BY <1>0, <1>c, <1>d, <2>1
<1>3. CASE Disconnect
  <2>1. Disconnected("idle") /\ UNCHANGED ticks BY <1>3 DEF Disconnect
  <2> QED BY <1>a, <1>c, <1>d, <2>1
<1>4. ASSUME NEW k \in Polls, StartTick(k) \/ LoadTick(k) PROVE PollsTypeOK'
  <2>1. UNCHANGED <<status, info, failures>> BY <1>4 DEF StartTick, LoadTick
  <2>2. TicksTypeOK' BY <1>0, <1>4, TicksTyped DEF StartTick, LoadTick
  <2> QED BY <1>0, <1>c, <2>1, <2>2
<1>5. ASSUME NEW k \in Polls, ApplyTick(k) PROVE PollsTypeOK'
  <2>1. /\ failures' = 0 /\ info' = ticks[k].net /\ status' = StatusFor(ticks[k].net)
        /\ ticks[k].net \in Nets
    BY <1>0, <1>5 DEF ApplyTick, TicksTypeOK
  <2>2. TicksTypeOK' BY <1>0, <1>5, TicksTyped DEF ApplyTick
  <2> QED BY <1>b, <1>c, <2>1, <2>2
<1>6. ASSUME NEW k \in Polls, FailTick(k) PROVE PollsTypeOK'
  <2>1. TicksTypeOK' BY <1>0, <1>6, TicksTyped DEF FailTick
  <2>2. CASE Disconnected("disconnected") BY <1>a, <1>c, <2>1, <2>2
  <2>3. CASE /\ failures + 1 < MaxFailures /\ failures' = failures + 1
             /\ UNCHANGED <<status, info>>
    BY <1>0, <1>c, <2>1, <2>3
  <2> QED BY <1>6, <2>2, <2>3 DEF FailTick
<1>8. CASE ReloadSession
  <2>1. ticks' = NoTicks /\ status' = "idle" /\ info' = NoNet /\ failures' = 0
    BY <1>8 DEF ReloadSession
  <2>2. TicksTypeOK' BY <2>1 DEF TicksTypeOK, NoTicks, NoTick
  <2> QED BY <1>c, <2>1, <2>2
<1>9. ASSUME NEW net \in Supported, RequestSwitch(net) PROVE PollsTypeOK'
  <2>1. UNCHANGED ticks BY <1>9 DEF RequestSwitch, Begin
  <2>2. CASE UNCHANGED <<info, failures>> /\ status' \in {status, "connecting"}
    BY <1>0, <1>c, <1>d, <2>1, <2>2
  <2>3. CASE Disconnected("disconnected") BY <1>a, <1>c, <1>d, <2>1, <2>3
  <2> QED BY <1>9, <2>2, <2>3 DEF RequestSwitch, Begin
<1>10. ASSUME NEW g \in 1..MaxAttempts, Grant(g) \/ Load(g) PROVE PollsTypeOK'
  <2>1. UNCHANGED <<status, info, failures, ticks>> BY <1>10 DEF Grant, Load
  <2> QED BY <1>0, <1>c, <1>d, <2>1
<1>11. ASSUME NEW g \in 1..MaxAttempts, Adopt(g) PROVE PollsTypeOK'
  <2> DEFINE net == attempts[g].net
  <2>1. net \in Nets /\ UNCHANGED ticks
    BY <1>11 DEF Adopt, SessionTypeOK, AttemptsTypeOK
  <2>2. CASE UNCHANGED <<status, info, failures>> BY <1>0, <1>c, <1>d, <2>1, <2>2
  <2>3. CASE status' = StatusFor(net) /\ info' = net /\ failures' = 0
    BY <1>b, <1>c, <1>d, <2>1, <2>3
  <2> QED BY <1>11, <2>2, <2>3 DEF Adopt
<1>12. ASSUME NEW g \in 1..MaxAttempts, Break(g) PROVE PollsTypeOK'
  <2>1. UNCHANGED ticks BY <1>12 DEF Break
  <2>2. CASE Disconnected("disconnected") BY <1>a, <1>c, <1>d, <2>1, <2>2
  <2>3. CASE /\ status' \in {status, "idle"}
             /\ UNCHANGED <<info, failures>>
    BY <1>0, <1>c, <1>d, <2>1, <2>3
  <2> QED BY <1>12, <2>2, <2>3 DEF Break
<1> QED BY <1>1, <1>2, <1>3, <1>4, <1>5, <1>6, <1>8, <1>9, <1>10, <1>11, <1>12
        DEF SessionNext

LEMMA FlagsTyped ==
  ASSUME SessionTypeOK, SessionNext PROVE FlagsTypeOK'
<1> USE DEF FlagsTypeOK, walletVars
<1>0. FlagsTypeOK BY DEF SessionTypeOK
<1>1. CASE Hydrate \/ WalletMoves \/ BeginTx \/ EndTx
  BY <1>0, <1>1 DEF Hydrate, WalletMoves, BeginTx, EndTx
<1>2. CASE Connect \/ AutoConnect BY <1>0, <1>2 DEF Connect, AutoConnect, Begin
<1>3. CASE Disconnect BY <1>0, <1>3 DEF Disconnect, Disconnected
<1>4. ASSUME NEW k \in Polls, StartTick(k) \/ LoadTick(k) \/ ApplyTick(k) \/ FailTick(k)
      PROVE  FlagsTypeOK'
  BY <1>0, <1>4 DEF StartTick, LoadTick, ApplyTick, FailTick, Disconnected
<1>5. CASE ReloadSession BY <1>0, <1>5 DEF ReloadSession
<1>6. ASSUME NEW net \in Supported, RequestSwitch(net) PROVE FlagsTypeOK'
  BY <1>0, <1>6 DEF RequestSwitch, Begin, Disconnected
<1>7. ASSUME NEW g \in 1..MaxAttempts, Grant(g) \/ Load(g) PROVE FlagsTypeOK'
  BY <1>0, <1>7 DEF Grant, Load
<1>8. ASSUME NEW g \in 1..MaxAttempts, Adopt(g) PROVE FlagsTypeOK'
  BY <1>0, <1>8 DEF Adopt
<1>9. ASSUME NEW g \in 1..MaxAttempts, Break(g) PROVE FlagsTypeOK'
  BY <1>0, <1>9 DEF Break, Disconnected
<1> QED BY <1>1, <1>2, <1>3, <1>4, <1>5, <1>6, <1>7, <1>8, <1>9 DEF SessionNext

LEMMA SessionTypesKept ==
  ASSUME SessionTypeOK, SessionInv, SessionNext \/ UNCHANGED sessionVars
  PROVE  SessionTypeOK'
<1>1. CASE UNCHANGED sessionVars
  BY <1>1 DEF sessionVars, walletVars, networkVars, SessionTypeOK, AttemptsTypeOK,
       NetworkTypeOK, PollsTypeOK, FlagsTypeOK
<1>2. CASE SessionNext
  <2>1. switching' \in BOOLEAN /\ pendingTx' \in Nat
    BY <1>2, SwitchesWait DEF SessionInv
  <2> QED BY <1>2, <2>1, AttemptsTyped, NetworkTyped, PollsTyped, FlagsTyped
        DEF SessionTypeOK
<1> QED BY <1>1, <1>2

-----------------------------------------------------------------------------
(* Trading by itself *)

UserStep(t, o) ==
  \/ Submit(t, o) \/ Cancel(t, o) \/ Approve(t, o)
  \/ \E able \in BOOLEAN : Start(t, o, able)
TaskStep(a) ==
  \/ Call(a) \/ Disclose(a) \/ Accept(a) \/ TakeReply(a) \/ BreakOff(a)
  \/ Cancelled(a) \/ Tell(a) \/ Settled(a) \/ Check(a)
  \/ \E open \in BOOLEAN : Decide(a, open)
TabStep(t) ==
  \/ Deliver(t) \/ ApplyList(t) \/ SocketDrops(t) \/ SocketReturns(t)
  \/ PollList(t) \/ Reload(t)
OrderStep(o) == Answer(o) \/ BookMoves(o) \/ MatchSettles(o) \/ LapseQuote(o)

TradeNext ==
  \/ \E t \in Tabs : TabStep(t) \/ \E o \in Orders : UserStep(t, o)
  \/ \E a \in tasks : TaskStep(a)
  \/ \E x \in relayed : Land(x) \/ Discard(x)
  \/ \E o \in Orders : OrderStep(o)

Statuses == Closed \cup {Absent, "OPEN", "MATCHED", "SETTLING"}

LEMMA TradeTypesStart ==
  ASSUME NEW sockets \in SUBSET Tabs, TradeInit(sockets) PROVE TradeTypeOK
<1> USE DEF TradeInit
<1>1. news \in [Tabs -> Seq(Message)] OBVIOUS
<1>2. {view, started, inFlight} \subseteq [Tabs -> SUBSET Orders] OBVIOUS
<1>3. /\ shown \in [Tabs -> [Orders -> Statuses]]
      /\ snapshot \in [Tabs -> (SUBSET Orders) \cup {NoList}]
  BY DEF Statuses
<1> QED BY <1>1, <1>2, <1>3 DEF TradeTypeOK, Statuses

\* The broadcast of a message keeps the queues' type.
LEMMA BroadcastType ==
  ASSUME news \in [Tabs -> Seq(Message)], NEW o \in Orders, NEW whole \in BOOLEAN,
         NEW s \in Closed \cup {"OPEN", "MATCHED", "SETTLING", "quote"},
         Broadcast(o, s, whole)
  PROVE  news' \in [Tabs -> Seq(Message)]
<1>1. [order |-> o, status |-> s, whole |-> whole] \in Message BY DEF Message
<1> QED BY <1>1 DEF Broadcast

LEMMA BooksType ==
  ASSUME TradeTypeOK, NEW o \in Orders, NEW whole \in BOOLEAN,
         NEW s \in Closed \cup {"OPEN", "MATCHED", "SETTLING"}, Books(o, s, whole)
  PROVE  /\ book' \in [Orders -> Statuses]
         /\ news' \in [Tabs -> Seq(Message)]
         /\ UNCHANGED <<linked, shown, snapshot>>
<1>1. news' \in [Tabs -> Seq(Message)] BY BroadcastType DEF Books, TradeTypeOK
<1> QED BY <1>1 DEF Books, TradeTypeOK, Statuses

LEMMA TaskTypes ==
  ASSUME TradeTypeOK, NEW a \in tasks
  PROVE  /\ a \in Task /\ a.tab \in Tabs /\ a.order \in Orders /\ a.kind \in Kinds
         /\ \A phase \in Phases :
              /\ [a EXCEPT !.phase = phase] \in Task
              /\ (tasks \ {a}) \cup {[a EXCEPT !.phase = phase]} \subseteq Task
<1>1. a \in Task BY DEF TradeTypeOK
<1>2. a.tab \in Tabs /\ a.order \in Orders /\ a.kind \in Kinds BY <1>1 DEF Task
<1>3. ASSUME NEW phase \in Phases PROVE [a EXCEPT !.phase = phase] \in Task
  BY <1>1 DEF Task
<1> QED BY <1>1, <1>2, <1>3 DEF TradeTypeOK

LEMMA OpenedType ==
  ASSUME NEW t \in Tabs, NEW o \in Orders, NEW kind \in Kinds, NEW phase \in Phases
  PROVE  Opened(t, o, kind, phase) \in Task
  BY DEF Opened, Task

\* What Start opens.
AutoTask(t, o, able) ==
  [Opened(t, o, "settle", "reading") EXCEPT
     !.auto = TRUE, !.able = able, !.late = chain[o] = "FILLED"]

LEMMA AutoTaskFields ==
  ASSUME NEW t \in Tabs, NEW o \in Orders, NEW able \in BOOLEAN
  PROVE  /\ AutoTask(t, o, able) \in Task
         /\ AutoTask(t, o, able).order = o
         /\ AutoTask(t, o, able).kind = "settle"
         /\ AutoTask(t, o, able).phase = "reading"
         /\ AutoTask(t, o, able).late => chain[o] = "FILLED"
<1> DEFINE r == Opened(t, o, "settle", "reading")
<1>1. r \in Task /\ r.order = o /\ r.kind = "settle" /\ r.phase = "reading"
  BY OpenedType DEF Opened, Kinds, Phases
<1> HIDE DEF r
<1>2. AutoTask(t, o, able) =
        [[[r EXCEPT !.auto = TRUE] EXCEPT !.able = able]
           EXCEPT !.late = (chain[o] = "FILLED")]
  BY DEF AutoTask, r
<1>3. (chain[o] = "FILLED") \in BOOLEAN OBVIOUS
<1> QED BY <1>1, <1>2, <1>3 DEF Task

LEMMA UsersKeepTypes ==
  ASSUME TradeTypeOK, NEW t \in Tabs, NEW o \in Orders, UserStep(t, o)
  PROVE  TradeTypeOK'
<1> USE DEF TradeTypeOK, chainVars, matcherVars, storageVars, cacheVars
<1>1. CASE Submit(t, o) 
  <2>1. Opened(t, o, "create", "signing") \in Task BY OpenedType DEF Kinds, Phases
  <2>2. tasks' \subseteq Task BY <1>1, <2>1 DEF Submit
  <2> QED BY <1>1, <2>2 DEF Submit
<1>2. CASE Cancel(t, o) 
  <2>1. Opened(t, o, "cancel", "signing") \in Task BY OpenedType DEF Kinds, Phases
  <2>2. tasks' \subseteq Task BY <1>2, <2>1 DEF Cancel
  <2> QED BY <1>2, <2>2 DEF Cancel
<1>3. CASE Approve(t, o) 
  <2>1. Opened(t, o, "settle", "signing") \in Task BY OpenedType DEF Kinds, Phases
  <2>2. tasks' \subseteq Task BY <1>3, <2>1 DEF Approve
  <2> QED BY <1>3, <2>2 DEF Approve
<1>4. ASSUME NEW able \in BOOLEAN, Start(t, o, able) PROVE TradeTypeOK'
  <2>1. tasks' \subseteq Task
    <3>1. AutoTask(t, o, able) \in Task BY AutoTaskFields
    <3>2. tasks' = tasks \cup {AutoTask(t, o, able)} BY <1>4 DEF Start, AutoTask
    <3> QED BY <3>1, <3>2
  <2>2. {started', inFlight'} \subseteq [Tabs -> SUBSET Orders] BY <1>4 DEF Start
  <2> QED BY <1>4, <2>1, <2>2 DEF Start
<1> QED BY <1>1, <1>2, <1>3, <1>4 DEF UserStep

LEMMA TasksKeepTypes ==
  ASSUME TradeTypeOK, NEW a \in tasks, TaskStep(a) PROVE TradeTypeOK'
<1> DEFINE Set(phase) == (tasks \ {a}) \cup {[a EXCEPT !.phase = phase]}
<1> HIDE DEF Set
<1>a. a.tab \in Tabs /\ a.order \in Orders /\ a.kind \in Kinds BY TaskTypes
<1>b. \A phase \in Phases : Set(phase) \subseteq Task BY TaskTypes DEF Set
<1>c. ASSUME NEW phase, Moves(a, phase) PROVE tasks' = Set(phase) BY <1>c DEF Moves, Set
<1>d. Ended(a) => tasks' \subseteq Task BY DEF Ended, TradeTypeOK
<1> USE <1>a DEF TradeTypeOK, chainVars, matcherVars, storageVars, cacheVars
<1>1. CASE Call(a) 
  <2>1. tasks' \subseteq Task BY <1>1, <1>b, <1>c DEF Call, Phases
  <2>2. relayed' \subseteq [tab: Tabs, order: Orders, kind: Kinds] BY <1>1 DEF Call
  <2> QED BY <1>1, <2>1, <2>2 DEF Call
<1>2. CASE Disclose(a) 
  <2>1. tasks' \subseteq Task BY <1>2, <1>b, <1>c DEF Disclose, Phases
  <2> QED BY <1>2, <2>1 DEF Disclose
<1>3. CASE Accept(a)
  <2>1. Books(a.order, "OPEN", TRUE) BY <1>3 DEF Accept
  <2>2. /\ book' \in [Orders -> Statuses] /\ news' \in [Tabs -> Seq(Message)]
        /\ UNCHANGED <<linked, shown, snapshot>>
    BY <2>1, BooksType
  <2> QED BY <1>3, <2>2 DEF Accept, tabVars, Statuses
<1>4. CASE TakeReply(a) 
  <2>1. pending' \subseteq Orders /\ view' \in [Tabs -> SUBSET Orders]
    <3>1. CASE Pending(a.tab, pending \cup {a.order}) BY <3>1 DEF Pending
    <3>2. CASE UNCHANGED <<pending, view>> BY <3>2
    <3> QED BY <1>4, <3>1, <3>2 DEF TakeReply
  <2>2. tasks' \subseteq Task BY <1>4, <1>d DEF TakeReply
  <2> QED BY <1>4, <2>1, <2>2 DEF TakeReply, Kept
<1>5. CASE BreakOff(a)
  <2>1. inFlight' \in [Tabs -> SUBSET Orders]
    <3>1. CASE Unmarked(a.tab, a.order) BY <3>1 DEF Unmarked
    <3>2. CASE UNCHANGED inFlight BY <3>2
    <3> QED BY <1>5, <3>1, <3>2 DEF BreakOff
  <2>2. pending' = pending BY <1>5 DEF BreakOff, AfterFailure
  <2> QED BY <1>5, <2>1, <2>2 DEF BreakOff, Ended
<1>6. CASE Cancelled(a) 
  <2>1. tasks' \subseteq Task BY <1>6, <1>b, <1>c DEF Cancelled, Phases
  <2> QED BY <1>6, <2>1 DEF Cancelled
<1>7. CASE Tell(a)
  <2>1. CASE UNCHANGED <<book, cacheVars>> BY <1>7, <2>1 DEF Tell, Ended
  <2>2. CASE /\ book' = [book EXCEPT ![a.order] = "CANCELLED"]
             /\ Broadcast(a.order, "CANCELLED", TRUE)
             /\ shown' = [shown EXCEPT ![a.tab][a.order] = "CANCELLED"]
             /\ UNCHANGED <<linked, snapshot>>
    <3>1. "CANCELLED" \in Closed /\ TRUE \in BOOLEAN BY DEF Closed
    <3>2. news' \in [Tabs -> Seq(Message)] BY <2>2, <3>1, BroadcastType
    <3>3. book' \in [Orders -> Statuses] BY <2>2, <3>1 DEF Statuses
    <3>4. shown' \in [Tabs -> [Orders -> Statuses]] BY <2>2, <3>1 DEF Statuses
    <3> QED BY <1>7, <2>2, <3>2, <3>3, <3>4 DEF Tell, Ended, Statuses
  <2> QED BY <1>7, <2>1, <2>2 DEF Tell
<1>8. CASE Settled(a) 
  <2>1. pending' \subseteq Orders /\ view' \in [Tabs -> SUBSET Orders]
    BY <1>8 DEF Settled, Pending
  <2>2. inFlight' \in [Tabs -> SUBSET Orders] BY <1>8 DEF Settled, Unmarked
  <2>3. tasks' \subseteq Task BY <1>8, <1>d DEF Settled
  <2> QED BY <1>8, <2>1, <2>2, <2>3 DEF Settled
<1>9. CASE Check(a)
  <2>1. CASE Ended(a) /\ Unmarked(a.tab, a.order) /\ UNCHANGED <<book, cacheVars>>
    <3>1. inFlight' \in [Tabs -> SUBSET Orders] BY <2>1 DEF Unmarked
    <3> QED BY <1>9, <2>1, <3>1, <1>d DEF Check
  <2>2. CASE Moves(a, IF Fresh(a.order) = "OPEN" THEN "OPEN" ELSE "other")
    <3>1. tasks' \subseteq Task BY <2>2, <1>b, <1>c DEF Phases
    <3>2. /\ book' \in [Orders -> Statuses] /\ news' \in [Tabs -> Seq(Message)]
          /\ UNCHANGED <<linked, shown, snapshot>>
      <4>1. CASE Books(a.order, "FILLED", TRUE) BY <4>1, BooksType DEF Closed
      <4>2. CASE UNCHANGED <<book, cacheVars>> BY <4>2 DEF Statuses
      <4> QED BY <1>9, <4>1, <4>2 DEF Check
    <3>3. inFlight' \in [Tabs -> SUBSET Orders]
      <4>1. CASE Unmarked(a.tab, a.order) BY <4>1 DEF Unmarked
      <4>2. CASE UNCHANGED inFlight BY <4>2
      <4> QED BY <1>9, <4>1, <4>2 DEF Check
    <3> QED BY <1>9, <3>1, <3>2, <3>3 DEF Check, Statuses
  <2> QED BY <1>9, <2>1, <2>2 DEF Check
<1>10. ASSUME NEW open \in BOOLEAN, Decide(a, open) PROVE TradeTypeOK'
  <2>1. tasks' \subseteq Task BY <1>10, <1>b, <1>c, <1>d DEF Decide, Phases
  <2>2. inFlight' \in [Tabs -> SUBSET Orders]
    <3>1. CASE Unmarked(a.tab, a.order) BY <3>1 DEF Unmarked
    <3>2. CASE inFlight' = [inFlight EXCEPT ![a.tab] = StillMarked(a)]
      BY <3>2 DEF StillMarked
    <3> QED BY <1>10, <3>1, <3>2 DEF Decide
  <2>3. pending' \subseteq Orders /\ view' \in [Tabs -> SUBSET Orders]
    <3>1. CASE Pending(a.tab, pending \ {a.order}) BY <3>1 DEF Pending
    <3>2. CASE UNCHANGED <<pending, view>> BY <3>2
    <3> QED BY <1>10, <3>1, <3>2 DEF Decide
  <2> QED BY <1>10, <2>1, <2>2, <2>3 DEF Decide
<1> QED
  BY <1>1, <1>2, <1>3, <1>4, <1>5, <1>6, <1>7, <1>8, <1>9, <1>10 DEF TaskStep

LEMMA TabsKeepTypes ==
  ASSUME TradeTypeOK, NEW t \in Tabs, TabStep(t) PROVE TradeTypeOK'
<1> USE DEF TradeTypeOK, chainVars, matcherVars, storageVars, tabVars
<1>1. CASE Deliver(t)
  <2> DEFINE m == Head(news[t])
  <2>1. m \in Message /\ news' \in [Tabs -> Seq(Message)] BY <1>1 DEF Deliver
  <2>2. m.order \in Orders /\ m.status \in Statuses \cup {"quote"}
    BY <2>1 DEF Message, Statuses
  <2>3. CASE m.status = "quote"
    <3>1. pending' \subseteq Orders /\ view' \in [Tabs -> SUBSET Orders]
      <4>1. CASE Pending(t, pending \cup {m.order}) BY <2>2, <4>1 DEF Pending
      <4>2. CASE UNCHANGED <<pending, view>> BY <4>2
      <4> QED BY <1>1, <2>3, <4>1, <4>2 DEF Deliver
    <3> QED BY <1>1, <2>1, <2>3, <3>1 DEF Deliver
  <2>4. CASE m.status # "quote"
    <3>1. shown' \in [Tabs -> [Orders -> Statuses]]
      <4>1. m.status \in Statuses BY <2>2, <2>4
      <4>2. CASE shown' = [shown EXCEPT ![t][m.order] = m.status]
        BY <2>2, <4>1, <4>2 DEF Statuses
      <4>3. CASE shown' = shown BY <4>3 DEF Statuses
      <4> QED BY <1>1, <2>4, <4>2, <4>3 DEF Deliver, Status
    <3> QED BY <1>1, <2>1, <2>4, <3>1 DEF Deliver, Statuses
  <2> QED BY <2>3, <2>4
<1>2. CASE ApplyList(t)
  <2>1. shown' \in [Tabs -> [Orders -> Statuses]] BY <1>2 DEF ApplyList, Statuses
  <2> QED BY <1>2, <2>1 DEF ApplyList, Statuses
<1>3. CASE SocketDrops(t) BY <1>3 DEF SocketDrops
<1>4. CASE SocketReturns(t) BY <1>4 DEF SocketReturns
<1>5. CASE PollList(t) BY <1>5 DEF PollList, Resting
<1>6. CASE Reload(t)
  <2>1. interrupted' \subseteq Orders BY <1>6, TaskTypes DEF Reload
  <2>2. {view', started', inFlight'} \subseteq [Tabs -> SUBSET Orders]
    BY <1>6 DEF Reload
  <2>3. news' \in [Tabs -> Seq(Message)] BY <1>6 DEF Reload
  <2>4. shown' \in [Tabs -> [Orders -> Statuses]] BY <1>6 DEF Reload, Statuses
  <2>5. tasks' \subseteq Task /\ snapshot' \in [Tabs -> (SUBSET Orders) \cup {NoList}]
    BY <1>6 DEF Reload
  <2> QED BY <1>6, <2>1, <2>2, <2>3, <2>4, <2>5 DEF Reload, Statuses
<1> QED BY <1>1, <1>2, <1>3, <1>4, <1>5, <1>6 DEF TabStep

LEMMA OutsideKeepsTypes ==
  ASSUME TradeTypeOK,
         \/ \E x \in relayed : Land(x) \/ Discard(x)
         \/ \E o \in Orders : OrderStep(o)
  PROVE  TradeTypeOK'
<1> USE DEF TradeTypeOK, chainVars, matcherVars, storageVars, tabVars, cacheVars
<1>1. ASSUME NEW x \in relayed, Land(x) PROVE TradeTypeOK'
  <2>1. tasks' \subseteq Task
    <3>1. \A a \in tasks : [a EXCEPT !.phase = "landed"] \in Task
      BY TaskTypes DEF Phases
    <3> QED BY <1>1, <3>1 DEF Land
  <2>2. /\ chain' \in [Orders -> {Absent, "OPEN", "FILLED", "CANCELLED"}]
        /\ quote' \in [Orders -> {Absent, "held", "used", "lapsed"}]
    <3>1. x.order \in Orders /\ x.kind \in Kinds OBVIOUS
    <3>2. Includes(x) BY <1>1 DEF Land
    <3>3. CASE x.kind = "create" BY <3>1, <3>2, <3>3 DEF Includes
    <3>4. CASE x.kind = "cancel" BY <3>1, <3>2, <3>4 DEF Includes
    <3>5. CASE x.kind = "settle"
      <4>1. /\ chain' = [chain EXCEPT ![x.order] = "FILLED"]
            /\ quote' = [quote EXCEPT ![x.order] = "used"]
        BY <3>2, <3>5 DEF Includes
      <4> QED BY <3>1, <4>1
    <3> QED BY <3>1, <3>3, <3>4, <3>5 DEF Kinds
  <2> QED BY <1>1, <2>1, <2>2 DEF Land
<1>2. ASSUME NEW x \in relayed, Discard(x) PROVE TradeTypeOK' BY <1>2 DEF Discard
<1>3. ASSUME NEW o \in Orders, Answer(o) PROVE TradeTypeOK'
  <2>1. tasks' \subseteq Task
    <3>1. \A a \in tasks : [a EXCEPT !.phase = "answered"] \in Task
      BY TaskTypes DEF Phases
    <3> QED BY <1>3, <3>1 DEF Answer
  <2>2. news' \in [Tabs -> Seq(Message)]
    <3>1. CASE Broadcast(o, "quote", FALSE) BY <3>1, BroadcastType
    <3> QED BY <1>3, <3>1 DEF Answer
  <2>3. quote' \in [Orders -> {Absent, "held", "used", "lapsed"}] BY <1>3 DEF Answer
  <2>4. /\ offering' \subseteq Orders
        /\ UNCHANGED <<chain, relayed, book, witness, pending, view, started, inFlight,
                       linked, shown, snapshot, interrupted>>
    BY <1>3 DEF Answer
  <2> QED BY <2>1, <2>2, <2>3, <2>4
<1>4. ASSUME NEW o \in Orders, BookMoves(o) PROVE TradeTypeOK'
  <2>1. PICK s \in Closed \cup {"OPEN", "MATCHED", "SETTLING"}, whole \in BOOLEAN :
          Books(o, s, whole)
    BY <1>4 DEF BookMoves, Closed
  <2>2. /\ book' \in [Orders -> Statuses] /\ news' \in [Tabs -> Seq(Message)]
        /\ UNCHANGED <<linked, shown, snapshot>>
    BY <2>1, BooksType
  <2> QED BY <1>4, <2>2 DEF BookMoves, Statuses
<1>5. ASSUME NEW o \in Orders, MatchSettles(o) PROVE TradeTypeOK'
  BY <1>5 DEF MatchSettles
<1>6. ASSUME NEW o \in Orders, LapseQuote(o) PROVE TradeTypeOK' BY <1>6 DEF LapseQuote
<1> QED BY <1>1, <1>2, <1>3, <1>4, <1>5, <1>6 DEF OrderStep

LEMMA TradeTypesKept == ASSUME TradeTypeOK, TradeNext PROVE TradeTypeOK'
  BY UsersKeepTypes, TasksKeepTypes, TabsKeepTypes, OutsideKeepsTypes DEF TradeNext

-----------------------------------------------------------------------------
(* What a call under way knows of the chain *)

PhasesOf(kind) ==
  CASE kind = "create" -> {"signing", "sent", "landed", "disclosing", "answered"}
    [] kind = "cancel" -> {"signing", "sent", "landed", "telling"}
    [] kind = "settle" -> {"reading", "OPEN", "other", "signing", "sent", "landed"}

\* A call is in a phase of its kind; past the wallet, the chain shows its
\* effect; one that began after the order's fill never gets to the wallet.
Fits(a) ==
  /\ a.phase \in PhasesOf(a.kind)
  /\ a.late => chain[a.order] = "FILLED" /\ a.phase \in {"reading", "other"}
  /\ a.phase \in {"landed", "disclosing", "answered"} /\ a.kind = "create"
       => chain[a.order] # Absent
  /\ a.phase \in {"landed", "telling"} /\ a.kind = "cancel"
       => chain[a.order] = "CANCELLED"
  /\ a.phase = "landed" /\ a.kind = "settle" => chain[a.order] = "FILLED"

TasksFit == \A a \in tasks : Fits(a)

\* The chain's states of an order follow one another.
Onward(o) ==
  \/ chain'[o] = chain[o]
  \/ chain[o] = Absent /\ chain'[o] = "OPEN"
  \/ chain[o] = "OPEN" /\ chain'[o] \in {"FILLED", "CANCELLED"}

LEMMA ChainGoesOn == ASSUME TradeTypeOK, TradeNext PROVE \A o \in Orders : Onward(o)
<1> USE DEF Onward, chainVars
<1>1. ASSUME NEW t \in Tabs, NEW o \in Orders, UserStep(t, o) PROVE chain' = chain
  BY <1>1 DEF UserStep, Submit, Cancel, Approve, Start
<1>2. ASSUME NEW a \in tasks, TaskStep(a) PROVE chain' = chain
  BY <1>2 DEF TaskStep, Call, Disclose, Accept, TakeReply, BreakOff, Cancelled, Tell,
       Settled, Check, Decide
<1>3. ASSUME NEW t \in Tabs, TabStep(t) PROVE chain' = chain
  BY <1>3 DEF TabStep, Deliver, ApplyList, SocketDrops, SocketReturns, PollList, Reload
<1>4. ASSUME NEW x \in relayed, Land(x) PROVE \A o \in Orders : Onward(o)
  <2>1. x.order \in Orders /\ x.kind \in Kinds /\ Includes(x)
    BY <1>4 DEF TradeTypeOK, Land
  <2>2. CASE x.kind = "create" BY <2>1, <2>2 DEF Includes, TradeTypeOK
  <2>3. CASE x.kind = "cancel" BY <2>1, <2>3 DEF Includes, TradeTypeOK
  <2>4. CASE x.kind = "settle" BY <2>1, <2>4 DEF Includes, TradeTypeOK
  <2> QED BY <2>1, <2>2, <2>3, <2>4 DEF Kinds
<1>5. ASSUME NEW x \in relayed, Discard(x) PROVE chain' = chain BY <1>5 DEF Discard
<1>6. ASSUME NEW o \in Orders, OrderStep(o) PROVE \A p \in Orders : Onward(p)
  <2>1. CASE Answer(o) \/ BookMoves(o) \/ LapseQuote(o)
    BY <2>1 DEF Answer, BookMoves, LapseQuote
  <2>2. CASE MatchSettles(o) BY <2>2 DEF MatchSettles, TradeTypeOK
  <2> QED BY <1>6, <2>1, <2>2 DEF OrderStep
<1> QED BY <1>1, <1>2, <1>3, <1>4, <1>5, <1>6 DEF TradeNext

\* What fits, fits the chain's next state.
LEMMA FitsOn ==
  ASSUME NEW a \in Task, Fits(a), Onward(a.order) PROVE Fits(a)'
  BY DEF Fits, Onward, Absent

\* An action's own change of the calls under way.
OnlyFitting == \A b \in tasks' : b \in tasks \/ Fits(b)'

LEMMA UsersFit ==
  ASSUME TradeTypeOK, NEW t \in Tabs, NEW o \in Orders, UserStep(t, o)
  PROVE  OnlyFitting
<1> USE DEF Fits, PhasesOf
<1>1. CASE Submit(t, o) BY <1>1 DEF Submit, OnlyFitting, Opened
<1>2. CASE Cancel(t, o) BY <1>2 DEF Cancel, OnlyFitting, Opened
<1>3. CASE Approve(t, o) BY <1>3 DEF Approve, OnlyFitting, Opened
<1>4. ASSUME NEW able \in BOOLEAN, Start(t, o, able) PROVE OnlyFitting
  <2> SUFFICES ASSUME NEW b \in tasks', b \notin tasks PROVE Fits(b)'
    BY DEF OnlyFitting
  <2>1. chain' = chain BY <1>4 DEF Start, chainVars
  <2>2. b = AutoTask(t, o, able) BY <1>4 DEF Start, AutoTask
  <2>3. /\ b.order = o /\ b.kind = "settle" /\ b.phase = "reading"
        /\ b.late => chain[o] = "FILLED"
    BY <2>2, AutoTaskFields
  <2> QED BY <2>1, <2>3
<1> QED BY <1>1, <1>2, <1>3, <1>4 DEF UserStep

LEMMA CallsFit ==
  ASSUME TradeTypeOK, TasksFit, NEW a \in tasks, TaskStep(a) PROVE OnlyFitting
<1>1. a \in Task /\ Fits(a) BY DEF TradeTypeOK, TasksFit
<1>2. Ended(a) => OnlyFitting BY DEF Ended, OnlyFitting
<1>3. chain' = chain
  BY DEF TaskStep, Call, Disclose, Accept, TakeReply, BreakOff, Cancelled, Tell,
       Settled, Check, Decide, chainVars
<1>4. ASSUME NEW phase \in PhasesOf(a.kind), Moves(a, phase),
             a.late => phase = "other", phase # "landed",
             phase \in {"disclosing", "answered"} => chain[a.order] # Absent,
             phase = "telling" => chain[a.order] = "CANCELLED"
      PROVE  OnlyFitting
  <2> DEFINE b == [a EXCEPT !.phase = phase]
  <2>1. /\ b.kind = a.kind /\ b.order = a.order /\ b.late = a.late
        /\ b.phase = phase
    BY <1>1 DEF Task
  <2>2. Fits(b)' BY <1>1, <1>3, <1>4, <2>1 DEF Fits
  <2> QED BY <1>4, <2>2 DEF Moves, OnlyFitting
<1> USE DEF PhasesOf
<1>5. a.kind \in Kinds BY <1>1 DEF Task
<1>6. CASE Call(a)
  <2>1. Moves(a, "sent") /\ a.phase = "signing" BY <1>6 DEF Call
  <2>2. ~a.late BY <1>1, <2>1 DEF Fits
  <2>3. "sent" \in PhasesOf(a.kind) BY <1>5 DEF Kinds
  <2> QED BY <1>4, <2>1, <2>2, <2>3
<1>7. CASE Disclose(a)
  <2>1. Moves(a, "disclosing") /\ a.kind = "create" /\ a.phase = "landed"
    BY <1>7 DEF Disclose
  <2>2. ~a.late /\ chain[a.order] # Absent BY <1>1, <2>1 DEF Fits
  <2>3. "disclosing" \in PhasesOf(a.kind) BY <2>1
  <2> QED BY <1>4, <2>1, <2>2, <2>3
<1>8. CASE Accept(a) BY <1>8 DEF Accept, tabVars, OnlyFitting
<1>9. CASE TakeReply(a) \/ BreakOff(a) \/ Tell(a) \/ Settled(a)
  BY <1>2, <1>9 DEF TakeReply, BreakOff, Tell, Settled
<1>10. CASE Cancelled(a)
  <2>1. Moves(a, "telling") /\ a.kind = "cancel" /\ a.phase = "landed"
    BY <1>10 DEF Cancelled
  <2>2. ~a.late /\ chain[a.order] = "CANCELLED" BY <1>1, <2>1 DEF Fits
  <2>3. "telling" \in PhasesOf(a.kind) BY <2>1
  <2> QED BY <1>4, <2>1, <2>2, <2>3
<1>11. CASE Check(a)
  <2>1. a.phase = "reading" BY <1>11 DEF Check
  <2>2. a.kind = "settle" BY <1>1, <1>5, <2>1 DEF Fits, Kinds
  <2>3. a.late => Fresh(a.order) # "OPEN" BY <1>1 DEF Fits, Fresh, Unseen
  <2> DEFINE phase == IF Fresh(a.order) = "OPEN" THEN "OPEN" ELSE "other"
  <2>4. CASE Moves(a, phase)
    <3>1. phase \in PhasesOf(a.kind) /\ phase \in {"OPEN", "other"} BY <2>2
    <3>2. a.late => phase = "other" BY <2>3
    <3> HIDE DEF phase
    <3> QED BY <1>4, <2>4, <3>1, <3>2
  <2> QED BY <1>2, <1>11, <2>4 DEF Check
<1>12. ASSUME NEW open \in BOOLEAN, Decide(a, open) PROVE OnlyFitting
  <2>1. CASE Ended(a) BY <1>2, <2>1
  <2>2. CASE Moves(a, "signing") /\ a.phase = "OPEN"
    <3>1. ~a.late BY <1>1, <2>2 DEF Fits
    <3>2. "signing" \in PhasesOf(a.kind) BY <1>5 DEF Kinds
    <3> QED BY <1>4, <2>2, <3>1, <3>2
  <2> QED BY <1>12, <2>1, <2>2 DEF Decide
<1> QED BY <1>6, <1>7, <1>8, <1>9, <1>10, <1>11, <1>12 DEF TaskStep

\* A transaction that lands, and the matcher's answer, move calls on.
LEMMA OutsideFits ==
  ASSUME TradeTypeOK, TasksFit, \A o \in Orders : Onward(o),
         \/ \E x \in relayed : Land(x) \/ Discard(x)
         \/ \E o \in Orders : OrderStep(o)
  PROVE  OnlyFitting
<1>1. ASSUME NEW x \in relayed, Land(x) PROVE OnlyFitting
  <2> SUFFICES ASSUME NEW b \in tasks', b \notin tasks PROVE Fits(b)'
    BY DEF OnlyFitting
  <2>1. PICK a \in tasks :
          /\ b = [a EXCEPT !.phase = "landed"] /\ a.phase = "sent"
          /\ [tab |-> a.tab, order |-> a.order, kind |-> a.kind] = x
    BY <1>1 DEF Land
  <2>2. a \in Task /\ Fits(a) BY DEF TradeTypeOK, TasksFit
  <2>3. x.order = a.order /\ x.kind = a.kind BY <2>1
  <2>4. /\ b.kind = a.kind /\ b.order = a.order /\ b.late = a.late
        /\ b.phase = "landed"
    BY <2>1, <2>2 DEF Task
  <2>5. a.kind \in Kinds /\ a.order \in Orders /\ ~a.late
    BY <2>1, <2>2 DEF Fits, Task
  <2>6. Includes(x) BY <1>1 DEF Land
  <2>7. CASE a.kind = "create"
    <3>1. chain'[a.order] = "OPEN" BY <2>3, <2>5, <2>6, <2>7 DEF Includes, TradeTypeOK
    <3> QED BY <2>4, <2>5, <2>7, <3>1 DEF Fits, PhasesOf, Absent
  <2>8. CASE a.kind = "cancel"
    <3>1. chain'[a.order] = "CANCELLED"
      BY <2>3, <2>5, <2>6, <2>8 DEF Includes, TradeTypeOK
    <3> QED BY <2>4, <2>5, <2>8, <3>1 DEF Fits, PhasesOf
  <2>9. CASE a.kind = "settle"
    <3>1. chain'[a.order] = "FILLED"
      BY <2>3, <2>5, <2>6, <2>9 DEF Includes, TradeTypeOK
    <3> QED BY <2>4, <2>5, <2>9, <3>1 DEF Fits, PhasesOf
  <2> QED BY <2>5, <2>7, <2>8, <2>9 DEF Kinds
<1>2. ASSUME NEW x \in relayed, Discard(x) PROVE OnlyFitting
  BY <1>2 DEF Discard, tabVars, OnlyFitting
<1>3. ASSUME NEW o \in Orders, Answer(o) PROVE OnlyFitting
  <2> SUFFICES ASSUME NEW b \in tasks', b \notin tasks PROVE Fits(b)'
    BY DEF OnlyFitting
  <2>1. PICK a \in tasks : b = [a EXCEPT !.phase = "answered"] /\ a.phase = "disclosing"
    BY <1>3 DEF Answer
  <2>2. a \in Task /\ Fits(a) BY DEF TradeTypeOK, TasksFit
  <2>3. /\ b.kind = a.kind /\ b.order = a.order /\ b.late = a.late
        /\ b.phase = "answered"
    BY <2>1, <2>2 DEF Task
  <2>4. a.kind = "create" /\ ~a.late BY <2>1, <2>2 DEF Fits, PhasesOf, Task, Kinds
  <2>5. chain[a.order] # Absent /\ chain' = chain
    BY <1>3, <2>1, <2>2, <2>4 DEF Fits, Answer, chainVars
  <2> QED BY <2>3, <2>4, <2>5 DEF Fits, PhasesOf
<1>4. ASSUME NEW o \in Orders, BookMoves(o) \/ MatchSettles(o) \/ LapseQuote(o)
      PROVE  OnlyFitting
  BY <1>4 DEF BookMoves, MatchSettles, LapseQuote, tabVars, OnlyFitting
<1> QED BY <1>1, <1>2, <1>3, <1>4 DEF OrderStep

LEMMA TasksFitKept == ASSUME TradeTypeOK, TasksFit, TradeNext PROVE TasksFit'
<1>1. \A o \in Orders : Onward(o) BY ChainGoesOn
<1>2. OnlyFitting
  <2>1. ASSUME NEW t \in Tabs, TabStep(t) PROVE OnlyFitting
    BY <2>1 DEF TabStep, Deliver, ApplyList, SocketDrops, SocketReturns, PollList,
         Reload, tabVars, OnlyFitting
  <2> QED BY <1>1, <2>1, UsersFit, CallsFit, OutsideFits DEF TradeNext
<1>3. ASSUME NEW b \in tasks PROVE Fits(b)'
  <2>1. b \in Task /\ b.order \in Orders /\ Fits(b) BY DEF TradeTypeOK, Task, TasksFit
  <2> QED BY <1>1, <2>1, FitsOn
<1> QED BY <1>2, <1>3 DEF OnlyFitting, TasksFit

-----------------------------------------------------------------------------
(* One settlement of an order in a tab *)

\* A settlement under way is marked, and no other has its mark.
Exclusive ==
  /\ \A a \in tasks : a.kind = "settle" => a.order \in inFlight[a.tab]
  /\ OneSettlementPerTab

LEMMA ExclusiveMoves ==
  ASSUME TradeTypeOK, Exclusive, NEW a \in tasks, NEW phase, Moves(a, phase),
         UNCHANGED inFlight
  PROVE  Exclusive'
<1> DEFINE b == [a EXCEPT !.phase = phase]
<1>1. a \in Task BY DEF TradeTypeOK
<1>2. b.kind = a.kind /\ b.tab = a.tab /\ b.order = a.order BY <1>1 DEF Task
<1>3. tasks' = (tasks \ {a}) \cup {b} BY DEF Moves
<1> HIDE DEF b
<1> QED BY <1>2, <1>3 DEF Exclusive, OneSettlementPerTab

LEMMA ExclusiveEnds ==
  ASSUME TradeTypeOK, Exclusive, NEW a \in tasks, Ended(a),
         \/ UNCHANGED inFlight
         \/ a.kind = "settle" /\ Unmarked(a.tab, a.order)
  PROVE  Exclusive'
<1>1. a \in Task BY DEF TradeTypeOK
<1>2. tasks' = tasks \ {a} BY DEF Ended
<1>3. CASE UNCHANGED inFlight BY <1>2, <1>3 DEF Exclusive, OneSettlementPerTab
<1>4. CASE a.kind = "settle" /\ Unmarked(a.tab, a.order)
  <2>1. inFlight' = [inFlight EXCEPT ![a.tab] = @ \ {a.order}] BY <1>4 DEF Unmarked
  <2>2. ASSUME NEW b \in tasks', b.kind = "settle" PROVE b.order \in inFlight'[b.tab]
    <3>1. b \in tasks /\ b # a /\ b.tab \in Tabs BY <1>2 DEF TradeTypeOK, Task
    <3>2. b.order \in inFlight[b.tab] BY <2>2, <3>1 DEF Exclusive
    <3>3. ~(b.tab = a.tab /\ b.order = a.order)
      BY <1>4, <2>2, <3>1 DEF Exclusive, OneSettlementPerTab
    <3> QED BY <2>1, <3>1, <3>2, <3>3 DEF TradeTypeOK
  <2> QED BY <1>2, <2>2 DEF Exclusive, OneSettlementPerTab
<1> QED BY <1>3, <1>4

\* Calls that are moved on together, none of them twice.
LEMMA ExclusiveMap ==
  ASSUME TradeTypeOK, Exclusive, NEW Moved, NEW phase,
         tasks' = {IF a \in Moved THEN [a EXCEPT !.phase = phase] ELSE a : a \in tasks},
         UNCHANGED inFlight
  PROVE  Exclusive'
<1>1. ASSUME NEW b \in tasks'
      PROVE  \E a \in tasks :
               /\ b = IF a \in Moved THEN [a EXCEPT !.phase = phase] ELSE a
               /\ b.kind = a.kind /\ b.tab = a.tab /\ b.order = a.order
  <2>1. PICK a \in tasks : b = IF a \in Moved THEN [a EXCEPT !.phase = phase] ELSE a
    OBVIOUS
  <2>2. a \in Task BY DEF TradeTypeOK
  <2>3. b.kind = a.kind /\ b.tab = a.tab /\ b.order = a.order BY <2>1, <2>2 DEF Task
  <2> QED BY <2>1, <2>3
<1> QED BY <1>1 DEF Exclusive, OneSettlementPerTab

LEMMA ExclusiveOpens ==
  ASSUME TradeTypeOK, Exclusive, NEW t \in Tabs, NEW o \in Orders, NEW b,
         b.kind = "settle", b.tab = t, b.order = o, o \notin inFlight[t],
         inFlight' = [inFlight EXCEPT ![t] = @ \cup {o}],
         tasks' = tasks \cup {b}
  PROVE  Exclusive'
<1>1. \A a \in tasks : a.kind = "settle" => ~(a.tab = t /\ a.order = o)
  BY DEF Exclusive
<1>2. \A a \in tasks : a.tab \in Tabs BY DEF TradeTypeOK, Task
<1>3. \A u \in Tabs : inFlight[u] \subseteq inFlight'[u] BY DEF TradeTypeOK
<1>4. o \in inFlight'[t] BY DEF TradeTypeOK
<1> QED BY <1>1, <1>2, <1>3, <1>4 DEF Exclusive, OneSettlementPerTab

LEMMA ExclusiveKept == ASSUME TradeTypeOK, TasksFit, Exclusive, TradeNext PROVE Exclusive'
<1> USE DEF tabVars
<1>1. ASSUME NEW t \in Tabs, NEW o \in Orders, UserStep(t, o) PROVE Exclusive'
  <2>1. CASE Submit(t, o) \/ Cancel(t, o)
    <3>1. PICK kind \in {"create", "cancel"} :
            /\ tasks' = tasks \cup {Opened(t, o, kind, "signing")}
            /\ UNCHANGED inFlight
      BY <2>1 DEF Submit, Cancel
    <3>2. Opened(t, o, kind, "signing").kind # "settle" BY <3>1 DEF Opened
    <3> QED BY <3>1, <3>2 DEF Exclusive, OneSettlementPerTab
  <2>2. CASE Approve(t, o)
    <3> DEFINE b == Opened(t, o, "settle", "signing")
    <3>1. b.kind = "settle" /\ b.tab = t /\ b.order = o BY DEF Opened
    <3>2. /\ o \notin inFlight[t] /\ tasks' = tasks \cup {b}
          /\ inFlight' = [inFlight EXCEPT ![t] = @ \cup {o}]
      BY <2>2 DEF Approve, Marked
    <3> HIDE DEF b
    <3> QED BY <3>1, <3>2, ExclusiveOpens
  <2>3. ASSUME NEW able \in BOOLEAN, Start(t, o, able) PROVE Exclusive'
    <3> DEFINE b == [Opened(t, o, "settle", "reading") EXCEPT
                       !.auto = TRUE, !.able = able, !.late = chain[o] = "FILLED"]
    <3>1. b.kind = "settle" /\ b.tab = t /\ b.order = o BY DEF Opened
    <3>2. /\ o \notin inFlight[t] /\ tasks' = tasks \cup {b}
          /\ inFlight' = [inFlight EXCEPT ![t] = @ \cup {o}]
      BY <2>3 DEF Start, Marked
    <3> HIDE DEF b
    <3> QED BY <3>1, <3>2, ExclusiveOpens
  <2> QED BY <1>1, <2>1, <2>2, <2>3 DEF UserStep
<1>2. ASSUME NEW a \in tasks, TaskStep(a) PROVE Exclusive'
  <2>1. a.kind \in Kinds /\ a.phase \in PhasesOf(a.kind)
    BY DEF TasksFit, Fits, TradeTypeOK, Task
  <2>2. CASE Call(a) \/ Disclose(a) \/ Cancelled(a)
    <3>1. PICK phase : Moves(a, phase) /\ UNCHANGED inFlight
      BY <2>2 DEF Call, Disclose, Cancelled
    <3> QED BY <3>1, ExclusiveMoves
  <2>3. CASE Accept(a) BY <2>3 DEF Accept, Exclusive, OneSettlementPerTab
  <2>4. CASE TakeReply(a) \/ Tell(a)
    BY <2>4, ExclusiveEnds DEF TakeReply, Tell
  <2>5. CASE Settled(a) \/ BreakOff(a)
    BY <2>5, ExclusiveEnds DEF Settled, BreakOff
  <2>6. CASE Check(a)
    <3>1. a.kind = "settle" BY <2>1, <2>6 DEF Check, PhasesOf, Kinds
    <3>2. CASE Ended(a) /\ Unmarked(a.tab, a.order) BY <3>1, <3>2, ExclusiveEnds
    <3>3. CASE Moves(a, IF Fresh(a.order) = "OPEN" THEN "OPEN" ELSE "other")
               /\ UNCHANGED inFlight
      BY <3>3, ExclusiveMoves
    <3> QED BY <2>6, <3>2, <3>3 DEF Check
  <2>7. ASSUME NEW open \in BOOLEAN, Decide(a, open) PROVE Exclusive'
    <3>1. a.kind = "settle" BY <2>1, <2>7 DEF Decide, PhasesOf, Kinds
    <3>2. CASE Ended(a) /\ Unmarked(a.tab, a.order) BY <3>1, <3>2, ExclusiveEnds
    <3>3. CASE /\ Moves(a, "signing")
               /\ inFlight' = [inFlight EXCEPT ![a.tab] = StillMarked(a)]
      <4>1. inFlight' = inFlight BY <3>3 DEF StillMarked, TradeTypeOK
      <4> QED BY <3>3, <4>1, ExclusiveMoves
    <3> QED BY <2>7, <3>2, <3>3 DEF Decide
  <2> QED BY <1>2, <2>2, <2>3, <2>4, <2>5, <2>6, <2>7 DEF TaskStep
<1>3. ASSUME NEW t \in Tabs, TabStep(t) PROVE Exclusive'
  <2>1. CASE Reload(t)
    <3>1. /\ tasks' = {a \in tasks : a.tab # t}
          /\ inFlight' = [inFlight EXCEPT ![t] = {}]
      BY <2>1 DEF Reload
    <3>2. \A a \in tasks' : a \in tasks /\ a.tab \in Tabs /\ inFlight'[a.tab] = inFlight[a.tab]
      BY <3>1 DEF TradeTypeOK, Task
    <3> QED BY <3>2 DEF Exclusive, OneSettlementPerTab
  <2>2. CASE TabStep(t) /\ ~Reload(t)
    <3>1. UNCHANGED <<tasks, inFlight>>
      BY <2>2 DEF TabStep, Deliver, ApplyList, SocketDrops, SocketReturns, PollList
    <3> QED BY <3>1 DEF Exclusive, OneSettlementPerTab
  <2> QED BY <1>3, <2>1, <2>2
<1>4. ASSUME NEW x \in relayed, Land(x) \/ Discard(x) PROVE Exclusive'
  <2>1. CASE Discard(x) BY <2>1 DEF Discard, Exclusive, OneSettlementPerTab
  <2>2. CASE Land(x)
    <3> DEFINE Moved == {a \in tasks : a.phase = "sent" /\
                           [tab |-> a.tab, order |-> a.order, kind |-> a.kind] = x}
    <3>1. /\ tasks' = {IF a \in Moved THEN [a EXCEPT !.phase = "landed"] ELSE a :
                         a \in tasks}
          /\ UNCHANGED inFlight
      BY <2>2 DEF Land
    <3> HIDE DEF Moved
    <3> QED BY <3>1, ExclusiveMap
  <2> QED BY <1>4, <2>1, <2>2
<1>5. ASSUME NEW o \in Orders, OrderStep(o) PROVE Exclusive'
  <2>1. CASE BookMoves(o) \/ MatchSettles(o) \/ LapseQuote(o)
    BY <2>1 DEF BookMoves, MatchSettles, LapseQuote, Exclusive, OneSettlementPerTab
  <2>2. CASE Answer(o)
    <3> DEFINE Moved == {a \in tasks : a.order = o /\ a.phase = "disclosing"}
    <3>1. /\ tasks' = {IF a \in Moved THEN [a EXCEPT !.phase = "answered"] ELSE a :
                         a \in tasks}
          /\ UNCHANGED inFlight
      BY <2>2 DEF Answer
    <3> HIDE DEF Moved
    <3> QED BY <3>1, ExclusiveMap
  <2> QED BY <1>5, <2>1, <2>2 DEF OrderStep
<1> QED BY <1>1, <1>2, <1>3, <1>4, <1>5 DEF TradeNext

-----------------------------------------------------------------------------
(* Orders that are being created *)

\* Somebody will hear of the order, or knows that its creation broke off.
Followed(o) ==
  \/ o \in interrupted
  \/ \E a \in tasks : a.order = o /\ a.kind = "create" /\ a.phase # "signing"

CreationsFollowed ==
  /\ \A x \in relayed :
       x.kind = "create" /\ chain[x.order] = Absent => Followed(x.order)
  /\ \A o \in Orders : chain[o] = "OPEN" => o \in witness \/ Followed(o)

\* Creations that were relayed stay followed in every step but the last of one.
LEMMA StaysFollowed ==
  ASSUME TradeTypeOK, TasksFit, TradeNext, NEW o \in Orders, Followed(o)
  PROVE  \/ Followed(o)'
         \/ o \in witness' /\ chain'[o] = chain[o] /\ chain[o] # Absent
<1> DEFINE C(a) == a.order = o /\ a.kind = "create" /\ a.phase # "signing"
<1>1. CASE o \in interrupted
  <2>1. interrupted \subseteq interrupted'
    <3>1. ASSUME NEW t \in Tabs, NEW p \in Orders, UserStep(t, p)
          PROVE  interrupted' = interrupted
      BY <3>1 DEF UserStep, Submit, Cancel, Approve, Start
    <3>2. ASSUME NEW a \in tasks, TaskStep(a) PROVE interrupted \subseteq interrupted'
      BY <3>2 DEF TaskStep, Call, Disclose, Accept, TakeReply, BreakOff, Cancelled,
           Tell, Settled, Check, Decide
    <3>3. ASSUME NEW t \in Tabs, TabStep(t) PROVE interrupted \subseteq interrupted'
      BY <3>3 DEF TabStep, Deliver, ApplyList, SocketDrops, SocketReturns, PollList,
           Reload
    <3>4. ASSUME NEW x \in relayed, Land(x) \/ Discard(x) PROVE interrupted' = interrupted
      BY <3>4 DEF Land, Discard
    <3>5. ASSUME NEW p \in Orders, OrderStep(p) PROVE interrupted' = interrupted
      BY <3>5 DEF OrderStep, Answer, BookMoves, MatchSettles, LapseQuote
    <3> QED BY <3>1, <3>2, <3>3, <3>4, <3>5 DEF TradeNext
  <2> QED BY <1>1, <2>1 DEF Followed
<1>2. ASSUME NEW c \in tasks, C(c) PROVE Followed(o)' \/ (o \in witness' /\ chain'[o] = chain[o] /\ chain[o] # Absent)
  <2>1. c \in Task /\ c.phase \in PhasesOf("create") BY <1>2 DEF TradeTypeOK, TasksFit, Fits
  <2>2. ASSUME c \in tasks' PROVE Followed(o)' BY <1>2, <2>2 DEF Followed
  <2>3. ASSUME NEW phase, phase # "signing", [c EXCEPT !.phase = phase] \in tasks'
        PROVE  Followed(o)'
    <3> DEFINE b == [c EXCEPT !.phase = phase]
    <3>1. C(b) BY <1>2, <2>1, <2>3 DEF Task
    <3> HIDE DEF b
    <3> QED BY <2>3, <3>1 DEF Followed, b
  <2>4. ASSUME NEW t \in Tabs, NEW p \in Orders, UserStep(t, p) PROVE c \in tasks'
    BY <2>4 DEF UserStep, Submit, Cancel, Approve, Start
  <2>5. ASSUME NEW a \in tasks, TaskStep(a), a # c PROVE c \in tasks'
    BY <2>5 DEF TaskStep, Call, Disclose, Accept, TakeReply, BreakOff, Cancelled, Tell,
         Settled, Check, Decide, Moves, Ended, tabVars
  <2>6. ASSUME TaskStep(c)
        PROVE  Followed(o)' \/ (o \in witness' /\ chain'[o] = chain[o] /\ chain[o] # Absent)
    <3>1. CASE Call(c) \/ Cancelled(c) \/ Tell(c) \/ Settled(c) \/ Check(c)
               \/ \E open \in BOOLEAN : Decide(c, open)
      BY <1>2, <2>1, <3>1 DEF Call, Cancelled, Tell, Settled, Check, Decide, PhasesOf
    <3>2. CASE Disclose(c)
      <4>1. [c EXCEPT !.phase = "disclosing"] \in tasks' BY <3>2 DEF Disclose, Moves
      <4> QED BY <2>3, <4>1
    <3>3. CASE Accept(c) BY <2>2, <3>3 DEF Accept, tabVars
    <3>4. CASE TakeReply(c)
      <4>1. o \in witness' /\ chain' = chain BY <1>2, <3>4 DEF TakeReply, Kept, chainVars
      <4>2. chain[o] # Absent BY <1>2, <3>4 DEF TakeReply, TasksFit, Fits
      <4> QED BY <4>1, <4>2
    <3>5. CASE BreakOff(c)
      <4>1. o \in interrupted' BY <1>2, <3>5 DEF BreakOff
      <4> QED BY <4>1 DEF Followed
    <3> QED BY <2>6, <3>1, <3>2, <3>3, <3>4, <3>5 DEF TaskStep
  <2>7. ASSUME NEW t \in Tabs, TabStep(t) PROVE Followed(o)'
    <3>1. CASE Reload(t)
      <4>1. CASE c.tab = t
        <5>1. c.order \in interrupted' BY <1>2, <3>1, <4>1 DEF Reload
        <5> QED BY <1>2, <5>1 DEF Followed
      <4>2. CASE c.tab # t BY <2>2, <3>1, <4>2 DEF Reload
      <4> QED BY <4>1, <4>2
    <3>2. CASE ~Reload(t)
      BY <2>2, <2>7, <3>2 DEF TabStep, Deliver, ApplyList, SocketDrops, SocketReturns,
           PollList, tabVars
    <3> QED BY <3>1, <3>2
  <2>8. ASSUME NEW x \in relayed, Land(x) \/ Discard(x) PROVE Followed(o)'
    <3>1. CASE Discard(x) BY <2>2, <3>1 DEF Discard, tabVars
    <3>2. CASE Land(x)
      <4>1. c \in tasks' \/ [c EXCEPT !.phase = "landed"] \in tasks' BY <3>2 DEF Land
      <4> QED BY <2>2, <2>3, <4>1
    <3> QED BY <2>8, <3>1, <3>2
  <2>9. ASSUME NEW p \in Orders, OrderStep(p) PROVE Followed(o)'
    <3>1. CASE BookMoves(p) \/ MatchSettles(p) \/ LapseQuote(p)
      BY <2>2, <3>1 DEF BookMoves, MatchSettles, LapseQuote, tabVars
    <3>2. CASE Answer(p)
      <4>1. c \in tasks' \/ [c EXCEPT !.phase = "answered"] \in tasks'
        BY <3>2 DEF Answer
      <4> QED BY <2>2, <2>3, <4>1
    <3> QED BY <2>9, <3>1, <3>2 DEF OrderStep
  <2> QED BY <2>2, <2>4, <2>5, <2>6, <2>7, <2>8, <2>9 DEF TradeNext
<1> QED BY <1>1, <1>2 DEF Followed

\* What each step does to the stored details, and to what is relayed.
LEMMA DetailsKept ==
  ASSUME TradeTypeOK, TasksFit, TradeNext, NEW o \in witness
  PROVE  o \in witness' \/ (chain[o] = "CANCELLED" /\ chain' = chain)
<1> USE DEF storageVars
<1>1. ASSUME NEW t \in Tabs, NEW p \in Orders, UserStep(t, p) PROVE witness' = witness
  BY <1>1 DEF UserStep, Submit, Cancel, Approve, Start
<1>2. ASSUME NEW a \in tasks, TaskStep(a)
      PROVE  o \in witness' \/ (chain[o] = "CANCELLED" /\ chain' = chain)
  <2>1. CASE Cancelled(a)
    <3>1. chain[a.order] = "CANCELLED" /\ chain' = chain
      BY <2>1 DEF Cancelled, TasksFit, Fits, chainVars
    <3>2. witness' = witness \ {a.order} BY <2>1 DEF Cancelled
    <3> QED BY <3>1, <3>2
  <2>2. CASE ~Cancelled(a)
    BY <1>2, <2>2 DEF TaskStep, Call, Disclose, Accept, TakeReply, BreakOff, Tell,
         Settled, Check, Decide, Kept
  <2> QED BY <2>1, <2>2
<1>3. ASSUME NEW t \in Tabs, TabStep(t) PROVE witness' = witness
  BY <1>3 DEF TabStep, Deliver, ApplyList, SocketDrops, SocketReturns, PollList, Reload
<1>4. ASSUME NEW x \in relayed, Land(x) \/ Discard(x) PROVE witness' = witness
  BY <1>4 DEF Land, Discard
<1>5. ASSUME NEW p \in Orders, OrderStep(p) PROVE witness' = witness
  BY <1>5 DEF OrderStep, Answer, BookMoves, MatchSettles, LapseQuote
<1> QED BY <1>1, <1>2, <1>3, <1>4, <1>5 DEF TradeNext

LEMMA RelayedFollowed ==
  ASSUME TradeTypeOK, TradeNext, NEW x \in relayed', x \notin relayed
  PROVE  x.kind = "create" => Followed(x.order)'
<1> USE DEF chainVars
<1>1. ASSUME NEW t \in Tabs, NEW p \in Orders, UserStep(t, p) PROVE relayed' = relayed
  BY <1>1 DEF UserStep, Submit, Cancel, Approve, Start
<1>2. ASSUME NEW t \in Tabs, TabStep(t) PROVE relayed' = relayed
  BY <1>2 DEF TabStep, Deliver, ApplyList, SocketDrops, SocketReturns, PollList, Reload
<1>3. ASSUME NEW y \in relayed, Land(y) \/ Discard(y) PROVE relayed' \subseteq relayed
  BY <1>3 DEF Land, Discard
<1>4. ASSUME NEW p \in Orders, OrderStep(p) PROVE relayed' = relayed
  BY <1>4 DEF OrderStep, Answer, BookMoves, MatchSettles, LapseQuote
<1>5. ASSUME NEW a \in tasks, TaskStep(a)
      PROVE  x.kind = "create" => Followed(x.order)'
  <2>1. CASE Call(a)
    <3>1. x = [tab |-> a.tab, order |-> a.order, kind |-> a.kind] BY <2>1 DEF Call
    <3> DEFINE b == [a EXCEPT !.phase = "sent"]
    <3>2. b \in tasks' BY <2>1 DEF Call, Moves
    <3>3. b.order = a.order /\ b.kind = a.kind /\ b.phase = "sent"
      BY DEF TradeTypeOK, Task
    <3> HIDE DEF b
    <3> QED BY <3>1, <3>2, <3>3 DEF Followed
  <2>2. CASE ~Call(a)
    <3>1. relayed' = relayed
      BY <1>5, <2>2 DEF TaskStep, Disclose, Accept, TakeReply, BreakOff, Cancelled, Tell,
           Settled, Check, Decide
    <3> QED BY <3>1
  <2> QED BY <2>1, <2>2
<1> QED BY <1>1, <1>2, <1>3, <1>4, <1>5 DEF TradeNext

LEMMA CreationsKept ==
  ASSUME TradeTypeOK, TasksFit, CreationsFollowed, TradeNext
  PROVE  CreationsFollowed'
<1>1. \A o \in Orders : Onward(o) BY ChainGoesOn
<1>2. ASSUME NEW x \in relayed', x.kind = "create", chain'[x.order] = Absent
      PROVE  Followed(x.order)'
  <2>1. CASE x \notin relayed BY <1>2, <2>1, RelayedFollowed
  <2>2. CASE x \in relayed
    <3>1. x.order \in Orders BY <2>2 DEF TradeTypeOK
    <3>2. chain[x.order] = Absent BY <1>1, <1>2, <3>1 DEF Onward, Absent
    <3>3. Followed(x.order) BY <1>2, <2>2, <3>2 DEF CreationsFollowed
    <3> QED BY <3>1, <3>2, <3>3, StaysFollowed
  <2> QED BY <2>1, <2>2
<1>3. ASSUME NEW o \in Orders, chain'[o] = "OPEN" PROVE o \in witness' \/ Followed(o)'
  <2>1. CASE chain[o] = "OPEN"
    <3>1. CASE Followed(o) BY <3>1, StaysFollowed
    <3>2. CASE o \in witness BY <2>1, <3>2, DetailsKept
    <3> QED BY <2>1, <3>1, <3>2 DEF CreationsFollowed
  <2>2. CASE chain[o] = Absent
    <3>1. PICK x \in relayed : x.kind = "create" /\ x.order = o
      <4>1. chain'[o] # chain[o] BY <1>3, <2>2 DEF Absent
      <4>2. ASSUME NEW t \in Tabs, NEW p \in Orders, UserStep(t, p) PROVE FALSE
        BY <4>1, <4>2 DEF UserStep, Submit, Cancel, Approve, Start, chainVars
      <4>3. ASSUME NEW a \in tasks, TaskStep(a) PROVE FALSE
        BY <4>1, <4>3 DEF TaskStep, Call, Disclose, Accept, TakeReply, BreakOff,
             Cancelled, Tell, Settled, Check, Decide, chainVars
      <4>4. ASSUME NEW t \in Tabs, TabStep(t) PROVE FALSE
        BY <4>1, <4>4 DEF TabStep, Deliver, ApplyList, SocketDrops, SocketReturns,
             PollList, Reload, chainVars
      <4>5. ASSUME NEW p \in Orders, OrderStep(p) PROVE FALSE
        BY <1>3, <4>1, <4>5 DEF OrderStep, Answer, BookMoves, MatchSettles,
             LapseQuote, chainVars, TradeTypeOK
      <4>6. ASSUME NEW x \in relayed, Land(x) \/ Discard(x)
            PROVE  x.kind = "create" /\ x.order = o
        <5>1. Includes(x) BY <4>1, <4>6 DEF Land, Discard
        <5>2. x.kind \in Kinds /\ x.order \in Orders BY DEF TradeTypeOK
        <5>3. CASE x.kind = "create"
          BY <4>1, <5>1, <5>2, <5>3 DEF Includes, TradeTypeOK
        <5>4. CASE x.kind = "cancel"
          BY <1>3, <4>1, <5>1, <5>2, <5>4 DEF Includes, TradeTypeOK
        <5>5. CASE x.kind = "settle"
          BY <1>3, <4>1, <5>1, <5>2, <5>5 DEF Includes, TradeTypeOK
        <5> QED BY <5>2, <5>3, <5>4, <5>5 DEF Kinds
      <4> QED BY <4>2, <4>3, <4>4, <4>5, <4>6 DEF TradeNext
    <3>2. Followed(o) BY <2>2, <3>1 DEF CreationsFollowed
    <3> QED BY <3>2, StaysFollowed
  <2> QED BY <1>1, <1>3, <2>1, <2>2 DEF Onward
<1> QED BY <1>2, <1>3 DEF CreationsFollowed

-----------------------------------------------------------------------------
(* What is pending can be settled *)

LEMMA PendingGrows ==
  ASSUME TradeTypeOK, TradeNext, NEW o \in pending', o \notin pending
  PROVE  o \in witness'
<1> USE DEF storageVars
<1>1. ASSUME NEW t \in Tabs, NEW p \in Orders, UserStep(t, p) PROVE pending' = pending
  BY <1>1 DEF UserStep, Submit, Cancel, Approve, Start
<1>2. ASSUME NEW a \in tasks, TaskStep(a) PROVE o \in witness'
  <2>1. CASE TakeReply(a)
    <3>1. pending' \subseteq pending \cup {a.order} BY <2>1 DEF TakeReply, Pending
    <3>2. a.order \in witness' BY <2>1 DEF TakeReply, Kept
    <3> QED BY <3>1, <3>2
  <2>2. CASE ~TakeReply(a)
    <3>1. pending' \subseteq pending
      BY <1>2, <2>2 DEF TaskStep, Call, Disclose, Accept, BreakOff, AfterFailure,
           Cancelled, Tell, Settled, Check, Decide, Pending
    <3> QED BY <3>1
  <2> QED BY <2>1, <2>2
<1>3. ASSUME NEW t \in Tabs, TabStep(t) PROVE o \in witness'
  <2>1. CASE Deliver(t) BY <2>1 DEF Deliver, Pending, Ours
  <2>2. CASE ~Deliver(t)
    BY <1>3, <2>2 DEF TabStep, ApplyList, SocketDrops, SocketReturns, PollList, Reload
  <2> QED BY <2>1, <2>2
<1>4. ASSUME NEW x \in relayed, Land(x) \/ Discard(x) PROVE pending' = pending
  BY <1>4 DEF Land, Discard
<1>5. ASSUME NEW p \in Orders, OrderStep(p) PROVE pending' = pending
  BY <1>5 DEF OrderStep, Answer, BookMoves, MatchSettles, LapseQuote
<1> QED BY <1>1, <1>2, <1>3, <1>4, <1>5 DEF TradeNext

LEMMA PendingKept ==
  ASSUME TradeTypeOK, TasksFit, PendingIsOurs, TradeNext PROVE PendingIsOurs'
<1> SUFFICES ASSUME NEW o \in pending'
             PROVE  o \in witness' \/ chain'[o] \in {"FILLED", "CANCELLED"}
  BY DEF PendingIsOurs
<1>1. CASE o \notin pending BY <1>1, PendingGrows
<1>2. CASE o \in pending
  <2>1. o \in Orders BY <1>2 DEF TradeTypeOK
  <2>2. Onward(o) BY <2>1, ChainGoesOn
  <2>3. CASE o \in witness BY <2>3, DetailsKept
  <2>4. CASE chain[o] \in {"FILLED", "CANCELLED"} BY <2>2, <2>4 DEF Onward, Absent
  <2> QED BY <1>2, <2>3, <2>4 DEF PendingIsOurs
<1> QED BY <1>1, <1>2

-----------------------------------------------------------------------------
(* What the matcher knows and says *)

\* The matcher's states of an order: it never leaves a closed one, nor returns
\* to an open one.
BookOnward(o) ==
  \/ book'[o] = book[o]
  \/ book[o] = Absent /\ book'[o] = "OPEN"
  \/ book[o] \in {"OPEN", "MATCHED", "SETTLING"} /\ book'[o] \notin {Absent, "OPEN"}

LEMMA BooksOnward ==
  ASSUME TradeTypeOK, NEW p \in Orders, NEW s, NEW whole, Books(p, s, whole),
         s \notin {Absent, "OPEN"}, book[p] \in {"OPEN", "MATCHED", "SETTLING"}
  PROVE  \A o \in Orders : BookOnward(o)
  BY DEF Books, BookOnward, TradeTypeOK

LEMMA BookGoesOn == ASSUME TradeTypeOK, TradeNext PROVE \A o \in Orders : BookOnward(o)
<1> USE DEF matcherVars
<1>0. ASSUME UNCHANGED book PROVE \A o \in Orders : BookOnward(o) BY <1>0 DEF BookOnward
<1>1. ASSUME NEW t \in Tabs, NEW o \in Orders, UserStep(t, o) PROVE book' = book
  BY <1>1 DEF UserStep, Submit, Cancel, Approve, Start
<1>2. ASSUME NEW a \in tasks, TaskStep(a) PROVE \A o \in Orders : BookOnward(o)
  <2>1. a.order \in Orders BY TaskTypes
  <2>2. CASE Accept(a)
    BY <2>1, <2>2 DEF Accept, Books, BookOnward, TradeTypeOK
  <2>3. CASE Tell(a) /\ book' # book
    BY <2>1, <2>3 DEF Tell, BookOnward, TradeTypeOK, Absent
  <2>4. CASE Check(a) /\ book' # book
    <3>1. Books(a.order, "FILLED", TRUE) /\ Fresh(a.order) # book[a.order]
      BY <2>4 DEF Check
    <3>2. book[a.order] = "OPEN" BY <3>1 DEF Fresh, Unseen
    <3>3. PICK whole \in BOOLEAN : Books(a.order, "FILLED", whole) BY <3>1
    <3>4. "FILLED" \notin {Absent, "OPEN"} BY DEF Absent
    <3> QED BY <2>1, <3>2, <3>3, <3>4, BooksOnward
  <2>5. CASE ~Accept(a) /\ ~Tell(a) /\ ~Check(a)
    BY <1>0, <1>2, <2>5 DEF TaskStep, Call, Disclose, TakeReply, BreakOff, Cancelled,
         Settled, Decide
  <2> QED BY <1>0, <2>2, <2>3, <2>4, <2>5
<1>3. ASSUME NEW t \in Tabs, TabStep(t) PROVE book' = book
  BY <1>3 DEF TabStep, Deliver, ApplyList, SocketDrops, SocketReturns, PollList, Reload
<1>4. ASSUME NEW x \in relayed, Land(x) \/ Discard(x) PROVE book' = book
  BY <1>4 DEF Land, Discard
<1>5. ASSUME NEW p \in Orders, OrderStep(p) PROVE \A o \in Orders : BookOnward(o)
  <2>1. CASE BookMoves(p)
    <3>1. PICK s \in {"MATCHED", "EXPIRED", "SETTLING", "FILLED", "FAILED"}, whole \in BOOLEAN :
            Books(p, s, whole) /\ book[p] \in {"OPEN", "MATCHED", "SETTLING"}
      BY <2>1 DEF BookMoves, Unseen
    <3> QED BY <3>1, BooksOnward DEF Absent
  <2>2. CASE ~BookMoves(p)
    BY <1>0, <1>5, <2>2 DEF OrderStep, Answer, MatchSettles, LapseQuote
  <2> QED BY <2>1, <2>2
<1> QED BY <1>0, <1>1, <1>2, <1>3, <1>4, <1>5 DEF TradeNext

\* The messages on their way to a tab.
Told(t) == {news[t][i] : i \in DOMAIN news[t]}

\* The matcher says what is new: a quote of an order on offer, or a row's state.
SaysWhatIs(t, m) ==
  \/ m \in Told(t)
  \/ m.status = "quote" /\ m.order \in offering
  \/ m.status = book'[m.order] /\ m.status \in Statuses

LEMMA BroadcastTells ==
  ASSUME TradeTypeOK, NEW p \in Orders, NEW s, NEW whole, Broadcast(p, s, whole),
         NEW t \in Tabs, NEW m \in Told(t)'
  PROVE  m \in Told(t) \/ m = [order |-> p, status |-> s, whole |-> whole]
<1>1. news[t] \in Seq(Message) BY DEF TradeTypeOK
<1>2. news'[t] \in {news[t], Append(news[t], [order |-> p, status |-> s, whole |-> whole])}
  BY DEF Broadcast
<1>3. PICK i \in DOMAIN news'[t] : m = news'[t][i] BY DEF Told
<1>4. CASE news'[t] = news[t] BY <1>3, <1>4 DEF Told
<1>5. CASE news'[t] = Append(news[t], [order |-> p, status |-> s, whole |-> whole])
  <2>1. i \in 1..Len(news[t]) + 1 BY <1>1, <1>3, <1>5
  <2>2. CASE i \in 1..Len(news[t]) BY <1>1, <1>3, <1>5, <2>2 DEF Told
  <2>3. CASE i = Len(news[t]) + 1 BY <1>1, <1>3, <1>5, <2>3
  <2> QED BY <1>1, <2>1, <2>2, <2>3
<1> QED BY <1>2, <1>4, <1>5

LEMMA BooksTell ==
  ASSUME TradeTypeOK, NEW p \in Orders, NEW s \in Statuses, NEW whole, Books(p, s, whole),
         NEW t \in Tabs, NEW m \in Told(t)'
  PROVE  SaysWhatIs(t, m)
<1>1. m \in Told(t) \/ m = [order |-> p, status |-> s, whole |-> whole]
  BY BroadcastTells DEF Books
<1>2. book'[p] = s BY DEF Books, TradeTypeOK
<1> QED BY <1>1, <1>2 DEF SaysWhatIs

LEMMA NewsSaid ==
  ASSUME TradeTypeOK, TradeNext, NEW t \in Tabs, NEW m \in Told(t)'
  PROVE  SaysWhatIs(t, m)
<1> USE DEF cacheVars
<1>0. ASSUME UNCHANGED news PROVE SaysWhatIs(t, m) BY <1>0 DEF SaysWhatIs, Told
<1>a. {"OPEN", "MATCHED", "SETTLING", "EXPIRED", "FILLED", "FAILED", "CANCELLED"}
        \subseteq Statuses
  BY DEF Statuses, Closed
<1>1. ASSUME NEW u \in Tabs, NEW o \in Orders, UserStep(u, o) PROVE news' = news
  BY <1>1 DEF UserStep, Submit, Cancel, Approve, Start
<1>2. ASSUME NEW a \in tasks, TaskStep(a) PROVE SaysWhatIs(t, m)
  <2>1. a.order \in Orders BY TaskTypes
  <2>2. CASE Accept(a)
    <3>1. Books(a.order, "OPEN", TRUE) BY <2>2 DEF Accept
    <3> QED BY <1>a, <2>1, <3>1, BooksTell
  <2>3. CASE Tell(a) /\ news' # news
    <3>1. /\ book' = [book EXCEPT ![a.order] = "CANCELLED"]
          /\ Broadcast(a.order, "CANCELLED", TRUE)
      BY <2>3 DEF Tell
    <3>2. m \in Told(t) \/ m = [order |-> a.order, status |-> "CANCELLED", whole |-> TRUE]
      BY <2>1, <3>1, BroadcastTells
    <3>3. book'[a.order] = "CANCELLED" BY <2>1, <3>1 DEF TradeTypeOK
    <3> QED BY <1>a, <3>2, <3>3 DEF SaysWhatIs
  <2>4. CASE Check(a) /\ news' # news
    <3>1. Books(a.order, "FILLED", TRUE) BY <2>4 DEF Check
    <3> QED BY <1>a, <2>1, <3>1, BooksTell
  <2>5. CASE ~Accept(a) /\ ~Tell(a) /\ ~Check(a)
    BY <1>0, <1>2, <2>5 DEF TaskStep, Call, Disclose, TakeReply, BreakOff, Cancelled,
         Settled, Decide
  <2> QED BY <1>0, <2>2, <2>3, <2>4, <2>5
<1>3. ASSUME NEW u \in Tabs, TabStep(u) PROVE SaysWhatIs(t, m)
  <2>1. CASE Deliver(u)
    <3>1. CASE u = t
      <4>1. news[t] \in Seq(Message) /\ news[t] # <<>> /\ news'[t] = Tail(news[t])
        BY <2>1, <3>1 DEF Deliver, TradeTypeOK
      <4>2. \A i \in DOMAIN news'[t] :
              news'[t][i] = news[t][i + 1] /\ i + 1 \in DOMAIN news[t]
        BY <4>1
      <4> QED BY <4>2 DEF Told, SaysWhatIs
    <3>2. CASE u # t
      <4>1. news'[t] = news[t] BY <2>1, <3>2 DEF Deliver, TradeTypeOK
      <4> QED BY <4>1 DEF Told, SaysWhatIs
    <3> QED BY <3>1, <3>2
  <2>2. CASE SocketDrops(u) \/ Reload(u)
    <3>1. news' = [news EXCEPT ![u] = <<>>] BY <2>2 DEF SocketDrops, Reload
    <3>2. news'[t] = news[t] \/ news'[t] = <<>> BY <3>1 DEF TradeTypeOK
    <3> QED BY <3>2 DEF Told, SaysWhatIs
  <2>3. CASE ApplyList(u) \/ SocketReturns(u) \/ PollList(u)
    BY <1>0, <2>3 DEF ApplyList, SocketReturns, PollList
  <2> QED BY <1>3, <2>1, <2>2, <2>3 DEF TabStep
<1>4. ASSUME NEW x \in relayed, Land(x) \/ Discard(x) PROVE news' = news
  BY <1>4 DEF Land, Discard
<1>5. ASSUME NEW p \in Orders, OrderStep(p) PROVE SaysWhatIs(t, m)
  <2>1. CASE BookMoves(p)
    <3>1. PICK s \in {"MATCHED", "EXPIRED", "SETTLING", "FILLED", "FAILED"}, whole \in BOOLEAN :
            Books(p, s, whole)
      BY <2>1 DEF BookMoves
    <3> QED BY <1>a, <3>1, BooksTell
  <2>2. CASE Answer(p) /\ news' # news
    <3>1. p \in offering /\ Broadcast(p, "quote", FALSE) BY <2>2 DEF Answer
    <3>2. m \in Told(t) \/ m = [order |-> p, status |-> "quote", whole |-> FALSE]
      BY <3>1, BroadcastTells
    <3> QED BY <3>1, <3>2 DEF SaysWhatIs
  <2>3. CASE MatchSettles(p) \/ LapseQuote(p)
    BY <1>0, <2>3 DEF MatchSettles, LapseQuote
  <2> QED BY <1>0, <1>5, <2>1, <2>2, <2>3 DEF OrderStep
<1> QED BY <1>0, <1>1, <1>2, <1>3, <1>4, <1>5 DEF TradeNext

-----------------------------------------------------------------------------
(* What a tab shows of an order that is over *)

\* Messages of an order's end are true when they arrive.
EndsTold ==
  \A t \in Tabs : \A m \in Told(t) : m.status \in Closed => book[m.order] = m.status

ShownInv == EndsTold /\ ShownClosedIsClosed

LEMMA ClosedStays ==
  ASSUME TradeTypeOK, TradeNext, NEW o \in Orders, book[o] \in Closed
  PROVE  book'[o] = book[o]
<1>1. BookOnward(o) BY BookGoesOn
<1> QED BY <1>1 DEF BookOnward, Closed, Absent

LEMMA ToldTypes ==
  ASSUME TradeTypeOK, NEW t \in Tabs, NEW m \in Told(t)
  PROVE  m \in Message /\ m.order \in Orders /\ m.status \in Statuses \cup {"quote"}
<1>1. m \in Message BY DEF Told, TradeTypeOK
<1> QED BY <1>1 DEF Message, Statuses

LEMMA EndsToldKept ==
  ASSUME TradeTypeOK, TradeNext, EndsTold PROVE EndsTold'
<1> SUFFICES ASSUME NEW t \in Tabs, NEW m \in Told(t)', m.status \in Closed
             PROVE  book'[m.order] = m.status
  BY DEF EndsTold
<1>1. SaysWhatIs(t, m) BY NewsSaid
<1>2. CASE m \in Told(t)
  <2>1. m.order \in Orders /\ book[m.order] = m.status BY <1>2, ToldTypes DEF EndsTold
  <2> QED BY <2>1, ClosedStays
<1>3. m.status # "quote" BY DEF Closed
<1> QED BY <1>1, <1>2, <1>3 DEF SaysWhatIs

\* An entry of a cache is kept, or is not of an end, or is what was told, or is
\* the answer to the tab's own cancellation.
LEMMA ShownGrows ==
  ASSUME TradeTypeOK, TradeNext, NEW t \in Tabs, NEW o \in Orders
  PROVE  \/ shown'[t][o] = shown[t][o] \/ shown'[t][o] \notin Closed
         \/ shown'[t][o] = book'[o]
         \/ \E m \in Told(t) : m.order = o /\ m.status = shown'[t][o]
<1> DEFINE Goal == \/ shown'[t][o] = shown[t][o] \/ shown'[t][o] \notin Closed
                   \/ shown'[t][o] = book'[o]
                   \/ \E m \in Told(t) : m.order = o /\ m.status = shown'[t][o]
<1> USE DEF cacheVars
<1>0. ASSUME UNCHANGED shown PROVE Goal BY <1>0
<1>1. ASSUME NEW u \in Tabs, NEW p \in Orders, UserStep(u, p) PROVE shown' = shown
  BY <1>1 DEF UserStep, Submit, Cancel, Approve, Start
<1>2. ASSUME NEW a \in tasks, TaskStep(a) PROVE Goal
  <2>1. CASE Tell(a) /\ shown' # shown
    <3>1. /\ shown' = [shown EXCEPT ![a.tab][a.order] = "CANCELLED"]
          /\ book' = [book EXCEPT ![a.order] = "CANCELLED"]
      BY <2>1 DEF Tell
    <3> QED BY <3>1, TaskTypes DEF TradeTypeOK
  <2>2. CASE ~Tell(a)
    <3>1. shown' = shown
      BY <1>2, <2>2 DEF TaskStep, Call, Disclose, Accept, TakeReply, BreakOff, Cancelled,
           Settled, Check, Decide, Books
    <3> QED BY <3>1
  <2> QED BY <2>1, <2>2
<1>3. ASSUME NEW u \in Tabs, TabStep(u) PROVE Goal
  <2>1. CASE Deliver(u)
    <3> DEFINE m == Head(news[u])
    <3>1. news[u] \in Seq(Message) /\ news[u] # <<>> BY <2>1 DEF Deliver, TradeTypeOK
    <3>2. m = news[u][1] /\ 1 \in DOMAIN news[u] BY <3>1
    <3>3. m \in Told(u) BY <3>2 DEF Told
    <3>4. m.order \in Orders BY <3>3, ToldTypes
    <3>5. shown' = shown \/ shown' = [shown EXCEPT ![u][m.order] = m.status]
      BY <2>1 DEF Deliver, Status
    <3> HIDE DEF m
    <3>6. CASE shown' = [shown EXCEPT ![u][m.order] = m.status]
      <4>1. shown'[t][o] = shown[t][o]
              \/ (u = t /\ m.order = o /\ shown'[t][o] = m.status)
        BY <3>4, <3>6 DEF TradeTypeOK
      <4> QED BY <3>3, <4>1
    <3> QED BY <3>5, <3>6
  <2>2. CASE ApplyList(u)
    <3>1. shown'[t][o] \in {shown[t][o], "OPEN"} BY <2>2 DEF ApplyList, TradeTypeOK
    <3> QED BY <3>1 DEF Closed
  <2>3. CASE Reload(u)
    <3>1. shown'[t][o] \in {shown[t][o], Absent} BY <2>3 DEF Reload, TradeTypeOK
    <3> QED BY <3>1 DEF Closed, Absent
  <2>4. CASE SocketDrops(u) \/ SocketReturns(u) \/ PollList(u)
    BY <2>4 DEF SocketDrops, SocketReturns, PollList
  <2> QED BY <1>3, <2>1, <2>2, <2>3, <2>4 DEF TabStep
<1>4. ASSUME NEW x \in relayed, Land(x) \/ Discard(x) PROVE shown' = shown
  BY <1>4 DEF Land, Discard
<1>5. ASSUME NEW p \in Orders, OrderStep(p) PROVE shown' = shown
  BY <1>5 DEF OrderStep, Answer, BookMoves, MatchSettles, LapseQuote, Books
<1> QED BY <1>0, <1>1, <1>2, <1>3, <1>4, <1>5 DEF TradeNext

LEMMA ShownKept == ASSUME TradeTypeOK, ShownInv, TradeNext PROVE ShownInv'
<1>1. EndsTold' BY EndsToldKept DEF ShownInv
<1>2. ASSUME NEW t \in Tabs, NEW o \in Orders, shown'[t][o] \in Closed
      PROVE  book'[o] = shown'[t][o]
  <2>1. CASE shown'[t][o] = shown[t][o]
    BY <1>2, <2>1, ClosedStays DEF ShownInv, ShownClosedIsClosed
  <2>2. CASE shown'[t][o] # book'[o]
             /\ \E m \in Told(t) : m.order = o /\ m.status = shown'[t][o]
    <3>1. book[o] = shown'[t][o] BY <1>2, <2>2 DEF ShownInv, EndsTold
    <3> QED BY <1>2, <3>1, ClosedStays
  <2> QED BY <1>2, <2>1, <2>2, ShownGrows
<1> QED BY <1>1, <1>2 DEF ShownInv, ShownClosedIsClosed

-----------------------------------------------------------------------------
(* Quotes that wait for approval *)

\* The orders the matcher has had a row for.
Booked == {o \in Orders : book[o] # Absent}

\* Whatever a profile holds of a quote is of an order the matcher has accepted.
BookedFirst ==
  /\ offering \cup witness \cup pending \subseteq Booked
  /\ \A t \in Tabs : view[t] \subseteq Booked
  /\ \A o \in Orders : quote[o] # Absent => o \in Booked
  /\ \A o \in Booked : chain[o] # Absent
  /\ \A a \in tasks : a.kind = "settle" \/ a.phase = "answered" => a.order \in Booked
  /\ \A t \in Tabs : \A m \in Told(t) : m.order \in Booked

\* While an order is on offer, nobody has heard of a quote for it.
OfferComesFirst ==
  \A o \in offering :
    /\ quote[o] = Absent /\ o \notin witness
    /\ \A a \in tasks : a.phase = "answered" => a.order # o

\* An effect that has read that its order is no longer open is right.
OthersOver == \A a \in tasks : a.phase = "other" => book[a.order] # "OPEN"

QuotesInv == BookedFirst /\ OfferComesFirst /\ OthersOver /\ QuoteIsKept

LEMMA BookedStays == ASSUME TradeTypeOK, TradeNext PROVE Booked \subseteq Booked'
<1> SUFFICES ASSUME NEW o \in Orders, book[o] # Absent PROVE book'[o] # Absent
  BY DEF Booked
<1>1. BookOnward(o) BY BookGoesOn
<1> QED BY <1>1 DEF BookOnward

\* What grows, and from where.
LEMMA DetailsFrom ==
  ASSUME TradeTypeOK, TradeNext
  PROVE  /\ \A o \in witness' : o \in witness
                 \/ \E a \in tasks : a.phase = "answered" /\ a.order = o
         /\ \A o \in offering' : o \in offering \/ book'[o] # Absent
         /\ \A o \in Orders : quote'[o] # Absent => quote[o] # Absent \/ o \in offering
<1> USE DEF storageVars, matcherVars
<1>1. ASSUME NEW t \in Tabs, NEW p \in Orders, UserStep(t, p)
      PROVE  UNCHANGED <<witness, offering, quote>>
  BY <1>1 DEF UserStep, Submit, Cancel, Approve, Start
<1>2. ASSUME NEW a \in tasks, TaskStep(a)
      PROVE  /\ \A o \in witness' : o \in witness
                     \/ \E b \in tasks : b.phase = "answered" /\ b.order = o
             /\ \A o \in offering' : o \in offering \/ book'[o] # Absent
             /\ UNCHANGED quote
  <2>1. CASE Accept(a)
    <3>1. a.order \in Orders BY TaskTypes
    <3>2. book'[a.order] # Absent BY <2>1, <3>1 DEF Accept, Books, TradeTypeOK, Absent
    <3> QED BY <2>1, <3>2 DEF Accept
  <2>2. CASE TakeReply(a) BY <2>2 DEF TakeReply, Kept
  <2>3. CASE ~Accept(a) /\ ~TakeReply(a)
    BY <1>2, <2>3 DEF TaskStep, Call, Disclose, BreakOff, Cancelled, Tell, Settled,
         Check, Decide
  <2> QED BY <2>1, <2>2, <2>3
<1>3. ASSUME NEW t \in Tabs, TabStep(t) PROVE UNCHANGED <<witness, offering, quote>>
  BY <1>3 DEF TabStep, Deliver, ApplyList, SocketDrops, SocketReturns, PollList, Reload
<1>4. ASSUME NEW x \in relayed, Land(x) \/ Discard(x)
      PROVE  /\ UNCHANGED <<witness, offering>>
             /\ \A o \in Orders : quote'[o] # Absent => quote[o] # Absent
  <2>1. CASE Discard(x) BY <2>1 DEF Discard
  <2>2. CASE Land(x)
    <3>1. UNCHANGED <<witness, offering>> /\ Includes(x) BY <2>2 DEF Land
    <3>2. x.kind \in Kinds BY DEF TradeTypeOK
    <3>3. quote' = quote \/ (quote[x.order] = "held"
                             /\ quote' = [quote EXCEPT ![x.order] = "used"])
      BY <3>1, <3>2 DEF Includes, Kinds
    <3> QED BY <3>1, <3>3 DEF TradeTypeOK, Absent
  <2> QED BY <1>4, <2>1, <2>2
<1>5. ASSUME NEW p \in Orders, OrderStep(p)
      PROVE  /\ witness' = witness /\ offering' \subseteq offering
             /\ \A o \in Orders : quote'[o] # Absent => quote[o] # Absent \/ o \in offering
  <2>1. CASE Answer(p) BY <2>1 DEF Answer, TradeTypeOK
  <2>2. CASE LapseQuote(p) BY <2>2 DEF LapseQuote, TradeTypeOK, Absent
  <2>3. CASE BookMoves(p) \/ MatchSettles(p) BY <2>3 DEF BookMoves, MatchSettles
  <2> QED BY <1>5, <2>1, <2>2, <2>3 DEF OrderStep
<1> QED BY <1>1, <1>2, <1>3, <1>4, <1>5 DEF TradeNext

LEMMA PendingFrom ==
  ASSUME TradeTypeOK, TradeNext
  PROVE  /\ \A o \in pending' : \/ o \in pending
                                \/ \E a \in tasks : a.phase = "answered" /\ a.order = o
                                \/ \E t \in Tabs : \E m \in Told(t) : m.order = o
         /\ \A t \in Tabs : view'[t] \subseteq view[t] \cup pending \cup pending'
<1> DEFINE From(o) == \/ o \in pending
                      \/ \E a \in tasks : a.phase = "answered" /\ a.order = o
                      \/ \E t \in Tabs : \E m \in Told(t) : m.order = o
           Goal == /\ \A o \in pending' : From(o)
                   /\ \A t \in Tabs : view'[t] \subseteq view[t] \cup pending \cup pending'
<1> USE DEF storageVars, tabVars
<1>0. ASSUME UNCHANGED <<pending, view>> PROVE Goal BY <1>0
<1>a. ASSUME NEW t \in Tabs, NEW entries, Pending(t, entries), \A o \in entries : From(o)
      PROVE  Goal
  BY <1>a DEF Pending, TradeTypeOK
<1>1. ASSUME NEW t \in Tabs, NEW p \in Orders, UserStep(t, p)
      PROVE  UNCHANGED <<pending, view>>
  BY <1>1 DEF UserStep, Submit, Cancel, Approve, Start
<1>2. ASSUME NEW a \in tasks, TaskStep(a) PROVE Goal
  <2>1. a.tab \in Tabs BY TaskTypes
  <2>2. CASE Pending(a.tab, pending \ {a.order}) BY <1>a, <2>1, <2>2
  <2>3. CASE TakeReply(a) /\ Pending(a.tab, pending \cup {a.order})
    <3>1. From(a.order) BY <2>3 DEF TakeReply
    <3>2. \A o \in pending \cup {a.order} : From(o) BY <3>1
    <3> HIDE DEF Goal, From
    <3> QED BY <1>a, <2>1, <2>3, <3>2
  <2>4. CASE UNCHANGED <<pending, view>> BY <1>0, <2>4
  <2>5. \/ Pending(a.tab, pending \ {a.order}) \/ UNCHANGED <<pending, view>>
        \/ TakeReply(a) /\ Pending(a.tab, pending \cup {a.order})
    BY <1>2 DEF TaskStep, Call, Disclose, Accept, TakeReply, BreakOff, AfterFailure,
         Cancelled, Tell, Settled, Check, Decide
  <2> QED BY <2>2, <2>3, <2>4, <2>5
<1>3. ASSUME NEW t \in Tabs, TabStep(t) PROVE Goal
  <2>1. CASE Deliver(t)
    <3> DEFINE m == Head(news[t])
    <3>1. news[t] \in Seq(Message) /\ news[t] # <<>> BY <2>1 DEF Deliver, TradeTypeOK
    <3>2. m = news[t][1] /\ 1 \in DOMAIN news[t] BY <3>1
    <3>3. m \in Told(t) BY <3>2 DEF Told
    <3>4. From(m.order) BY <3>3
    <3>5. \/ Pending(t, pending \cup {m.order}) \/ UNCHANGED <<pending, view>>
      BY <2>1 DEF Deliver
    <3>6. \A o \in pending \cup {m.order} : From(o) BY <3>4
    <3> HIDE DEF Goal, From, m
    <3> QED BY <1>0, <1>a, <3>5, <3>6
  <2>2. CASE Reload(t) BY <2>2 DEF Reload, TradeTypeOK
  <2>3. CASE ApplyList(t) \/ SocketDrops(t) \/ SocketReturns(t) \/ PollList(t)
    BY <1>0, <2>3 DEF ApplyList, SocketDrops, SocketReturns, PollList
  <2> QED BY <1>3, <2>1, <2>2, <2>3 DEF TabStep
<1>4. ASSUME NEW x \in relayed, Land(x) \/ Discard(x) PROVE UNCHANGED <<pending, view>>
  BY <1>4 DEF Land, Discard
<1>5. ASSUME NEW p \in Orders, OrderStep(p) PROVE UNCHANGED <<pending, view>>
  BY <1>5 DEF OrderStep, Answer, BookMoves, MatchSettles, LapseQuote
<1> QED BY <1>0, <1>1, <1>2, <1>3, <1>4, <1>5 DEF TradeNext

\* A call has another's kind and order, and its phase unless it has moved on
\* legally; or a settlement of what the tab has seen was opened.
Continues(b) ==
  \E a \in tasks :
    /\ b.kind = a.kind /\ b.order = a.order
    /\ b.phase = "answered" => a.phase = "answered" \/ a.order \in offering \ offering'
    /\ b.phase = "other" => a.phase = "other" \/ (a.kind = "settle" /\ book'[a.order] # "OPEN")

Opens(b) ==
  /\ b.phase \in {"signing", "reading"}
  /\ b.kind = "settle" => b.order \in view[b.tab] /\ b.tab \in Tabs

LEMMA CallMovesOn ==
  ASSUME TradeTypeOK, NEW a \in tasks, NEW phase, Moves(a, phase), phase # "answered",
         phase = "other" => a.kind = "settle" /\ book'[a.order] # "OPEN"
  PROVE  \A b \in tasks' : Continues(b)
<1> DEFINE c == [a EXCEPT !.phase = phase]
<1>1. a \in Task BY DEF TradeTypeOK
<1>2. c.kind = a.kind /\ c.order = a.order /\ c.phase = phase BY <1>1 DEF Task
<1>3. tasks' = (tasks \ {a}) \cup {c} BY DEF Moves
<1> HIDE DEF c
<1> QED BY <1>2, <1>3 DEF Continues

LEMMA CallsGoOn ==
  ASSUME TradeTypeOK, TasksFit, TradeNext, NEW b \in tasks'
  PROVE  Continues(b) \/ Opens(b)
<1> USE DEF tabVars
<1>0. ASSUME tasks' \subseteq tasks PROVE Continues(b) BY <1>0 DEF Continues
<1>a. ASSUME NEW t, NEW o, NEW kind, tasks' = tasks \cup {Opened(t, o, kind, "signing")},
             kind = "settle" => o \in view[t] /\ t \in Tabs
      PROVE  Continues(b) \/ Opens(b)
  <2>1. CASE b \in tasks BY <2>1 DEF Continues
  <2>2. CASE b = Opened(t, o, kind, "signing") BY <1>a, <2>2 DEF Opened, Opens
  <2> QED BY <1>a, <2>1, <2>2
<1>1. ASSUME NEW t \in Tabs, NEW o \in Orders, UserStep(t, o)
      PROVE  Continues(b) \/ Opens(b)
  <2>1. CASE Submit(t, o) \/ Cancel(t, o)
    <3>1. PICK kind \in {"create", "cancel"} :
            tasks' = tasks \cup {Opened(t, o, kind, "signing")}
      BY <2>1 DEF Submit, Cancel
    <3> QED BY <1>a, <3>1
  <2>2. CASE Approve(t, o) BY <1>a, <2>2 DEF Approve
  <2>3. ASSUME NEW able \in BOOLEAN, Start(t, o, able) PROVE Continues(b) \/ Opens(b)
    <3> DEFINE c == [Opened(t, o, "settle", "reading") EXCEPT
                       !.auto = TRUE, !.able = able, !.late = chain[o] = "FILLED"]
    <3>1. c.tab = t /\ c.order = o /\ c.phase = "reading" BY DEF Opened
    <3>2. tasks' = tasks \cup {c} /\ o \in view[t] BY <2>3 DEF Start
    <3> HIDE DEF c
    <3> QED BY <3>1, <3>2 DEF Continues, Opens
  <2> QED BY <1>1, <2>1, <2>2, <2>3 DEF UserStep
<1>2. ASSUME NEW a \in tasks, TaskStep(a) PROVE Continues(b)
  <2>1. a.kind \in Kinds /\ a.order \in Orders /\ a.phase \in PhasesOf(a.kind)
    BY DEF TasksFit, Fits, TradeTypeOK, Task
  <2>2. CASE Ended(a) BY <1>0, <2>2 DEF Ended
  <2>3. CASE Accept(a) BY <1>0, <2>3 DEF Accept
  <2>4. CASE Call(a) \/ Disclose(a) \/ Cancelled(a)
    <3>1. PICK phase \in {"sent", "disclosing", "telling"} : Moves(a, phase)
      BY <2>4 DEF Call, Disclose, Cancelled
    <3> QED BY <3>1, CallMovesOn
  <2>5. ASSUME Check(a), ~Ended(a) PROVE Continues(b)
    <3> DEFINE phase == IF Fresh(a.order) = "OPEN" THEN "OPEN" ELSE "other"
    <3>1. Moves(a, phase) BY <2>5 DEF Check
    <3>2. phase # "answered" OBVIOUS
    <3>3. a.kind = "settle" BY <2>1, <2>5 DEF Check, PhasesOf, Kinds
    <3>4. book'[a.order] = Fresh(a.order)
      <4>1. CASE Fresh(a.order) = book[a.order] /\ book' = book BY <4>1
      <4>2. CASE Fresh(a.order) # book[a.order] /\ Books(a.order, "FILLED", TRUE)
        BY <2>1, <4>2 DEF Books, Fresh, TradeTypeOK
      <4> QED BY <2>5, <4>1, <4>2 DEF Check
    <3>5. phase = "other" => book'[a.order] # "OPEN" BY <3>4
    <3> HIDE DEF phase
    <3> QED BY <3>1, <3>2, <3>3, <3>5, CallMovesOn
  <2>6. ASSUME NEW open \in BOOLEAN, Decide(a, open), ~Ended(a) PROVE Continues(b)
    <3>1. Moves(a, "signing") BY <2>6 DEF Decide
    <3> QED BY <3>1, CallMovesOn
  <2> QED
    BY <1>2, <2>2, <2>3, <2>4, <2>5, <2>6 DEF TaskStep, TakeReply, BreakOff, Tell, Settled
<1>3. ASSUME NEW t \in Tabs, TabStep(t) PROVE Continues(b)
  BY <1>0, <1>3 DEF TabStep, Deliver, ApplyList, SocketDrops, SocketReturns, PollList,
       Reload
<1>4. ASSUME NEW x \in relayed, Land(x) \/ Discard(x) PROVE Continues(b)
  <2>1. CASE Discard(x) BY <1>0, <2>1 DEF Discard
  <2>2. CASE Land(x)
    <3>1. PICK a \in tasks : b = a \/ b = [a EXCEPT !.phase = "landed"]
      BY <2>2 DEF Land
    <3>2. a \in Task BY DEF TradeTypeOK
    <3>3. b.kind = a.kind /\ b.order = a.order /\ b.phase \in {a.phase, "landed"}
      BY <3>1, <3>2 DEF Task
    <3> QED BY <3>3 DEF Continues
  <2> QED BY <1>4, <2>1, <2>2
<1>5. ASSUME NEW p \in Orders, OrderStep(p) PROVE Continues(b)
  <2>1. CASE Answer(p)
    <3>1. PICK a \in tasks : \/ b = a
                             \/ b = [a EXCEPT !.phase = "answered"] /\ a.order = p
      BY <2>1 DEF Answer
    <3>2. a \in Task BY DEF TradeTypeOK
    <3>3. /\ b.kind = a.kind /\ b.order = a.order
          /\ b.phase = a.phase \/ (b.phase = "answered" /\ a.order = p)
      BY <3>1, <3>2 DEF Task
    <3>4. p \in offering \ offering' BY <2>1 DEF Answer
    <3> QED BY <3>3, <3>4 DEF Continues
  <2>2. CASE ~Answer(p)
    BY <1>0, <1>5, <2>2 DEF OrderStep, BookMoves, MatchSettles, LapseQuote
  <2> QED BY <2>1, <2>2
<1> QED BY <1>0, <1>1, <1>2, <1>3, <1>4, <1>5 DEF TradeNext

LEMMA BookedFirstKept ==
  ASSUME TradeTypeOK, TasksFit, BookedFirst, TradeNext PROVE BookedFirst'
<1>1. Booked \subseteq Booked' BY BookedStays
<1>2. \A a \in tasks : a.phase = "answered" \/ a.kind = "settle" => a.order \in Booked'
  BY <1>1 DEF BookedFirst
<1>3. \A t \in Tabs : \A m \in Told(t) : m.order \in Booked' BY <1>1 DEF BookedFirst
<1>4. \A o \in offering \cup witness \cup pending : o \in Booked'
  BY <1>1 DEF BookedFirst
<1>5. ASSUME NEW o \in witness' PROVE o \in Booked' BY <1>2, <1>4, DetailsFrom
<1>6. ASSUME NEW o \in offering' PROVE o \in Booked'
  <2>1. TradeTypeOK' BY TradeTypesKept
  <2>2. o \in Orders BY <2>1 DEF TradeTypeOK
  <2>3. CASE book'[o] # Absent BY <2>2, <2>3 DEF Booked
  <2> QED BY <1>4, <2>3, DetailsFrom
<1>7. ASSUME NEW o \in pending' PROVE o \in Booked' BY <1>2, <1>3, <1>4, PendingFrom
<1>8. ASSUME NEW t \in Tabs, NEW o \in view'[t] PROVE o \in Booked'
  <2>1. CASE o \in view[t] BY <1>1, <2>1 DEF BookedFirst
  <2>2. o \in view[t] \cup pending \cup pending' BY PendingFrom
  <2> QED BY <1>4, <1>7, <2>1, <2>2
<1>9. ASSUME NEW o \in Orders, quote'[o] # Absent PROVE o \in Booked'
  <2>1. CASE quote[o] # Absent BY <1>1, <2>1 DEF BookedFirst
  <2> QED BY <1>4, <1>9, <2>1, DetailsFrom
<1>10. ASSUME NEW o \in Booked' PROVE chain'[o] # Absent
  <2>1. o \in Orders /\ Onward(o) BY <1>10, ChainGoesOn DEF Booked
  <2>2. CASE o \in Booked
    <3>1. chain[o] # Absent BY <2>2 DEF BookedFirst
    <3> QED BY <2>1, <3>1 DEF Onward, Absent
  <2>3. CASE o \notin Booked
    <3>1. book[o] = Absent /\ book'[o] # Absent BY <2>1, <2>3 DEF Booked
    <3>2. PICK a \in tasks : Accept(a) /\ a.order = o
      <4> USE DEF matcherVars
      <4>1. ASSUME NEW t \in Tabs, NEW p \in Orders, UserStep(t, p) PROVE FALSE
        BY <3>1, <4>1 DEF UserStep, Submit, Cancel, Approve, Start
      <4>2. ASSUME NEW t \in Tabs, TabStep(t) PROVE FALSE
        BY <3>1, <4>2 DEF TabStep, Deliver, ApplyList, SocketDrops, SocketReturns,
             PollList, Reload
      <4>3. ASSUME NEW x \in relayed, Land(x) \/ Discard(x) PROVE FALSE
        BY <3>1, <4>3 DEF Land, Discard
      <4>4. ASSUME NEW p \in Orders, OrderStep(p) PROVE FALSE
        <5>1. CASE BookMoves(p)
          <6>1. book[p] # Absent /\ \A q \in Orders : q # p => book'[q] = book[q]
            BY <5>1 DEF BookMoves, Books, Unseen, TradeTypeOK, Absent
          <6> QED BY <2>1, <3>1, <6>1
        <5>2. CASE ~BookMoves(p)
          BY <3>1, <4>4, <5>2 DEF OrderStep, Answer, MatchSettles, LapseQuote
        <5> QED BY <5>1, <5>2
      <4>5. ASSUME NEW a \in tasks, TaskStep(a) PROVE Accept(a) /\ a.order = o
        <5>1. a.order \in Orders BY TaskTypes
        <5>2. CASE Accept(a) BY <2>1, <3>1, <5>1, <5>2 DEF Accept, Books, TradeTypeOK
        <5>3. CASE Tell(a) /\ book' # book
          BY <2>1, <3>1, <5>1, <5>3 DEF Tell, TradeTypeOK, Absent
        <5>4. CASE Check(a) /\ book' # book
          <6>1. Books(a.order, "FILLED", TRUE) /\ book[a.order] = "OPEN"
            BY <5>4 DEF Check, Fresh, Unseen
          <6> QED BY <2>1, <3>1, <5>1, <6>1 DEF Books, TradeTypeOK, Absent
        <5>5. CASE ~Accept(a) /\ ~Tell(a) /\ ~Check(a)
          BY <3>1, <4>5, <5>5 DEF TaskStep, Call, Disclose, TakeReply, BreakOff,
               Cancelled, Settled, Decide
        <5> QED BY <3>1, <5>2, <5>3, <5>4, <5>5
      <4> QED BY <4>1, <4>2, <4>3, <4>4, <4>5 DEF TradeNext
    <3>3. chain[o] = "OPEN" /\ chain' = chain BY <3>2 DEF Accept, chainVars
    <3> QED BY <3>3 DEF Absent
  <2> QED BY <2>2, <2>3
<1>11. ASSUME NEW b \in tasks', b.kind = "settle" \/ b.phase = "answered"
       PROVE  b.order \in Booked'
  <2>1. CASE Continues(b) BY <1>2, <1>4, <1>11, <2>1 DEF Continues
  <2>2. CASE Opens(b)
    <3>1. b.tab \in Tabs /\ b.order \in view[b.tab] BY <1>11, <2>2 DEF Opens
    <3> QED BY <1>1, <3>1 DEF BookedFirst
  <2> QED BY <2>1, <2>2, CallsGoOn
<1>12. ASSUME NEW t \in Tabs, NEW m \in Told(t)' PROVE m.order \in Booked'
  <2>1. SaysWhatIs(t, m) BY NewsSaid
  <2>2. CASE m.status = book'[m.order] /\ m.status \in Statuses /\ m \notin Told(t)
    <3>1. TradeTypeOK' BY TradeTypesKept
    <3>2. m \in Message BY <3>1 DEF Told, TradeTypeOK
    <3>3. m.order \in Orders /\ m.status # Absent BY <3>2 DEF Message, Closed, Absent
    <3> QED BY <2>2, <3>3 DEF Booked
  <2> QED BY <1>3, <1>4, <2>1, <2>2 DEF SaysWhatIs
<1> QED BY <1>5, <1>6, <1>7, <1>8, <1>9, <1>10, <1>11, <1>12 DEF BookedFirst

LEMMA OfferFirstKept ==
  ASSUME TradeTypeOK, TasksFit, BookedFirst, OfferComesFirst, TradeNext
  PROVE  OfferComesFirst'
<1> SUFFICES ASSUME NEW o \in offering'
             PROVE  /\ quote'[o] = Absent /\ o \notin witness'
                    /\ \A b \in tasks' : b.phase = "answered" => b.order # o
  BY DEF OfferComesFirst
<1>0. o \in Orders
  <2>1. TradeTypeOK' BY TradeTypesKept
  <2> QED BY <2>1 DEF TradeTypeOK
<1>1. /\ quote[o] = Absent /\ o \notin witness
      /\ \A a \in tasks : a.phase = "answered" => a.order # o
  <2>1. CASE o \in offering BY <2>1 DEF OfferComesFirst
  <2>2. CASE o \notin offering
    <3>1. book[o] = Absent
      <4> USE DEF matcherVars
      <4>1. ASSUME NEW a \in tasks, TaskStep(a) PROVE book[o] = Absent
        <5>1. Accept(a) /\ a.order = o
          BY <2>2, <4>1 DEF TaskStep, Call, Disclose, Accept, TakeReply, BreakOff,
               Cancelled, Tell, Settled, Check, Decide
        <5> QED BY <5>1 DEF Accept
      <4>2. ASSUME NEW t \in Tabs, NEW p \in Orders, UserStep(t, p) PROVE FALSE
        BY <2>2, <4>2 DEF UserStep, Submit, Cancel, Approve, Start
      <4>3. ASSUME NEW t \in Tabs, TabStep(t) PROVE FALSE
        BY <2>2, <4>3 DEF TabStep, Deliver, ApplyList, SocketDrops, SocketReturns,
             PollList, Reload
      <4>4. ASSUME NEW x \in relayed, Land(x) \/ Discard(x) PROVE FALSE
        BY <2>2, <4>4 DEF Land, Discard
      <4>5. ASSUME NEW p \in Orders, OrderStep(p) PROVE FALSE
        BY <2>2, <4>5 DEF OrderStep, Answer, BookMoves, MatchSettles, LapseQuote
      <4> QED BY <4>1, <4>2, <4>3, <4>4, <4>5 DEF TradeNext
    <3>2. o \notin Booked BY <3>1 DEF Booked
    <3> QED BY <1>0, <3>2 DEF BookedFirst
  <2> QED BY <2>1, <2>2
<1>2. o \notin witness' BY <1>1, DetailsFrom
<1>3. ASSUME NEW b \in tasks', b.phase = "answered" PROVE b.order # o
  <2>1. Continues(b) BY <1>3, CallsGoOn DEF Opens
  <2> QED BY <1>1, <1>3, <2>1 DEF Continues
<1>4. quote'[o] = Absent
  <2> USE <1>0, <1>1 DEF matcherVars
  <2>1. ASSUME NEW t \in Tabs, NEW p \in Orders, UserStep(t, p) PROVE quote' = quote
    BY <2>1 DEF UserStep, Submit, Cancel, Approve, Start
  <2>2. ASSUME NEW a \in tasks, TaskStep(a) PROVE quote' = quote
    BY <2>2 DEF TaskStep, Call, Disclose, Accept, TakeReply, BreakOff, Cancelled, Tell,
         Settled, Check, Decide
  <2>3. ASSUME NEW t \in Tabs, TabStep(t) PROVE quote' = quote
    BY <2>3 DEF TabStep, Deliver, ApplyList, SocketDrops, SocketReturns, PollList, Reload
  <2>4. ASSUME NEW x \in relayed, Land(x) \/ Discard(x) PROVE quote'[o] = Absent
    <3>1. CASE Discard(x) BY <3>1 DEF Discard
    <3>2. CASE Land(x)
      <4>1. Includes(x) /\ x.kind \in Kinds BY <3>2 DEF Land, TradeTypeOK
      <4>2. quote' = quote \/ (quote[x.order] = "held"
                               /\ quote' = [quote EXCEPT ![x.order] = "used"])
        BY <4>1 DEF Includes, Kinds
      <4> QED BY <4>2 DEF TradeTypeOK, Absent
    <3> QED BY <2>4, <3>1, <3>2
  <2>5. ASSUME NEW p \in Orders, OrderStep(p) PROVE quote'[o] = Absent
    <3>1. CASE Answer(p) BY <3>1 DEF Answer, TradeTypeOK
    <3>2. CASE LapseQuote(p) BY <3>2 DEF LapseQuote, TradeTypeOK, Absent
    <3>3. CASE BookMoves(p) \/ MatchSettles(p) BY <3>3 DEF BookMoves, MatchSettles
    <3> QED BY <2>5, <3>1, <3>2, <3>3 DEF OrderStep
  <2> QED BY <2>1, <2>2, <2>3, <2>4, <2>5 DEF TradeNext
<1> QED BY <1>2, <1>3, <1>4

LEMMA OthersKept ==
  ASSUME TradeTypeOK, TasksFit, BookedFirst, OthersOver, TradeNext PROVE OthersOver'
<1> SUFFICES ASSUME NEW b \in tasks', b.phase = "other" PROVE book'[b.order] # "OPEN"
  BY DEF OthersOver
<1>1. Continues(b) BY CallsGoOn DEF Opens
<1>2. PICK a \in tasks :
        /\ b.order = a.order
        /\ a.phase = "other" \/ book'[a.order] # "OPEN"
  BY <1>1 DEF Continues
<1>3. CASE a.phase = "other"
  <2>1. a.kind \in Kinds /\ a.order \in Orders /\ Fits(a)
    BY DEF TradeTypeOK, Task, TasksFit
  <2>2. a.kind = "settle" BY <1>3, <2>1 DEF Fits, PhasesOf, Kinds
  <2>3. a.order \in Booked /\ book[a.order] # "OPEN" BY <1>3, <2>2 DEF BookedFirst, OthersOver
  <2>4. BookOnward(a.order) BY <2>1, BookGoesOn
  <2> QED BY <1>2, <2>3, <2>4 DEF BookOnward, Booked
<1> QED BY <1>2, <1>3

LEMMA QuotesKept ==
  ASSUME TradeTypeOK, TasksFit, QuotesInv, TradeNext PROVE QuoteIsKept'
<1> SUFFICES ASSUME NEW o \in witness', quote'[o] = "held", book'[o] = "OPEN",
                    chain'[o] = "OPEN"
             PROVE  o \in pending'
  BY DEF QuoteIsKept
<1> DEFINE Was == o \in witness /\ quote[o] = "held" /\ book[o] = "OPEN" /\ chain[o] = "OPEN"
<1> USE DEF chainVars, matcherVars, storageVars
<1>0. /\ o \in Orders
      /\ BookOnward(o) /\ Onward(o)
  <2>1. TradeTypeOK' BY TradeTypesKept
  <2>2. o \in Orders BY <2>1 DEF TradeTypeOK
  <2> QED BY <2>2, BookGoesOn, ChainGoesOn
<1>1. ASSUME Was PROVE o \in pending BY <1>1 DEF QuotesInv, QuoteIsKept
<1>2. ASSUME NEW t \in Tabs, NEW p \in Orders, UserStep(t, p) PROVE o \in pending'
  <2>1. UNCHANGED <<witness, quote, book, chain, pending>>
    BY <1>2 DEF UserStep, Submit, Cancel, Approve, Start
  <2> QED BY <1>1, <2>1
<1>3. ASSUME NEW a \in tasks, TaskStep(a) PROVE o \in pending'
  <2>1. Fits(a) /\ a.order \in Orders BY TaskTypes DEF TasksFit
  <2>2. CASE Accept(a)
    <3>1. a.order # o
      <4>1. a.order \notin witness BY <2>2 DEF Accept, QuotesInv, BookedFirst, Booked
      <4> QED BY <2>2, <4>1 DEF Accept
    <3>2. book[o] = "OPEN" BY <1>0, <2>1, <2>2, <3>1 DEF Accept, Books, TradeTypeOK
    <3> QED BY <1>1, <2>2, <3>2 DEF Accept
  <2>3. CASE TakeReply(a)
    <3>1. UNCHANGED <<quote, book, chain>> /\ pending \subseteq pending'
      BY <2>3 DEF TakeReply, Pending
    <3>2. CASE o = a.order BY <2>3, <3>1, <3>2 DEF TakeReply, Pending, Absent
    <3>3. CASE o # a.order
      <4>1. o \in witness BY <2>3, <3>3 DEF TakeReply, Kept
      <4> QED BY <1>1, <3>1, <4>1
    <3> QED BY <3>2, <3>3
  <2>4. CASE Settled(a)
    <3>1. chain[a.order] = "FILLED" /\ UNCHANGED <<witness, quote, book, chain>>
      BY <2>1, <2>4 DEF Settled, Fits
    <3>2. pending' = pending \ {a.order} BY <2>4 DEF Settled, Pending
    <3> QED BY <1>1, <3>1, <3>2
  <2>5. ASSUME NEW open \in BOOLEAN, Decide(a, open) PROVE o \in pending'
    <3>1. UNCHANGED <<witness, quote, book, chain>> BY <2>5 DEF Decide
    <3>2. CASE a.phase = "other" \/ quote[a.order] = "lapsed"
      <4>1. pending' = pending \ {a.order} BY <2>5, <3>2 DEF Decide, Pending
      <4>2. o # a.order BY <3>1, <3>2 DEF QuotesInv, OthersOver
      <4> QED BY <1>1, <3>1, <4>1, <4>2
    <3>3. CASE ~(a.phase = "other" \/ quote[a.order] = "lapsed")
      <4>1. pending' = pending BY <2>5, <3>3 DEF Decide
      <4> QED BY <1>1, <3>1, <4>1
    <3> QED BY <3>2, <3>3
  <2>6. CASE Cancelled(a) BY <1>1, <2>6 DEF Cancelled
  <2>7. CASE Tell(a) \/ Check(a)
    <3>1. UNCHANGED <<witness, quote, chain, pending>> BY <2>7 DEF Tell, Check
    <3>2. book[o] # Absent
      BY <3>1 DEF QuotesInv, BookedFirst, Booked
    <3> QED BY <1>0, <1>1, <3>1, <3>2 DEF BookOnward
  <2>8. CASE Call(a) \/ Disclose(a) \/ BreakOff(a)
    BY <1>1, <2>8 DEF Call, Disclose, BreakOff, AfterFailure
  <2> QED BY <1>3, <2>2, <2>3, <2>4, <2>5, <2>6, <2>7, <2>8 DEF TaskStep
<1>4. ASSUME NEW t \in Tabs, TabStep(t) PROVE o \in pending'
  <2>1. UNCHANGED <<witness, quote, book, chain>> /\ pending \subseteq pending'
    BY <1>4 DEF TabStep, Deliver, Pending, ApplyList, SocketDrops, SocketReturns,
         PollList, Reload
  <2> QED BY <1>1, <2>1
<1>5. ASSUME NEW x \in relayed, Land(x) \/ Discard(x) PROVE o \in pending'
  <2>1. UNCHANGED <<witness, book, pending>> BY <1>5 DEF Land, Discard
  <2>2. chain[o] = "OPEN"
    <3>1. o \in Booked BY <2>1 DEF QuotesInv, BookedFirst
    <3>2. chain[o] # Absent BY <3>1 DEF QuotesInv, BookedFirst
    <3> QED BY <1>0, <3>2 DEF Onward
  <2>3. quote[o] = "held"
    <3>1. CASE Discard(x) BY <3>1 DEF Discard
    <3>2. CASE Land(x)
      <4>1. Includes(x) /\ x.kind \in Kinds BY <3>2 DEF Land, TradeTypeOK
      <4>2. quote' = quote \/ quote' = [quote EXCEPT ![x.order] = "used"]
        BY <4>1 DEF Includes, Kinds
      <4> QED BY <1>0, <4>2 DEF TradeTypeOK
    <3> QED BY <1>5, <3>1, <3>2
  <2> QED BY <1>1, <2>1, <2>2, <2>3
<1>6. ASSUME NEW p \in Orders, OrderStep(p) PROVE o \in pending'
  <2>1. UNCHANGED <<witness, pending>>
    BY <1>6 DEF OrderStep, Answer, BookMoves, MatchSettles, LapseQuote
  <2>2. quote[o] = "held"
    <3>1. CASE Answer(p)
      <4>1. p \notin witness BY <3>1 DEF Answer, QuotesInv, OfferComesFirst
      <4> QED BY <1>0, <2>1, <3>1, <4>1 DEF Answer, TradeTypeOK
    <3>2. CASE LapseQuote(p) BY <1>0, <3>2 DEF LapseQuote, TradeTypeOK
    <3>3. CASE BookMoves(p) \/ MatchSettles(p) BY <3>3 DEF BookMoves, MatchSettles
    <3> QED BY <1>6, <3>1, <3>2, <3>3 DEF OrderStep
  <2>3. o \in Booked BY <2>1 DEF QuotesInv, BookedFirst
  <2>4. book[o] = "OPEN" BY <1>0, <2>3 DEF BookOnward, Booked
  <2>5. chain[o] = "OPEN"
    <3>1. chain[o] # Absent BY <2>3 DEF QuotesInv, BookedFirst
    <3> QED BY <1>0, <3>1 DEF Onward
  <2> QED BY <1>1, <2>1, <2>2, <2>4, <2>5
<1> QED BY <1>2, <1>3, <1>4, <1>5, <1>6 DEF TradeNext

LEMMA QuotesInvKept ==
  ASSUME TradeTypeOK, TasksFit, QuotesInv, TradeNext PROVE QuotesInv'
  BY BookedFirstKept, OfferFirstKept, OthersKept, QuotesKept DEF QuotesInv

-----------------------------------------------------------------------------
(* The profile *)

TradeInv ==
  /\ TradeTypeOK /\ TasksFit /\ Exclusive /\ CreationsFollowed /\ PendingIsOurs
  /\ ShownInv /\ QuotesInv

LEMMA TradeStarts ==
  ASSUME NEW sockets \in SUBSET Tabs, TradeInit(sockets) PROVE TradeInv
<1>1. TradeTypeOK BY TradeTypesStart
<1>2. tasks = {} /\ relayed = {} /\ pending = {} /\ chain = [o \in Orders |-> Absent]
  BY DEF TradeInit
<1>3. TasksFit /\ Exclusive /\ PendingIsOurs
  BY <1>2 DEF TasksFit, Exclusive, OneSettlementPerTab, PendingIsOurs
<1>4. CreationsFollowed BY <1>2 DEF CreationsFollowed, Absent
<1>5. \A t \in Tabs : Told(t) = {} BY DEF TradeInit, Told
<1>6. ShownInv BY <1>5 DEF ShownInv, EndsTold, ShownClosedIsClosed, TradeInit, Closed, Absent
<1>7. Booked = {} BY DEF Booked, TradeInit
<1>8. BookedFirst BY <1>2, <1>5, <1>7 DEF BookedFirst, TradeInit
<1>9. OfferComesFirst /\ OthersOver /\ QuoteIsKept
  BY DEF OfferComesFirst, OthersOver, QuoteIsKept, TradeInit
<1> QED BY <1>1, <1>3, <1>4, <1>6, <1>8, <1>9 DEF TradeInv, QuotesInv

LEMMA TradeStep ==
  ASSUME TradeInv, TradeNext \/ UNCHANGED tradeVars PROVE TradeInv'
<1>1. CASE UNCHANGED tradeVars
  BY <1>1 DEF tradeVars, chainVars, matcherVars, storageVars, tabVars, cacheVars,
       TradeInv, TradeTypeOK, TasksFit, Fits, Exclusive, OneSettlementPerTab,
       CreationsFollowed, Followed, PendingIsOurs, ShownInv, EndsTold, Told,
       ShownClosedIsClosed, QuotesInv, BookedFirst, Booked, OfferComesFirst, OthersOver,
       QuoteIsKept
<1>2. CASE TradeNext
  BY <1>2, TradeTypesKept, TasksFitKept, ExclusiveKept, CreationsKept, PendingKept,
     ShownKept, QuotesInvKept
     DEF TradeInv
<1> QED BY <1>1, <1>2

\* A step of the profile is a step of the session, or of trading, or of both.
LEMMA StepsSplit ==
  ASSUME Next
  PROVE  /\ SessionNext \/ UNCHANGED sessionVars
         /\ TradeNext \/ UNCHANGED tradeVars
<1>1. ASSUME NEW t \in Tabs, TabSteps(t)
      PROVE  /\ SessionNext \/ UNCHANGED sessionVars
             /\ TabStep(t) \/ \E o \in Orders : UserStep(t, o)
  <2>1. CASE \E o \in Orders : Start(t, o, Able(t)) /\ SessionStays
    <3>1. Able(t) \in BOOLEAN BY DEF Able
    <3> QED BY <2>1, <3>1 DEF UserStep, SessionStays
  <2>2. CASE Reload(t) /\ (ReloadSession \/ SessionStays)
    BY <2>2 DEF TabStep, SessionNext, SessionStays
  <2>3. CASE SessionStays /\ (Deliver(t) \/ ApplyList(t) \/ SocketDrops(t)
                              \/ SocketReturns(t) \/ PollList(t))
    BY <2>3 DEF TabStep, SessionStays
  <2> QED BY <1>1, <2>1, <2>2, <2>3 DEF TabSteps
<1>2. ASSUME NEW t \in Tabs, NEW o \in Orders, UserTrades(t, o)
      PROVE  (SessionNext \/ UNCHANGED sessionVars) /\ UserStep(t, o)
  BY <1>2 DEF UserTrades, UserStep, SessionNext, SessionStays
<1>3. ASSUME NEW a \in tasks, TaskSteps(a)
      PROVE  (SessionNext \/ UNCHANGED sessionVars) /\ TaskStep(a)
  <2>1. CASE Decide(a, Open(a.tab)) /\ SessionStays
    <3>1. Open(a.tab) \in BOOLEAN BY DEF Open
    <3> QED BY <2>1, <3>1 DEF TaskStep, SessionStays
  <2>2. CASE PendingOver(a) /\ (Disclose(a) \/ BreakOff(a))
    BY <2>2 DEF PendingOver, TaskStep, SessionNext, SessionStays
  <2>3. CASE SessionStays /\ (Call(a) \/ TakeReply(a) \/ Cancelled(a) \/ Tell(a)
                              \/ Settled(a) \/ Check(a) \/ Accept(a))
    BY <2>3 DEF TaskStep, SessionStays
  <2> QED BY <1>3, <2>1, <2>2, <2>3 DEF TaskSteps
<1>4. CASE OutsideSteps
  <2>1. UNCHANGED sessionVars BY <1>4 DEF OutsideSteps, SessionStays
  <2>2. TradeNext BY <1>4 DEF OutsideSteps, TradeNext, OrderStep
  <2> QED BY <2>1, <2>2
<1>5. ASSUME NEW g \in 1..MaxAttempts, Attempt(g)
      PROVE  SessionNext /\ UNCHANGED tradeVars
  BY <1>5 DEF Attempt, AttemptStep, SessionNext, TradeStays
<1>6. CASE SessionSteps
  BY <1>6 DEF SessionSteps, PollStep, SessionNext, TradeStays
<1>7. CASE InMarket(MarketSteps)
  BY <1>7 DEF InMarket, SessionStays, TradeStays
<1> QED BY <1>1, <1>2, <1>3, <1>4, <1>5, <1>6, <1>7 DEF Next, TradeNext

LEMMA ProfileStarts == Init => SessionInv /\ TradeInv
<1> SUFFICES ASSUME NEW scene \in Scenes, SessionInit, TradeInit(scene.sockets)
             PROVE  SessionInv /\ TradeInv
  BY DEF Init
<1>1. scene.sockets \in SUBSET Tabs BY WebConstants
<1> QED BY <1>1, SessionStarts, TradeStarts

\* Everything the theorems below follow from holds in every state.
THEOREM ProfileSafe == Spec => [](SessionInv /\ TradeInv)
<1>1. SessionInv /\ TradeInv /\ [Next]_vars => (SessionInv /\ TradeInv)'
  <2> SUFFICES ASSUME SessionInv, TradeInv, [Next]_vars
               PROVE  SessionInv' /\ TradeInv'
    OBVIOUS
  <2>1. CASE Next BY <2>1, StepsSplit, SessionStep, TradeStep
  <2>2. CASE UNCHANGED vars BY <2>2, SessionStep, TradeStep DEF vars
  <2> QED BY <2>1, <2>2
<1> QED BY <1>1, ProfileStarts, PTL DEF Spec

\* The wallet session keeps the types of its state.
THEOREM SessionTyped == Spec => []SessionTypeOK
<1>1. Init => SessionTypeOK /\ SessionInv /\ TradeInv
  BY ProfileStarts, SessionTypesStart DEF Init
<1>2. SessionTypeOK /\ SessionInv /\ [Next]_vars => SessionTypeOK'
  <2>1. CASE Next BY <2>1, StepsSplit, SessionTypesKept
  <2>2. CASE UNCHANGED vars BY <2>2, SessionTypesKept DEF vars
  <2> QED BY <2>1, <2>2
<1> QED BY <1>1, <1>2, ProfileSafe, PTL DEF Spec

\* Trading keeps the types of its state.
THEOREM TradeTyped == Spec => []TradeTypeOK
<1>1. TradeInv => TradeTypeOK BY DEF TradeInv
<1> QED BY <1>1, ProfileSafe, PTL

\* No attempt that was overtaken by a disconnect ever holds the session
\* (WalletProvider.tsx's generation counter).
THEOREM StaleAttemptsEnd == Spec => []NothingResurrected
<1>1. SessionInv => NothingResurrected BY DEF SessionInv, AttemptsInOrder
<1> QED BY <1>1, ProfileSafe, PTL

\* A connected app is on the wallet's network (NetworkProvider.tsx), except
\* after a poll that was answered once its session had ended.
THEOREM AppOnWalletsNetwork == Spec => []AppFollowsWallet
<1>1. SessionInv => AppFollowsWallet
  BY DEF SessionInv, AppIsWhereTold, AppFollowsWallet
<1> QED BY <1>1, ProfileSafe, PTL

\* networkBridge.ts keeps the creation of an order and a network switch apart.
THEOREM NoSwitchDuringCreation == Spec => []SwitchAndTxExclude
<1>1. SessionInv => SwitchAndTxExclude BY DEF SessionInv
<1> QED BY <1>1, ProfileSafe, PTL

\* An order open on the chain is known to its profile unless its creation was
\* broken off (use-submit-order.ts).
THEOREM OrdersAreKnown == Spec => []OrphanIsInterrupted
<1>1. TradeInv => OrphanIsInterrupted
  BY DEF TradeInv, CreationsFollowed, Followed, OrphanIsInterrupted
<1> QED BY <1>1, ProfileSafe, PTL

\* The mark of pendingSettlements.ts excludes a second settlement in a tab.
THEOREM SettledOnceAtATime == Spec => []OneSettlementPerTab
<1>1. TradeInv => OneSettlementPerTab BY DEF TradeInv, Exclusive
<1> QED BY <1>1, ProfileSafe, PTL

\* Approval is only asked for orders whose details are stored, or that are over.
THEOREM PendingCanBeSettled == Spec => []PendingIsOurs
<1>1. TradeInv => PendingIsOurs BY DEF TradeInv
<1> QED BY <1>1, ProfileSafe, PTL

\* The effect's fresh read keeps a landed settlement from the wallet.
THEOREM LandedIsNotAskedAgain == Spec => []SettledIsNotAskedAgain
<1>1. TradeInv => SettledIsNotAskedAgain
  BY DEF TradeInv, TasksFit, Fits, SettledIsNotAskedAgain
<1> QED BY <1>1, ProfileSafe, PTL

\* What a tab shows as over is over, in that way, whatever becomes of the
\* socket, of lists of open orders and of the tab's own cancellations
\* (matcherClient.ts).
THEOREM ShownEndsAreReal == Spec => []ShownClosedIsClosed
<1>1. TradeInv => ShownClosedIsClosed BY DEF TradeInv, ShownInv
<1> QED BY <1>1, ProfileSafe, PTL

\* A resting order with a reserved quote keeps its entry for approval, though
\* settlements of it fail, are begun again or in two tabs (pendingSettlements.ts).
THEOREM QuotesStayPending == Spec => []QuoteIsKept
<1>1. TradeInv => QuoteIsKept BY DEF TradeInv, QuotesInv
<1> QED BY <1>1, ProfileSafe, PTL
-----------------------------------------------------------------------------
(* Levels of the order book (MarketView.tla): what rests at a price, added  *)
(* up.  MapThenSumSet is a fold by a recursive function; a claim about      *)
(* every set of orders is proved on the least set of which it would fail.   *)

\* Sets of sets of orders that are not empty have a least one by inclusion.
LEMMA LeastBad ==
  ASSUME NEW D, NEW Bad \in SUBSET FiniteSubsetsOf(D), Bad # {}
  PROVE  \E T \in Bad : \A U \in Bad : U \subseteq T => U = T
<1> DEFINE R == StrictSubsetOrdering(D)
<1>1. IsWellFoundedOn(R, FiniteSubsetsOf(D))
  BY FS_StrictSubsetOrderingWellFounded
<1>2. ASSUME NEW U \in Bad, NEW T \in Bad, U \subseteq T, U # T
      PROVE  <<U, T>> \in R
  <2> DEFINE p == <<U, T>>
  <2>1. p \in (SUBSET D) \X (SUBSET D) /\ p[1] = U /\ p[2] = T
    BY DEF FiniteSubsetsOf
  <2> HIDE DEF p
  <2>2. p \in R
    BY <1>2, <2>1 DEF StrictSubsetOrdering
  <2> QED BY <2>2 DEF p
<1> HIDE DEF R
<1>3. PICK T \in Bad : \A U \in Bad : ~(<<U, T>> \in R)
  BY <1>1, WFMin
<1> QED BY <1>2, <1>3

\* The order in which MapThenSumSet takes the elements of a set.
Pick(s) == CHOOSE x \in s : TRUE
Amount(w, o) == w[o].amount
Total(w, S) == MapThenSumSet(LAMBDA o : w[o].amount, S)
Adds(w, S, f) ==
  f = [s \in SUBSET S |->
         IF s = {} THEN 0 ELSE Amount(w, Pick(s)) + f[s \ {Pick(s)}]]

LEMMA TotalIsFold ==
  ASSUME NEW w, NEW S
  PROVE  Total(w, S) = (CHOOSE f : Adds(w, S, f))[S]
BY DEF Total, Adds, Amount, Pick, MapThenSumSet, MapThenFoldSet

LEMMA PickOf ==
  ASSUME NEW s, s # {}
  PROVE  Pick(s) \in s
BY DEF Pick

LEMMA SubsetsFinite ==
  ASSUME NEW D, NEW s \in FiniteSubsetsOf(D), NEW u \in SUBSET s
  PROVE  u \in FiniteSubsetsOf(D)
BY FS_Subset DEF FiniteSubsetsOf

\* One turn of the fold.
Unfolds(w, s) ==
  Total(w, s) = IF s = {} THEN 0
                ELSE Amount(w, Pick(s)) + Total(w, s \ {Pick(s)})

LEMMA TotalUnfolds ==
  ASSUME NEW D, NEW w, NEW S \in FiniteSubsetsOf(D)
  PROVE  Unfolds(w, S)
<1> DEFINE Bad == {s \in FiniteSubsetsOf(D) : ~Unfolds(w, s)}
<1> SUFFICES ASSUME Bad # {} PROVE FALSE
  OBVIOUS
<1>1. PICK s \in Bad : \A u \in Bad : u \subseteq s => u = s
  <2>1. Bad \in SUBSET FiniteSubsetsOf(D)
    OBVIOUS
  <2> HIDE DEF Bad
  <2> QED BY <2>1, LeastBad
<1>2. s \in FiniteSubsetsOf(D) /\ ~Unfolds(w, s)
  BY <1>1
<1>3. \A u \in SUBSET s : u # s => Unfolds(w, u)
  BY <1>1, <1>2, SubsetsFinite
<1> DEFINE e == IF s = {} THEN 0
                ELSE Amount(w, Pick(s)) + Total(w, s \ {Pick(s)})
           g == [u \in SUBSET s |-> IF u = s THEN e ELSE Total(w, u)]
<1> HIDE DEF Bad
\* A function that adds up exists for the least set of which the claim fails.
<1>4. \A u \in SUBSET s :
        g[u] = IF u = {} THEN 0 ELSE Amount(w, Pick(u)) + g[u \ {Pick(u)}]
  <2> TAKE u \in SUBSET s
  <2>1. CASE u = {}
    BY <1>3, <2>1 DEF Unfolds
  <2>2. CASE u # {}
    <3>1. Pick(u) \in u
      BY <2>2, PickOf
    <3>2. u \ {Pick(u)} \in SUBSET s /\ u \ {Pick(u)} # s
      BY <3>1
    <3>3. g[u \ {Pick(u)}] = Total(w, u \ {Pick(u)})
      BY <3>2
    <3>4. CASE u = s
      BY <2>2, <3>3, <3>4
    <3>5. CASE u # s
      BY <1>3, <2>2, <3>3, <3>5 DEF Unfolds
    <3> QED BY <3>4, <3>5
  <2> QED BY <2>1, <2>2
<1>5. Adds(w, s, g)
  <2>1. g = [u \in SUBSET s |-> g[u]]
    OBVIOUS
  <2> HIDE DEF g
  <2> QED BY <1>4, <2>1 DEF Adds
<1> DEFINE h == CHOOSE f : Adds(w, s, f)
<1>6. Adds(w, s, h)
  BY <1>5
<1>7. Total(w, s) = h[s]
  BY TotalIsFold
<1> HIDE DEF h
\* It is the only one.
<1>8. \A u \in SUBSET s : h[u] = g[u]
  <2> DEFINE Differ == {u \in SUBSET s : h[u] # g[u]}
  <2> SUFFICES ASSUME Differ # {} PROVE FALSE
    OBVIOUS
  <2>1. Differ \in SUBSET FiniteSubsetsOf(D)
    BY <1>2, SubsetsFinite
  <2>2. PICK u \in Differ : \A v \in Differ : v \subseteq u => v = u
    <3> HIDE DEF Differ
    <3> QED BY <2>1, LeastBad
  <2>3. u \in SUBSET s /\ h[u] # g[u]
    BY <2>2
  <2>4. h[u] = IF u = {} THEN 0 ELSE Amount(w, Pick(u)) + h[u \ {Pick(u)}]
    BY <1>6, <2>3 DEF Adds
  <2>5. u # {} => h[u \ {Pick(u)}] = g[u \ {Pick(u)}]
    <3> HAVE u # {}
    <3>1. Pick(u) \in u
      BY PickOf
    <3>2. u \ {Pick(u)} \in SUBSET s /\ u \ {Pick(u)} # u
      BY <2>3, <3>1
    <3>3. u \ {Pick(u)} \notin Differ
      BY <2>2, <3>2
    <3> HIDE DEF g
    <3> QED BY <3>2, <3>3
  <2> HIDE DEF g, Differ
  <2> QED BY <1>4, <2>3, <2>4, <2>5
<1>9. Total(w, s) = g[s]
  <2> HIDE DEF g
  <2> QED BY <1>7, <1>8
<1>10. g[s] = e
  OBVIOUS
<1> QED BY <1>2, <1>9, <1>10 DEF Unfolds

\* Amounts that are numbers add up to a number.
LEMMA TotalIsNat ==
  ASSUME NEW D, NEW w, NEW S \in FiniteSubsetsOf(D),
         \A q \in D : Amount(w, q) \in Nat
  PROVE  Total(w, S) \in Nat
<1> DEFINE Bad == {s \in FiniteSubsetsOf(D) : Total(w, s) \notin Nat}
<1> SUFFICES ASSUME Bad # {} PROVE FALSE
  OBVIOUS
<1>1. PICK s \in Bad : \A u \in Bad : u \subseteq s => u = s
  <2>1. Bad \in SUBSET FiniteSubsetsOf(D)
    OBVIOUS
  <2> HIDE DEF Bad
  <2> QED BY <2>1, LeastBad
<1>2. s \in FiniteSubsetsOf(D) /\ Total(w, s) \notin Nat
  BY <1>1
<1>3. CASE s = {}
  <2>1. Total(w, s) = 0
    BY <1>2, <1>3, TotalUnfolds DEF Unfolds
  <2> HIDE DEF Bad
  <2> QED BY <1>2, <2>1
<1>4. CASE s # {}
  <2>1. Pick(s) \in s /\ Pick(s) \in D
    BY <1>2, <1>4, PickOf DEF FiniteSubsetsOf
  <2>2. s \ {Pick(s)} \in FiniteSubsetsOf(D) /\ s \ {Pick(s)} # s
    BY <1>2, <2>1, SubsetsFinite
  <2>3. Total(w, s \ {Pick(s)}) \in Nat
    BY <1>1, <2>2
  <2>4. Total(w, s) = Amount(w, Pick(s)) + Total(w, s \ {Pick(s)})
    BY <1>2, <1>4, TotalUnfolds DEF Unfolds
  <2> QED BY <1>2, <2>1, <2>3, <2>4
<1> QED BY <1>3, <1>4

\* An element more adds its amount, in whatever order the others are taken.
LEMMA TotalWith ==
  ASSUME NEW D, NEW w, NEW S \in FiniteSubsetsOf(D), NEW q \in D \ S,
         \A x \in D : Amount(w, x) \in Nat
  PROVE  Total(w, S \cup {q}) = Total(w, S) + Amount(w, q)
<1> DEFINE Grows(s) == \A x \in D \ s :
                         Total(w, s \cup {x}) = Total(w, s) + Amount(w, x)
           Bad == {s \in FiniteSubsetsOf(D) : ~Grows(s)}
<1> SUFFICES ASSUME Bad # {} PROVE FALSE
  OBVIOUS
<1>1. PICK s \in Bad : \A u \in Bad : u \subseteq s => u = s
  <2>1. Bad \in SUBSET FiniteSubsetsOf(D)
    OBVIOUS
  <2> HIDE DEF Bad
  <2> QED BY <2>1, LeastBad
<1>2. s \in FiniteSubsetsOf(D)
  BY <1>1
<1>3. ASSUME NEW x \in D \ s
      PROVE  Total(w, s \cup {x}) = Total(w, s) + Amount(w, x)
  <2> DEFINE t == s \cup {x}
             y == Pick(t)
  <2>1. t \in FiniteSubsetsOf(D) /\ t # {}
    BY <1>2, FS_AddElement DEF FiniteSubsetsOf
  <2>2. y \in t
    BY <2>1, PickOf
  <2>3. Total(w, t) = Amount(w, y) + Total(w, t \ {y})
    <3> HIDE DEF t, Bad
    <3>1. Unfolds(w, t)
      BY <2>1, TotalUnfolds
    <3> QED BY <2>1, <3>1 DEF Unfolds
  <2>4. Amount(w, x) \in Nat /\ Total(w, s) \in Nat
    BY <1>2, TotalIsNat
  <2> HIDE DEF y
  <2>5. CASE y = x
    <3>1. t \ {y} = s
      BY <2>5
    <3>2. Total(w, t) = Amount(w, x) + Total(w, s)
      <4> HIDE DEF t
      <4> QED BY <2>3, <2>5, <3>1
    <3> HIDE DEF t, Bad
    <3>3. Total(w, t) = Total(w, s) + Amount(w, x)
      BY <2>4, <3>2
    <3> QED BY <3>3 DEF t
  <2>6. CASE y # x
    <3> DEFINE u == s \ {y}
    <3>1. y \in s /\ y \in D \ u /\ x \in D \ u
      BY <1>2, <2>2, <2>6 DEF FiniteSubsetsOf
    <3>2. u \in FiniteSubsetsOf(D) /\ u \subseteq s /\ u # s
      BY <1>2, <3>1, SubsetsFinite
    <3>3. u \notin Bad
      BY <1>1, <3>2
    <3>4. /\ Total(w, u \cup {x}) = Total(w, u) + Amount(w, x)
          /\ Total(w, u \cup {y}) = Total(w, u) + Amount(w, y)
      BY <3>1, <3>2, <3>3
    <3>5. t \ {y} = u \cup {x} /\ u \cup {y} = s
      BY <2>6, <3>1
    <3>6. Amount(w, y) \in Nat /\ Total(w, u) \in Nat
      BY <3>1, <3>2, TotalIsNat
    <3>7. Total(w, s) = Total(w, u) + Amount(w, y)
      BY <3>4, <3>5
    <3>8. Total(w, t) = Amount(w, y) + (Total(w, u) + Amount(w, x))
      BY <2>3, <3>4, <3>5
    <3>9. Total(w, t) = Total(w, s) + Amount(w, x)
      <4> HIDE DEF u, t, Bad
      <4> QED BY <2>4, <3>6, <3>7, <3>8
    <3> QED BY <3>9
  <2> QED BY <2>5, <2>6
<1> QED BY <1>1, <1>3

\* Rows with the same amounts have the same total.
LEMMA TotalAgrees ==
  ASSUME NEW D, NEW w, NEW v, NEW S \in FiniteSubsetsOf(D),
         \A x \in S : Amount(w, x) = Amount(v, x)
  PROVE  Total(w, S) = Total(v, S)
<1> DEFINE Bad == {s \in FiniteSubsetsOf(D) :
                     s \subseteq S /\ Total(w, s) # Total(v, s)}
<1> SUFFICES ASSUME Bad # {} PROVE FALSE
  OBVIOUS
<1>1. PICK s \in Bad : \A u \in Bad : u \subseteq s => u = s
  <2>1. Bad \in SUBSET FiniteSubsetsOf(D)
    OBVIOUS
  <2> HIDE DEF Bad
  <2> QED BY <2>1, LeastBad
<1>2. s \in FiniteSubsetsOf(D) /\ s \subseteq S /\ Total(w, s) # Total(v, s)
  BY <1>1
<1>3. Unfolds(w, s) /\ Unfolds(v, s)
  BY <1>2, TotalUnfolds
<1>4. s # {} /\ Pick(s) \in s
  BY <1>2, <1>3, PickOf DEF Unfolds
<1>5. s \ {Pick(s)} \in FiniteSubsetsOf(D) /\ s \ {Pick(s)} # s
  BY <1>2, <1>4, SubsetsFinite
<1>6. Total(w, s \ {Pick(s)}) = Total(v, s \ {Pick(s)})
  BY <1>1, <1>2, <1>5
<1> HIDE DEF Bad
<1> QED BY <1>2, <1>3, <1>4, <1>6 DEF Unfolds

\* What a level says of the orders at it.
Sums(S) == [amount |-> Total(Terms, S), orderCount |-> Cardinality(S)]

LEMMA LevelsAre ==
  ASSUME NEW open
  PROVE  Levels(open) = [l \in {LevelOf(o) : o \in open} |-> Sums(AtLevel(open, l))]
BY DEF Levels, Sums, Total, MapThenSumSet, MapThenFoldSet

LEMMA AmountsPositive ==
  ASSUME NEW o \in Others
  PROVE  Amount(Terms, o) \in Nat /\ Amount(Terms, o) > 0
<1>1. Terms[o] \in [side: {"BUY", "SELL"}, price: Nat \ {0}, amount: Nat \ {0}]
  BY MarketConstants
<1>2. Amount(Terms, o) \in Nat \ {0}
  BY <1>1 DEF Amount
<1> QED BY <1>2

LEMMA OrdersFinite ==
  ASSUME NEW S \in SUBSET Others
  PROVE  S \in FiniteSubsetsOf(Others) /\ IsFiniteSet(S)
BY MarketConstants, FS_Subset DEF FiniteSubsetsOf

\* An order more at a level.
LEMMA SumsWith ==
  ASSUME NEW S \in SUBSET Others, NEW o \in Others \ S
  PROVE  /\ Total(Terms, S) \in Nat /\ Cardinality(S) \in Nat
         /\ Total(Terms, S \cup {o}) = Total(Terms, S) + Amount(Terms, o)
         /\ Cardinality(S \cup {o}) = Cardinality(S) + 1
<1>1. \A x \in Others : Amount(Terms, x) \in Nat BY AmountsPositive
<1>2. S \in FiniteSubsetsOf(Others) /\ IsFiniteSet(S) BY OrdersFinite
<1>3. Total(Terms, S) \in Nat BY <1>1, <1>2, TotalIsNat
<1>4. Total(Terms, S \cup {o}) = Total(Terms, S) + Amount(Terms, o) BY <1>1, <1>2, TotalWith
<1>5. Cardinality(S) \in Nat /\ Cardinality(S \cup {o}) = Cardinality(S) + 1
  BY <1>2, FS_AddElement, FS_CardinalityType
<1> QED BY <1>3, <1>4, <1>5

LEMMA SumsOfNone == Total(Terms, {}) = 0 /\ Cardinality({}) = 0
<1>1. {} \in FiniteSubsetsOf(Others) BY OrdersFinite
<1>2. Unfolds(Terms, {}) BY <1>1, TotalUnfolds
<1>3. Total(Terms, {}) = 0 BY <1>2 DEF Unfolds
<1>4. Cardinality({}) = 0 BY FS_EmptySet
<1> QED BY <1>3, <1>4

\* A level with orders has an amount and a count.
LEMMA SumsPositive ==
  ASSUME NEW S \in SUBSET Others, S # {}
  PROVE  /\ Total(Terms, S) \in Nat /\ Total(Terms, S) > 0
         /\ Cardinality(S) \in Nat /\ Cardinality(S) > 0
<1>1. PICK o \in S : TRUE OBVIOUS
<1> DEFINE R == S \ {o}
<1>2. R \in SUBSET Others /\ o \in Others \ R /\ R \cup {o} = S BY <1>1
<1> HIDE DEF R
<1>3. /\ Total(Terms, R) \in Nat /\ Cardinality(R) \in Nat
      /\ Total(Terms, S) = Total(Terms, R) + Amount(Terms, o)
      /\ Cardinality(S) = Cardinality(R) + 1
  BY <1>2, SumsWith
<1>4. Amount(Terms, o) \in Nat /\ Amount(Terms, o) > 0 BY <1>2, AmountsPositive
<1> QED BY <1>3, <1>4

\* The only level an order changes is its own.
LEMMA LevelsOfOthers ==
  ASSUME NEW open, NEW o, o \notin open, NEW l
  PROVE  AtLevel(open \cup {o}, l) =
           IF LevelOf(o) = l THEN AtLevel(open, l) \cup {o} ELSE AtLevel(open, l)
BY DEF AtLevel

\* The page's update for order.created is what the matcher would answer
\* (use-market-data.ts, applyLevelDelta; orderbook/snapshot.ts, aggregateSide).
THEOREM CreationIsExact ==
  ASSUME NEW open \in SUBSET Others, NEW o \in Others \ open
  PROVE  applyLevelDelta(Levels(open), o, 1) = Levels(open \cup {o})
<1> DEFINE l == LevelOf(o)
           S == AtLevel(open, l)
           B == Levels(open)
           was == IF l \in DOMAIN B THEN B[l] ELSE [amount |-> 0, orderCount |-> 0]
<1>1. S \in SUBSET Others /\ o \in Others \ S BY DEF AtLevel
<1>2. B = [k \in {LevelOf(x) : x \in open} |-> Sums(AtLevel(open, k))] BY LevelsAre
<1>3. was.amount = Total(Terms, S) /\ was.orderCount = Cardinality(S)
  <2>1. CASE l \in DOMAIN B
    <3>1. was = Sums(S) BY <1>2, <2>1
    <3> QED BY <3>1 DEF Sums
  <2>2. CASE l \notin DOMAIN B
    <3>1. S = {} BY <1>2, <2>2 DEF AtLevel
    <3> QED BY <2>2, <3>1, SumsOfNone
  <2> QED BY <2>1, <2>2
<1> DEFINE next == [amount |-> was.amount + 1 * Terms[o].amount,
                    orderCount |-> was.orderCount + 1]
<1>4. next = Sums(S \cup {o}) /\ next.amount > 0 /\ next.orderCount > 0
      /\ next.amount \in Nat /\ next.orderCount \in Nat
  <2> HIDE DEF was, S
  <2>1. /\ Total(Terms, S) \in Nat /\ Cardinality(S) \in Nat
        /\ Total(Terms, S \cup {o}) = Total(Terms, S) + Amount(Terms, o)
        /\ Cardinality(S \cup {o}) = Cardinality(S) + 1
    BY <1>1, SumsWith
  <2>2. Amount(Terms, o) \in Nat /\ Amount(Terms, o) > 0 BY AmountsPositive
  <2>3. Terms[o].amount = Amount(Terms, o) BY DEF Amount
  <2> QED BY <1>3, <2>1, <2>2, <2>3 DEF Sums
<1>5. applyLevelDelta(B, o, 1) = Updated(B, [k \in {l} |-> next])
  <2>1. ~(next.amount <= 0 \/ next.orderCount <= 0)
    <3> HIDE DEF next
    <3> QED BY <1>4
  <2> HIDE DEF B
  <2> QED BY <2>1 DEF applyLevelDelta
<1>6. Updated(B, [k \in {l} |-> next]) = Levels(open \cup {o})
  <2>1. Levels(open \cup {o}) =
          [k \in {LevelOf(x) : x \in open \cup {o}} |-> Sums(AtLevel(open \cup {o}, k))]
    BY LevelsAre
  <2>2. {LevelOf(x) : x \in open \cup {o}} = DOMAIN B \cup {l} BY <1>2
  <2>3. ASSUME NEW k \in DOMAIN B \cup {l}
        PROVE  Sums(AtLevel(open \cup {o}, k)) = IF k = l THEN next ELSE B[k]
    <3>1. CASE k = l
      <4>1. AtLevel(open \cup {o}, k) = S \cup {o} BY <3>1, LevelsOfOthers
      <4> HIDE DEF S, next
      <4> QED BY <1>4, <3>1, <4>1
    <3>2. CASE k # l
      <4>1. AtLevel(open \cup {o}, k) = AtLevel(open, k) BY <3>2, LevelsOfOthers
      <4>2. k \in {LevelOf(x) : x \in open} BY <1>2, <3>2
      <4>3. B[k] = Sums(AtLevel(open, k)) BY <1>2, <4>2
      <4> HIDE DEF B, next
      <4> QED BY <3>2, <4>1, <4>3
    <3> QED BY <3>1, <3>2
  <2> HIDE DEF B, next, S, l
  <2> QED BY <2>1, <2>2, <2>3 DEF Updated
<1> QED BY <1>5, <1>6

\* So is its update for order.cancelled and order.expired.
THEOREM RemovalIsExact ==
  ASSUME NEW open \in SUBSET Others, NEW o \in open
  PROVE  applyLevelDelta(Levels(open), o, -1) = Levels(open \ {o})
<1> DEFINE rest == open \ {o}
           l == LevelOf(o)
           S == AtLevel(rest, l)
           B == Levels(open)
<1>1. /\ S \in SUBSET Others /\ o \in Others \ S
      /\ rest \in SUBSET Others /\ o \notin rest /\ open = rest \cup {o}
  BY DEF AtLevel
<1>2. B = [k \in {LevelOf(x) : x \in open} |-> Sums(AtLevel(open, k))] BY LevelsAre
<1>3. AtLevel(open, l) = S \cup {o} BY <1>1, LevelsOfOthers
<1>4. l \in DOMAIN B /\ B[l] = Sums(S \cup {o}) BY <1>2, <1>3
<1> DEFINE next == [amount |-> B[l].amount + (-1) * Terms[o].amount,
                    orderCount |-> B[l].orderCount + (-1)]
<1>5. next = Sums(S)
  <2> HIDE DEF S, B, l
  <2>1. /\ Total(Terms, S) \in Nat /\ Cardinality(S) \in Nat
        /\ Total(Terms, S \cup {o}) = Total(Terms, S) + Amount(Terms, o)
        /\ Cardinality(S \cup {o}) = Cardinality(S) + 1
    BY <1>1, SumsWith
  <2>2. Amount(Terms, o) \in Nat BY <1>1, AmountsPositive
  <2>3. Terms[o].amount = Amount(Terms, o) BY DEF Amount
  <2>4. B[l].amount = Total(Terms, S) + Amount(Terms, o) /\ B[l].orderCount = Cardinality(S) + 1
    BY <1>4, <2>1 DEF Sums
  <2>5. next.amount = Total(Terms, S) /\ next.orderCount = Cardinality(S)
    BY <2>1, <2>2, <2>3, <2>4
  <2> QED BY <2>5 DEF Sums
<1>6. Levels(rest) = [k \in {LevelOf(x) : x \in rest} |-> Sums(AtLevel(rest, k))]
  BY LevelsAre
<1>7. ASSUME NEW k, k # l
      PROVE  AtLevel(open, k) = AtLevel(rest, k)
  <2> HIDE DEF rest
  <2>1. AtLevel(rest \cup {o}, k) = AtLevel(rest, k) BY <1>1, <1>7, LevelsOfOthers
  <2> QED BY <1>1, <2>1
<1> SUFFICES applyLevelDelta(B, o, -1) = Levels(rest)
  OBVIOUS
<1>8. CASE S = {}
  <2>1. next.orderCount <= 0
    <3> HIDE DEF next
    <3> QED BY <1>5, <1>8, SumsOfNone DEF Sums
  <2>2. applyLevelDelta(B, o, -1) = Without(B, l)
    <3> HIDE DEF B
    <3> QED BY <1>4, <2>1 DEF applyLevelDelta
  <2>3. {LevelOf(x) : x \in rest} = DOMAIN B \ {l}
    BY <1>1, <1>2, <1>8 DEF AtLevel
  <2>4. ASSUME NEW k \in DOMAIN B \ {l}
        PROVE  B[k] = Sums(AtLevel(rest, k))
    BY <1>2, <1>7
  <2> HIDE DEF B, l, S, rest
  <2> QED BY <1>6, <2>2, <2>3, <2>4 DEF Without
<1>9. CASE S # {}
  <2>1. ~(next.amount <= 0 \/ next.orderCount <= 0)
    <3> HIDE DEF next, S
    <3> QED BY <1>1, <1>5, <1>9, SumsPositive DEF Sums
  <2>2. applyLevelDelta(B, o, -1) = Updated(B, [k \in {l} |-> next])
    <3> HIDE DEF B
    <3> QED BY <1>4, <2>1 DEF applyLevelDelta
  <2>3. {LevelOf(x) : x \in rest} = DOMAIN B
    BY <1>1, <1>2, <1>9 DEF AtLevel
  <2>4. ASSUME NEW k \in DOMAIN B \cup {l}
        PROVE  Sums(AtLevel(rest, k)) = IF k = l THEN next ELSE B[k]
    <3>1. CASE k = l
      <4> HIDE DEF next
      <4> QED BY <1>5, <3>1
    <3>2. CASE k # l
      <4>1. B[k] = Sums(AtLevel(rest, k)) BY <1>2, <1>7, <3>2
      <4> HIDE DEF B, next
      <4> QED BY <3>2, <4>1
    <3> QED BY <3>1, <3>2
  <2> HIDE DEF B, l, S, rest, next
  <2> QED BY <1>4, <1>6, <2>2, <2>3, <2>4 DEF Updated
<1> QED BY <1>8, <1>9
-----------------------------------------------------------------------------
(* Statistics: what a trade more changes *)

Trade == [id: Nat, price: Nat \ {0}, amount: Nat]

\* Finitely many numbers have a greatest and a least one.
LEMMA HasExtremes ==
  ASSUME NEW P \in FiniteSubsetsOf(Nat), P # {}
  PROVE  /\ \E m \in P : \A x \in P : x <= m
         /\ \E m \in P : \A x \in P : m <= x
<1> DEFINE Bounded(s) == /\ \E m \in s : \A x \in s : x <= m
                         /\ \E m \in s : \A x \in s : m <= x
           Bad == {s \in FiniteSubsetsOf(Nat) : s # {} /\ ~Bounded(s)}
<1> SUFFICES ASSUME Bad # {} PROVE FALSE
  OBVIOUS
<1>1. PICK s \in Bad : \A u \in Bad : u \subseteq s => u = s
  <2>1. Bad \in SUBSET FiniteSubsetsOf(Nat)
    OBVIOUS
  <2> HIDE DEF Bad
  <2> QED BY <2>1, LeastBad
<1>2. s \in FiniteSubsetsOf(Nat) /\ s # {} /\ ~Bounded(s)
  BY <1>1
<1>3. PICK e \in s : TRUE
  BY <1>2
<1>4. s \in SUBSET Nat /\ e \in Nat
  BY <1>2 DEF FiniteSubsetsOf
<1> DEFINE u == s \ {e}
<1>5. u \in FiniteSubsetsOf(Nat) /\ u \subseteq s /\ u # s
  BY <1>2, <1>3, SubsetsFinite
<1>6. u = {} \/ Bounded(u)
  <2> HIDE DEF Bounded, u
  <2> QED BY <1>1, <1>5
<1>7. CASE u = {}
  <2>1. s = {e}
    BY <1>3, <1>7
  <2> HIDE DEF Bad
  <2> QED BY <1>2, <1>4, <2>1
<1>8. CASE Bounded(u)
  <2> HIDE DEF Bad
  <2>1. PICK g \in u : \A x \in u : x <= g
    BY <1>8
  <2>2. PICK l \in u : \A x \in u : l <= x
    BY <1>8
  <2>3. g \in s /\ l \in s /\ g \in Nat /\ l \in Nat
    BY <1>4, <2>1, <2>2
  <2>4. \A x \in s : x = e \/ x \in u
    OBVIOUS
  <2> HIDE DEF u
  <2>5. \E m \in s : \A x \in s : x <= m
    <3>1. CASE e <= g
      <4>1. \A x \in s : x <= g
        BY <2>1, <2>4, <3>1
      <4> QED BY <2>3, <4>1
    <3>2. CASE g <= e
      <4>1. \A x \in s : x <= e
        BY <1>4, <2>1, <2>3, <2>4, <3>2
      <4> QED BY <1>3, <4>1
    <3> QED BY <1>4, <2>3, <3>1, <3>2
  <2>6. \E m \in s : \A x \in s : m <= x
    <3>1. CASE l <= e
      <4>1. \A x \in s : l <= x
        BY <2>2, <2>4, <3>1
      <4> QED BY <2>3, <4>1
    <3>2. CASE e <= l
      <4>1. \A x \in s : e <= x
        BY <1>4, <2>2, <2>3, <2>4, <3>2
      <4> QED BY <1>3, <4>1
    <3> QED BY <1>4, <2>3, <3>1, <3>2
  <2> QED BY <1>2, <2>5, <2>6
<1> QED BY <1>6, <1>7, <1>8

LEMMA ExtremesAre ==
  ASSUME NEW P \in SUBSET Nat
  PROVE  /\ \A m \in P : (\A x \in P : x <= m) => Max(P) = m
         /\ \A m \in P : (\A x \in P : m <= x) => Min(P) = m
<1>1. ASSUME NEW m \in P, \A x \in P : x <= m PROVE Max(P) = m
  <2>1. \A x \in P : m >= x
    BY <1>1
  <2>2. PICK g \in P : g = Max(P) /\ \A x \in P : g >= x
    BY <2>1 DEF Max
  <2>3. g \in Nat /\ m \in Nat /\ g >= m /\ g <= m
    BY <1>1, <2>2
  <2> QED BY <2>2, <2>3
<1>2. ASSUME NEW m \in P, \A x \in P : m <= x PROVE Min(P) = m
  <2>1. PICK l \in P : l = Min(P) /\ \A x \in P : l <= x
    BY <1>2 DEF Min
  <2>2. l \in Nat /\ m \in Nat /\ l <= m /\ m <= l
    BY <1>2, <2>1
  <2> QED BY <2>1, <2>2
<1> QED BY <1>1, <1>2

\* The extremes of some prices and one more.
LEMMA ExtremesWith ==
  ASSUME NEW P \in FiniteSubsetsOf(Nat), P # {}, NEW p \in Nat
  PROVE  /\ Max(P) \in P /\ Min(P) \in P
         /\ Max(P \cup {p}) = IF p > Max(P) THEN p ELSE Max(P)
         /\ Min(P \cup {p}) = IF p < Min(P) THEN p ELSE Min(P)
<1>1. P \in SUBSET Nat
  BY DEF FiniteSubsetsOf
<1>2. PICK g \in P : \A x \in P : x <= g
  BY HasExtremes
<1>3. PICK l \in P : \A x \in P : l <= x
  BY HasExtremes
<1>4. Max(P) = g /\ Min(P) = l
  BY <1>1, <1>2, <1>3, ExtremesAre
<1> DEFINE Q == P \cup {p}
<1>5. Q \in SUBSET Nat /\ p \in Q /\ g \in Q /\ l \in Q
  BY <1>1
<1>6. \A x \in Q : x = p \/ x \in P
  OBVIOUS
<1> HIDE DEF Q
<1>7. p \in Nat /\ g \in Nat /\ l \in Nat
  BY <1>1
<1>8. Max(Q) = IF p > g THEN p ELSE g
  <2>1. CASE p > g
    <3>1. \A x \in Q : x <= p
      <4> TAKE x \in Q
      <4>1. CASE x = p
        BY <1>7, <2>1, <4>1
      <4>2. CASE x \in P
        <5>1. x \in Nat /\ x <= g
          BY <1>1, <1>2, <4>2
        <5> QED BY <1>7, <2>1, <5>1
      <4> QED BY <1>6, <4>1, <4>2
    <3> QED BY <1>5, <2>1, <3>1, ExtremesAre
  <2>2. CASE ~(p > g)
    <3>1. \A x \in Q : x <= g
      <4> TAKE x \in Q
      <4>1. CASE x = p
        BY <1>7, <2>2, <4>1
      <4>2. CASE x \in P
        <5>1. x \in Nat /\ x <= g
          BY <1>1, <1>2, <4>2
        <5> QED BY <1>7, <2>2, <5>1
      <4> QED BY <1>6, <4>1, <4>2
    <3> QED BY <1>5, <2>2, <3>1, ExtremesAre
  <2> QED BY <2>1, <2>2
<1>9. Min(Q) = IF p < l THEN p ELSE l
  <2>1. CASE p < l
    <3>1. \A x \in Q : p <= x
      <4> TAKE x \in Q
      <4>1. CASE x = p
        BY <1>7, <2>1, <4>1
      <4>2. CASE x \in P
        <5>1. x \in Nat /\ l <= x
          BY <1>1, <1>3, <4>2
        <5> QED BY <1>7, <2>1, <5>1
      <4> QED BY <1>6, <4>1, <4>2
    <3> QED BY <1>5, <2>1, <3>1, ExtremesAre
  <2>2. CASE ~(p < l)
    <3>1. \A x \in Q : l <= x
      <4> TAKE x \in Q
      <4>1. CASE x = p
        BY <1>7, <2>2, <4>1
      <4>2. CASE x \in P
        <5>1. x \in Nat /\ l <= x
          BY <1>1, <1>3, <4>2
        <5> QED BY <1>7, <2>2, <5>1
      <4> QED BY <1>6, <4>1, <4>2
    <3> QED BY <1>5, <2>2, <3>1, ExtremesAre
  <2> QED BY <2>1, <2>2
<1> QED BY <1>4, <1>8, <1>9 DEF Q

\* The volume of a tape and one trade more.
LEMMA VolumeWith ==
  ASSUME NEW ts, NEW us, NEW n \in Nat,
         \A i \in 1..n : us[i] = ts[i],
         \A i \in 1..(n + 1) : us[i].amount \in Nat
  PROVE  Total(us, 1..(n + 1)) = Total(ts, 1..n) + us[n + 1].amount
<1> DEFINE D == 1..(n + 1)
           S == 1..n
           k == n + 1
<1>1. IsFiniteSet(D)
  <2>1. n + 1 \in Int /\ 1 \in Int
    OBVIOUS
  <2> QED BY <2>1, FS_Interval
<1>2. S \in SUBSET D /\ k \in D \ S /\ D = S \cup {k}
  OBVIOUS
<1>3. \A x \in D : Amount(us, x) \in Nat
  BY DEF Amount
<1>4. \A x \in S : Amount(us, x) = Amount(ts, x)
  BY DEF Amount
<1> HIDE DEF D, S, k
<1>5. S \in FiniteSubsetsOf(D)
  BY <1>1, <1>2, FS_Subset DEF FiniteSubsetsOf
<1>6. Total(us, S \cup {k}) = Total(us, S) + Amount(us, k)
  BY <1>2, <1>3, <1>5, TotalWith
<1>7. Total(us, S) = Total(ts, S)
  BY <1>4, <1>5, TotalAgrees
<1>8. Total(us, D) = Total(ts, S) + us[k].amount
  BY <1>2, <1>6, <1>7 DEF Amount
<1> QED BY <1>8 DEF S, D, k

\* The page's update for order.matched is what the matcher would answer, as long
\* as no trade has left its window (use-market-data.ts, applyTradeToStats;
\* OrderService.ts, getMarketStats).
THEOREM TradeIsExact ==
  ASSUME NEW ts \in Seq(Trade), NEW t \in Trade
  PROVE  applyTradeToStats(StatsOf(ts), t) = StatsOf(Append(ts, t))
<1> DEFINE us == Append(ts, t)
           n == Len(ts)
           P == {ts[i].price : i \in 1..n}
           Q == {us[i].price : i \in 1..(n + 1)}
<1>1. /\ n \in Nat /\ Len(us) = n + 1 /\ us # <<>>
      /\ us[n + 1] = t /\ \A i \in 1..n : us[i] = ts[i]
  OBVIOUS
<1>2. \A i \in 1..n : ts[i] \in Trade
  OBVIOUS
<1>3. /\ t.price \in Nat /\ t.price # 0 /\ t.amount \in Nat
      /\ \A i \in 1..n : /\ ts[i].price \in Nat /\ ts[i].price # 0
                         /\ ts[i].amount \in Nat
  BY <1>2 DEF Trade
<1>4. /\ (ts = <<>>) <=> (n = 0)
      /\ n # 0 => 1 \in 1..n /\ n \in 1..n
  OBVIOUS
<1> HIDE DEF us
<1>5. StatsOf(us) = [openPrice |-> us[1].price, lastPrice |-> t.price,
                     high |-> Max(Q), low |-> Min(Q),
                     volumeBase |-> Total(us, 1..(n + 1)), tradeCount |-> n + 1]
  <2>1. StatsOf(us) =
          [openPrice |-> us[1].price, lastPrice |-> us[Len(us)].price,
           high |-> Max({us[i].price : i \in 1..Len(us)}),
           low |-> Min({us[i].price : i \in 1..Len(us)}),
           volumeBase |-> Total(us, 1..Len(us)), tradeCount |-> Len(us)]
    BY <1>1 DEF StatsOf, Total
  <2> QED BY <1>1, <2>1
<1>6. Total(us, 1..(n + 1)) = Total(ts, 1..n) + t.amount
  <2>1. \A i \in 1..(n + 1) : us[i].amount \in Nat
    <3> TAKE i \in 1..(n + 1)
    <3>1. i \in 1..n \/ i = n + 1
      BY <1>1
    <3> QED BY <1>1, <1>3, <3>1
  <2> HIDE DEF n
  <2>2. Total(us, 1..(n + 1)) = Total(ts, 1..n) + us[n + 1].amount
    BY <1>1, <2>1, VolumeWith
  <2> QED BY <1>1, <2>2
<1>7. Q = P \cup {t.price}
  <2>1. \A i \in 1..(n + 1) : i \in 1..n \/ i = n + 1
    BY <1>1
  <2>2. \A i \in 1..n : i \in 1..(n + 1)
    BY <1>1
  <2>3. n + 1 \in 1..(n + 1)
    BY <1>1
  <2> HIDE DEF n
  <2> QED BY <1>1, <2>1, <2>2, <2>3
<1>8. CASE ts = <<>>
  <2>1. n = 0 /\ StatsOf(ts) = NoStats
    BY <1>4, <1>8 DEF StatsOf
  <2>2. Q = {t.price} /\ us[1] = t
    BY <1>1, <1>7, <2>1
  <2>3. Max(Q) = t.price /\ Min(Q) = t.price
    <3>1. {t.price} \in SUBSET Nat /\ t.price \in {t.price}
      BY <1>3
    <3>2. \A x \in {t.price} : x <= t.price /\ t.price <= x
      BY <1>3
    <3> QED BY <2>2, <3>1, <3>2, ExtremesAre
  <2>4. Total(ts, 1..n) = 0
    <3>1. 1..n = {} /\ {} \in FiniteSubsetsOf(Nat)
      BY <2>1, FS_EmptySet DEF FiniteSubsetsOf
    <3> HIDE DEF n
    <3> QED BY <3>1, TotalUnfolds DEF Unfolds
  <2>5. StatsOf(us) = [openPrice |-> t.price, lastPrice |-> t.price,
                       high |-> t.price, low |-> t.price,
                       volumeBase |-> t.amount, tradeCount |-> 1]
    <3>1. Total(us, 1..(n + 1)) = t.amount /\ n + 1 = 1
      BY <1>3, <1>6, <2>1, <2>4
    <3> HIDE DEF n, Q
    <3> QED BY <1>5, <2>2, <2>3, <3>1
  <2>6. applyTradeToStats(NoStats, t) =
          [openPrice |-> t.price, lastPrice |-> t.price,
           high |-> t.price, low |-> t.price,
           volumeBase |-> t.amount, tradeCount |-> 1]
    BY <1>3 DEF applyTradeToStats, NoStats, NoPrice
  <2> QED BY <2>1, <2>5, <2>6 DEF us
<1>9. CASE ts # <<>>
  <2>1. StatsOf(ts) = [openPrice |-> ts[1].price, lastPrice |-> ts[n].price,
                       high |-> Max(P), low |-> Min(P),
                       volumeBase |-> Total(ts, 1..n), tradeCount |-> n]
    BY <1>9 DEF StatsOf, Total
  <2>2. 1 \in 1..n /\ us[1] = ts[1] /\ ts[1].price # 0
    BY <1>1, <1>3, <1>4, <1>9
  <2>3. P \in FiniteSubsetsOf(Nat) /\ P # {}
    <3>1. IsFiniteSet(1..n)
      <4>1. 1 \in Int /\ n \in Int
        BY <1>1
      <4> QED BY <4>1, FS_Interval
    <3>2. IsFiniteSet(P)
      <4> DEFINE f == [i \in 1..n |-> ts[i].price]
      <4>1. f \in Surjection(1..n, P)
        BY DEF Surjection
      <4> HIDE DEF f, n, P
      <4> QED BY <3>1, <4>1, FS_Surjection
    <3>3. P \in SUBSET Nat /\ P # {}
      BY <1>3, <2>2
    <3> QED BY <3>2, <3>3 DEF FiniteSubsetsOf
  <2>4. Max(P) # 0 /\ Min(P) # 0
    <3>1. Max(P) \in P /\ Min(P) \in P
      <4> HIDE DEF P
      <4> QED BY <1>3, <2>3, ExtremesWith
    <3> QED BY <1>3, <3>1
  <2> HIDE DEF P, Q, n
  <2>5. /\ Max(Q) = IF t.price > Max(P) THEN t.price ELSE Max(P)
        /\ Min(Q) = IF t.price < Min(P) THEN t.price ELSE Min(P)
    BY <1>3, <1>7, <2>3, ExtremesWith
  <2> DEFINE s == StatsOf(ts)
  <2>6. /\ s.openPrice = ts[1].price /\ s.high = Max(P) /\ s.low = Min(P)
        /\ s.volumeBase = Total(ts, 1..n) /\ s.tradeCount = n
    BY <2>1
  <2> HIDE DEF s
  <2>7. applyTradeToStats(s, t) =
          [openPrice |-> us[1].price, lastPrice |-> t.price,
           high |-> Max(Q), low |-> Min(Q),
           volumeBase |-> Total(us, 1..(n + 1)), tradeCount |-> n + 1]
    BY <1>6, <2>2, <2>4, <2>5, <2>6 DEF applyTradeToStats, NoPrice
  <2> QED BY <1>5, <2>7 DEF s, us
<1> QED BY <1>8, <1>9
=============================================================================
