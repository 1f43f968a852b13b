---------------------------- MODULE ScriptsProofs ---------------------------
(***************************************************************************)
(* Theorems about the operator's files (Scripts.tla): what is on record is *)
(* complete, and the keys of every contract are kept, for any number of    *)
(* programs, networks and circuits, any agenda, and stops at any step.     *)
(***************************************************************************)
EXTENDS Operations, TLAPS

-----------------------------------------------------------------------------
(* The shape of the programs *)

Steps ==
  {"activate", "administer", "challenge", "checkpoints", "color", "deploy",
   "deployStage1", "deployToken", "deployment", "depositNight", "depositToken",
   "fill", "forward", "insert", "match", "menu", "mint", "network", "order",
   "persist", "post", "prepare", "record", "recordColor", "recordToken",
   "respond", "secret", "seed", "serve", "token", "wallet", "withdraw"}

\* Steps before a program has its network, and those that make a contract.
Unsettled == {"activate", "network", "forward"}
Deploys == {"deploy", "deployStage1", "deployToken"}
Marked == Unsettled \cup Deploys \cup {"record", "insert"}

\* No contract is made before the step that finds this key.
Precedes(first, s) ==
  \A i \in 1..Len(s) : s[i] \in Deploys => \E j \in 1..(i - 1) : s[j] = first

\* Which steps come right after which.
Adjacent(s) ==
  \A i \in 2..Len(s) :
    /\ s[i] = "record" => s[i - 1] \in {"deploy", "insert"}
    /\ s[i] = "insert" => s[i - 1] = "deployStage1"
    /\ s[i] \in Unsettled => s[i - 1] \in Unsettled
    /\ s[i] \notin Unsettled => s[i - 1] \notin Unsettled \ {"network"}

Whole(s) ==
  /\ s \in Seq(Steps) /\ s # <<>> /\ s[1] \in Unsettled
  /\ Adjacent(s) /\ Precedes("seed", s) /\ Precedes("secret", s)

\* Programs that make no contract, and parts of programs.
Plain(s) ==
  /\ s \in Seq(Steps) /\ Len(s) > 0 /\ s[1] = "network"
  /\ \A i \in 2..Len(s) : s[i] \notin Marked
Unmarked(t) == t \in Seq(Steps) /\ \A i \in 1..Len(t) : t[i] \notin Marked

LEMMA Joined ==
  ASSUME NEW s \in Seq(Steps), NEW t \in Seq(Steps)
  PROVE  /\ s \o t \in Seq(Steps) /\ Len(s \o t) = Len(s) + Len(t)
         /\ \A i \in 1..Len(s) : (s \o t)[i] = s[i]
         /\ \A i \in 1..Len(t) : (s \o t)[Len(s) + i] = t[i]
OBVIOUS

LEMMA PlainJoined ==
  ASSUME NEW s, Plain(s), NEW t, Unmarked(t) PROVE Plain(s \o t)
BY DEF Plain, Unmarked

LEMMA PlainIsWhole == ASSUME NEW s, Plain(s) PROVE Whole(s)
BY DEF Plain, Whole, Adjacent, Precedes, Marked, Unsettled, Deploys, Steps

LEMMA UnmarkedParts ==
  /\ Unmarked(Wallet) /\ Unmarked(WalletCheckpointed) /\ Unmarked(Prepare)
  /\ Unmarked(<<"secret">>) /\ Unmarked(<<"deployment">>) /\ Unmarked(<<"color">>)
  /\ Unmarked(<<"secret", "token">>) /\ Unmarked(<<"deployment", "color">>)
  /\ Unmarked(<<"deployment", "secret">>) /\ Unmarked(<<"deployment", "color", "secret">>)
BY DEF Unmarked, Marked, Unsettled, Deploys, Wallet, WalletCheckpointed, Prepare, Steps

LEMMA UnmarkedEnds ==
  /\ Unmarked(<<"mint", "recordColor", "persist">>) /\ Unmarked(<<"menu", "persist">>)
  /\ Unmarked(<<"depositNight", "depositToken", "persist">>)
  /\ Unmarked(<<"challenge", "respond", "persist">>)
  /\ Unmarked(<<"depositNight", "administer", "administer", "withdraw">>)
  /\ Unmarked(<<"order", "order", "secret", "administer", "order", "persist">>)
  /\ Unmarked(<<"order", "secret", "administer", "persist">>)
  /\ Unmarked(<<"order", "post", "persist">>)
  /\ Unmarked(<<"order", "post", "fill", "order", "match", "post", "persist">>)
  /\ Unmarked(<<"order", "post", "fill", "persist">>) /\ Unmarked(<<"secret", "serve">>)
BY DEF Unmarked, Marked, Unsettled, Deploys, Steps

LEMMA PlainStarts ==
  /\ Plain(Start) /\ Plain(<<"network", "deployment", "seed">>)
  /\ Plain(Start \o <<"secret">>)
  /\ Plain(Start \o Wallet) /\ Plain(FindMarket)
<1>1. Plain(Start) /\ Plain(<<"network", "deployment", "seed">>)
  BY DEF Plain, Start, Marked, Unsettled, Deploys, Steps
<1>2. Plain(Start \o <<"secret">>) /\ Plain(Start \o Wallet)
  BY <1>1, PlainJoined, UnmarkedParts
<1>3. Plain(Start \o <<"deployment", "color">>) BY <1>1, PlainJoined, UnmarkedParts
<1>4. Plain(FindMarket) BY <1>3, PlainJoined, UnmarkedParts DEF FindMarket
<1> QED BY <1>1, <1>2, <1>4

LEMMA OperatorsPrograms ==
  /\ Plain(MintToken) /\ Plain(Cli) /\ Plain(CheckBalance) /\ Plain(CheckDust)
  /\ Plain(SeedTreasury) /\ Plain(SetBootstrapPrice) /\ Plain(Matcher)
<1> USE PlainStarts, UnmarkedParts, UnmarkedEnds
<1>1. Plain(MintToken)
  <2>1. Plain(Start \o <<"secret", "token">>) BY PlainJoined
  <2>2. Plain((Start \o <<"secret", "token">>) \o Wallet) BY <2>1, PlainJoined
  <2> QED BY <2>2, PlainJoined DEF MintToken
<1>2. Plain(Cli)
  <2>1. Plain(Start \o <<"deployment">>) BY PlainJoined
  <2>2. Plain((Start \o <<"deployment">>) \o Wallet) BY <2>1, PlainJoined
  <2> QED BY <2>2, PlainJoined DEF Cli
<1>3. Plain(CheckBalance) /\ Plain(CheckDust)
  BY PlainJoined DEF CheckBalance, CheckDust
<1>4. Plain(SeedTreasury)
  <2>1. Plain(Start \o <<"deployment", "color", "secret">>) BY PlainJoined
  <2>2. Plain((Start \o <<"deployment", "color", "secret">>) \o Wallet)
    BY <2>1, PlainJoined
  <2> QED BY <2>2, PlainJoined DEF SeedTreasury
<1>5. Plain(SetBootstrapPrice)
  <2>1. Plain(Start \o <<"color">>) BY PlainJoined
  <2>2. Plain((Start \o <<"color">>) \o Wallet) BY <2>1, PlainJoined
  <2> QED BY <2>2, PlainJoined DEF SetBootstrapPrice
<1>6. Plain(Matcher)
  <2>1. Plain(<<"network", "deployment", "seed">> \o WalletCheckpointed)
    BY PlainJoined
  <2> QED BY <2>1, PlainJoined DEF Matcher
<1> QED BY <1>1, <1>2, <1>3, <1>4, <1>5, <1>6

LEMMA Checks ==
  /\ Plain(CheckTreasury) /\ Plain(CheckTrade) /\ Plain(CheckSell)
  /\ Plain(CheckOrder) /\ Plain(CheckBootstrap) /\ Plain(CheckLastPrice)
<1> USE PlainStarts, UnmarkedParts, UnmarkedEnds
<1>1. Plain(CheckTreasury)
  <2>1. Plain(Start \o <<"deployment", "secret">>) BY PlainJoined
  <2>2. Plain((Start \o <<"deployment", "secret">>) \o Wallet) BY <2>1, PlainJoined
  <2> QED BY <2>2, PlainJoined DEF CheckTreasury
<1>2. Plain(CheckTrade) /\ Plain(CheckSell) BY PlainJoined DEF CheckTrade, CheckSell
<1>3. Plain(CheckOrder) /\ Plain(CheckBootstrap) /\ Plain(CheckLastPrice)
  BY PlainJoined DEF CheckOrder, CheckBootstrap, CheckLastPrice
<1> QED BY <1>1, <1>2, <1>3

\* The ends of the programs that make a contract, and what comes before them.
Endings ==
  {<<"deploy", "record", "persist">>,
   <<"deployStage1", "insert", "record", "persist">>,
   <<"deployToken", "recordToken", "persist">>}

Keyed(s) ==
  /\ Plain(s)
  /\ \E i \in 1..Len(s) : s[i] = "seed"
  /\ \E i \in 1..Len(s) : s[i] = "secret"

LEMMA EndingsMarked ==
  ASSUME NEW t \in Endings
  PROVE  /\ t \in Seq(Steps) /\ t # <<>> /\ Adjacent(t)
         /\ t[1] \notin Unsettled \cup {"record", "insert"}
<1> USE DEF Endings, Adjacent, Unsettled, Steps
<1>1. CASE t = <<"deploy", "record", "persist">> BY <1>1
<1>2. CASE t = <<"deployStage1", "insert", "record", "persist">> BY <1>2
<1>3. CASE t = <<"deployToken", "recordToken", "persist">> BY <1>3
<1> QED BY <1>1, <1>2, <1>3

LEMMA Closing ==
  ASSUME NEW s, Keyed(s), NEW t \in Endings PROVE Whole(s \o t)
<1>1. /\ s \in Seq(Steps) /\ Len(s) \in Nat \ {0} /\ s[1] = "network"
      /\ \A i \in 2..Len(s) : s[i] \notin Marked
  BY DEF Keyed, Plain
<1>2. /\ t \in Seq(Steps) /\ Len(t) \in Nat \ {0} /\ Adjacent(t)
      /\ t[1] \notin Unsettled \cup {"record", "insert"}
  BY EndingsMarked
<1> DEFINE u == s \o t
<1>3. /\ u \in Seq(Steps) /\ Len(u) = Len(s) + Len(t)
      /\ \A i \in 1..Len(s) : u[i] = s[i]
      /\ \A i \in 1..Len(t) : u[Len(s) + i] = t[i]
  BY <1>1, <1>2, Joined
<1>4. \A i \in 1..Len(u) : i \in 1..Len(s) \/ i - Len(s) \in 1..Len(t)
  BY <1>1, <1>2, <1>3
<1>5. PICK a \in 1..Len(s), b \in 1..Len(s) : s[a] = "seed" /\ s[b] = "secret"
  BY DEF Keyed
<1>6. \A i \in 1..Len(s) : s[i] \notin Deploys
  BY <1>1 DEF Marked, Deploys
<1>7. Precedes("seed", u) /\ Precedes("secret", u)
  <2> SUFFICES ASSUME NEW i \in 1..Len(u), u[i] \in Deploys
               PROVE  /\ \E j \in 1..(i - 1) : u[j] = "seed"
                      /\ \E j \in 1..(i - 1) : u[j] = "secret"
    BY DEF Precedes
  <2>1. i \notin 1..Len(s) BY <1>3, <1>6
  <2>2. i > Len(s) BY <2>1, <1>1
  <2>3. a \in 1..(i - 1) /\ b \in 1..(i - 1) BY <2>2, <1>1, <1>3
  <2> QED BY <2>3, <1>5, <1>3
<1>8. Adjacent(u)
  <2> SUFFICES ASSUME NEW i \in 2..Len(u)
               PROVE  /\ u[i] = "record" => u[i - 1] \in {"deploy", "insert"}
                      /\ u[i] = "insert" => u[i - 1] = "deployStage1"
                      /\ u[i] \in Unsettled => u[i - 1] \in Unsettled
                      /\ u[i] \notin Unsettled
                           => u[i - 1] \notin Unsettled \ {"network"}
    BY DEF Adjacent
  <2>1. CASE i \in 1..Len(s)
    <3>1. u[i] = s[i] /\ i \in 2..Len(s) BY <2>1, <1>3
    <3>2. u[i - 1] = s[i - 1] BY <2>1, <1>1, <1>3
    <3>3. u[i] \notin Unsettled \cup {"record", "insert"} BY <3>1, <1>1 DEF Marked
    <3>4. u[i - 1] = "network" \/ u[i - 1] \notin Unsettled
      BY <3>1, <3>2, <1>1 DEF Marked
    <3> QED BY <3>3, <3>4
  <2>2. CASE i = Len(s) + 1
    <3>1. u[i] = t[1] /\ u[i - 1] = s[Len(s)] BY <2>2, <1>1, <1>2, <1>3
    <3>2. u[i - 1] = "network" \/ u[i - 1] \notin Unsettled
      BY <3>1, <1>1 DEF Marked
    <3> QED BY <3>1, <3>2, <1>2
  <2>3. CASE i > Len(s) + 1
    <3> DEFINE k == i - Len(s)
    <3>1. k \in 2..Len(t) /\ k - 1 \in 1..Len(t) BY <2>3, <1>1, <1>2, <1>3
    <3>2. u[i] = t[k] /\ u[i - 1] = t[k - 1] BY <3>1, <1>1, <1>3
    <3> HIDE DEF k, u
    <3> QED BY <3>1, <3>2, <1>2 DEF Adjacent
  <2> QED BY <2>1, <2>2, <2>3, <1>1, <1>3
<1>9. u # <<>> /\ u[1] \in Unsettled BY <1>1, <1>2, <1>3 DEF Unsettled
<1> QED BY <1>3, <1>7, <1>8, <1>9 DEF Whole

LEMMA KeyedJoined ==
  ASSUME NEW s, Keyed(s), NEW t, Unmarked(t) PROVE Keyed(s \o t)
<1>1. Plain(s \o t) BY PlainJoined DEF Keyed
<1>2. s \in Seq(Steps) /\ t \in Seq(Steps) BY DEF Keyed, Plain, Unmarked
<1>3. PICK a \in 1..Len(s), b \in 1..Len(s) : s[a] = "seed" /\ s[b] = "secret"
  BY DEF Keyed
<1>4. a \in 1..Len(s \o t) /\ b \in 1..Len(s \o t) BY <1>2
<1>5. (s \o t)[a] = "seed" /\ (s \o t)[b] = "secret" BY <1>2, <1>3
<1> QED BY <1>1, <1>4, <1>5 DEF Keyed

LEMMA ContractMakers ==
  Whole(Deploy) /\ Whole(DeployStaged) /\ Whole(DeployToken) /\ Deploy[1] = "network"
<1> USE UnmarkedParts
<1>1. Keyed(Start \o <<"secret">>)
  <2> DEFINE s == Start \o <<"secret">>
  <2>1. Len(s) = 3 /\ s[2] = "seed" /\ s[3] = "secret" BY DEF Start
  <2>2. \E i \in 1..Len(s) : s[i] = "seed" BY <2>1
  <2>3. \E i \in 1..Len(s) : s[i] = "secret" BY <2>1
  <2> QED BY <2>2, <2>3, PlainStarts DEF Keyed
<1>2. Keyed((Start \o <<"secret">>) \o WalletCheckpointed) BY <1>1, KeyedJoined
<1>3. Keyed(((Start \o <<"secret">>) \o WalletCheckpointed) \o Prepare)
  BY <1>2, KeyedJoined
<1>4. Keyed((Start \o <<"secret">>) \o Wallet) BY <1>1, KeyedJoined
<1>5. Keyed(((Start \o <<"secret">>) \o Wallet) \o Prepare) BY <1>4, KeyedJoined
<1>6. Whole(Deploy) BY <1>3, Closing DEF Deploy, Endings
<1>7. Whole(DeployStaged) BY <1>5, Closing DEF DeployStaged, Endings
<1>8. Whole(DeployToken) BY <1>3, Closing DEF DeployToken, Endings
<1>9. Deploy[1] = "network" BY DEF Deploy, Start, WalletCheckpointed, Prepare
<1> QED BY <1>6, <1>7, <1>8, <1>9

\* setup.ts resolves the network, and then runs deploy.ts.
LEMMA SetupIsWhole == Whole(Setup)
<1> DEFINE t == <<"activate", "network", "forward">>
           u == t \o Deploy
<1>1. /\ Deploy \in Seq(Steps) /\ Len(Deploy) \in Nat \ {0} /\ Adjacent(Deploy)
      /\ Deploy[1] = "network"
  BY ContractMakers DEF Whole
<1>2. /\ t \in Seq(Steps) /\ Len(t) = 3 /\ t[1] = "activate" /\ t[2] = "network"
      /\ t[3] = "forward"
  BY DEF Steps
<1> HIDE DEF t
<1>3. /\ u \in Seq(Steps) /\ Len(u) = 3 + Len(Deploy)
      /\ u[1] = "activate" /\ u[2] = "network" /\ u[3] = "forward"
      /\ \A i \in 1..Len(Deploy) : u[3 + i] = Deploy[i]
  <2>1. /\ u \in Seq(Steps) /\ Len(u) = Len(t) + Len(Deploy)
        /\ \A i \in 1..Len(t) : u[i] = t[i]
        /\ \A i \in 1..Len(Deploy) : u[Len(t) + i] = Deploy[i]
    BY <1>1, <1>2, Joined
  <2> HIDE DEF u
  <2> QED BY <2>1, <1>2
<1> HIDE DEF u
<1>4. ASSUME NEW first, Precedes(first, Deploy) PROVE Precedes(first, u)
  <2> SUFFICES ASSUME NEW i \in 1..Len(u), u[i] \in Deploys
               PROVE  \E j \in 1..(i - 1) : u[j] = first
    BY DEF Precedes
  <2>1. i \notin {1, 2, 3} BY <1>3 DEF Deploys
  <2>2. i - 3 \in 1..Len(Deploy) /\ u[i] = Deploy[i - 3] BY <2>1, <1>1, <1>3
  <2>3. PICK j \in 1..(i - 4) : Deploy[j] = first BY <2>2, <1>4 DEF Precedes
  <2>4. 3 + j \in 1..(i - 1) /\ u[3 + j] = Deploy[j] BY <2>2, <2>3, <1>1, <1>3
  <2> QED BY <2>3, <2>4
<1>5. Adjacent(u)
  <2> SUFFICES ASSUME NEW i \in 2..Len(u)
               PROVE  /\ u[i] = "record" => u[i - 1] \in {"deploy", "insert"}
                      /\ u[i] = "insert" => u[i - 1] = "deployStage1"
                      /\ u[i] \in Unsettled => u[i - 1] \in Unsettled
                      /\ u[i] \notin Unsettled
                           => u[i - 1] \notin Unsettled \ {"network"}
    BY DEF Adjacent
  <2>1. CASE i \in 2..4 BY <2>1, <1>1, <1>3 DEF Unsettled
  <2>2. CASE i > 4
    <3> DEFINE k == i - 3
    <3>1. k \in 2..Len(Deploy) /\ u[i] = Deploy[k] /\ u[i - 1] = Deploy[k - 1]
      BY <2>2, <1>1, <1>3
    <3> HIDE DEF k
    <3> QED BY <3>1, <1>1 DEF Adjacent
  <2> QED BY <2>1, <2>2
<1>6. Whole(u)
  BY <1>1, <1>3, <1>4, <1>5, ContractMakers DEF Whole, Unsettled
<1> QED BY <1>6 DEF u, t, Setup

LEMMA ProgramsAreWhole == \A name \in ProgramNames : Whole(Program[name])
<1>1. Whole(<<"activate">>)
  BY DEF Whole, Steps, Unsettled, Adjacent, Precedes, Deploys
<1>2. \A name \in ProgramNames :
        Program[name] \in
          {<<"activate">>, Setup, Deploy, DeployStaged, DeployToken, MintToken, Cli,
           CheckBalance, CheckDust, SeedTreasury, SetBootstrapPrice,
           CheckTreasury, CheckTrade, CheckSell, CheckOrder, CheckBootstrap,
           CheckLastPrice, Matcher}
  BY DEF ProgramNames, Program
<1>3. Whole(Setup) /\ Whole(Deploy) /\ Whole(DeployStaged) /\ Whole(DeployToken)
  BY SetupIsWhole, ContractMakers
<1>4. \A s \in {MintToken, Cli, CheckBalance, CheckDust, SeedTreasury,
                SetBootstrapPrice, CheckTreasury, CheckTrade, CheckSell,
                CheckOrder, CheckBootstrap, CheckLastPrice, Matcher} : Whole(s)
  BY OperatorsPrograms, Checks, PlainIsWhole
<1> QED BY <1>1, <1>2, <1>3, <1>4

\* What a program still has to do after its present step.
LEMMA Rest ==
  ASSUME NEW s \in Seq(Steps), s # <<>>, Adjacent(s)
  PROVE  /\ Head(s) = s[1] /\ Tail(s) \in Seq(Steps) /\ Adjacent(Tail(s))
         /\ Tail(s) # <<>> =>
              LET next == Tail(s)[1] IN
              /\ next = "record" => s[1] \in {"deploy", "insert"}
              /\ next = "insert" => s[1] = "deployStage1"
              /\ next \in Unsettled => s[1] \in Unsettled
              /\ next \notin Unsettled => s[1] \notin Unsettled \ {"network"}
<1>1. /\ Head(s) = s[1] /\ Tail(s) \in Seq(Steps) /\ Len(Tail(s)) = Len(s) - 1
      /\ \A i \in 1..(Len(s) - 1) : Tail(s)[i] = s[i + 1]
      /\ Len(s) \in Nat \ {0}
  OBVIOUS
<1>2. Adjacent(Tail(s))
  <2> SUFFICES ASSUME NEW i \in 2..Len(Tail(s))
               PROVE  LET t == Tail(s) IN
                      /\ t[i] = "record" => t[i - 1] \in {"deploy", "insert"}
                      /\ t[i] = "insert" => t[i - 1] = "deployStage1"
                      /\ t[i] \in Unsettled => t[i - 1] \in Unsettled
                      /\ t[i] \notin Unsettled
                           => t[i - 1] \notin Unsettled \ {"network"}
    BY DEF Adjacent
  <2>1. i + 1 \in 2..Len(s) /\ Tail(s)[i] = s[i + 1] /\ Tail(s)[i - 1] = s[i]
    BY <1>1
  <2>2. i = (i + 1) - 1 BY <1>1
  <2> HIDE <1>1
  <2> QED BY <2>1, <2>2 DEF Adjacent
<1>3. ASSUME Tail(s) # <<>>
      PROVE  2 \in 2..Len(s) /\ Tail(s)[1] = s[2] /\ s[2 - 1] = s[1]
  BY <1>1, <1>3
<1> QED BY <1>1, <1>2, <1>3 DEF Adjacent

LEMMA KeyBeforeContract ==
  ASSUME NEW first, NEW s \in Seq(Steps), s # <<>>, Precedes(first, s)
  PROVE  s[1] \notin Deploys /\ (s[1] # first => Precedes(first, Tail(s)))
<1>1. /\ Len(Tail(s)) = Len(s) - 1 /\ Len(s) \in Nat \ {0}
      /\ \A i \in 1..(Len(s) - 1) : Tail(s)[i] = s[i + 1]
  OBVIOUS
<1>2. s[1] \notin Deploys BY <1>1 DEF Precedes
<1>3. ASSUME s[1] # first, NEW i \in 1..Len(Tail(s)), Tail(s)[i] \in Deploys
      PROVE  \E j \in 1..(i - 1) : Tail(s)[j] = first
  <2>1. i + 1 \in 1..Len(s) /\ s[i + 1] \in Deploys BY <1>1, <1>3
  <2>2. PICK j \in 1..i : s[j] = first BY <2>1, <1>1 DEF Precedes
  <2>3. j - 1 \in 1..(i - 1) /\ Tail(s)[j - 1] = s[j] BY <2>2, <1>1, <1>3
  <2> QED BY <2>2, <2>3
<1> QED BY <1>2, <1>3 DEF Precedes

-----------------------------------------------------------------------------
(* The invariant *)

Shaped(x) ==
  x = [launch |-> x.launch, steps |-> x.steps, net |-> x.net, seed |-> x.seed,
       secret |-> x.secret, contract |-> x.contract, token |-> x.token,
       wallet |-> x.wallet, saving |-> x.saving, writes |-> x.writes]

\* A process has its network before it has keys or contracts, and its keys
\* before it makes a contract.
Ready(x) ==
  /\ Shaped(x)
  /\ \/ x.launch \in Launches
     \/ /\ x.launch = NoLaunch
        /\ x.steps = <<>>
  /\ x.steps \in Seq(Steps) /\ Adjacent(x.steps)
  /\ {x.seed, x.secret, x.contract} \subseteq Nat
  /\ x.net \in Networks \cup {NoNetwork}
  /\ x.seed # NoKey \/ Precedes("seed", x.steps)
  /\ x.secret # NoKey \/ Precedes("secret", x.steps)
  /\ x.seed # NoKey \/ x.secret # NoKey \/ x.contract # NoContract
       => x.net \in Networks
  /\ x.steps # <<>> =>
       IF x.steps[1] \in Unsettled
       THEN x.seed = NoKey /\ x.secret = NoKey /\ x.contract = NoContract
       ELSE x.net \in Networks

\* What it holds is on the chain, and complete when it is about to be recorded.
OnChain(x) ==
  /\ x.contract # NoContract =>
       x.contract \in 1..Len(exchanges) /\ exchanges[x.contract].net = x.net
  /\ x.steps # <<>> /\ x.steps[1] \in {"insert", "record"} =>
       x.contract # NoContract
  /\ x.steps # <<>> /\ x.steps[1] = "record" =>
       exchanges[x.contract].inserted = Circuits

\* No rewrite of the state file drops a key that was in it, or records a
\* contract that is not complete.
Extends(old, new) ==
  \A n \in Networks :
    /\ old.seed[n] # NoKey => new.seed[n] = old.seed[n]
    /\ old.secret[n] # NoKey => new.secret[n] = old.secret[n]

Recorded(f) ==
  \A n \in Networks :
    LET c == f.deployment[n] IN
    c # NoContract =>
      /\ c <= Len(exchanges)
      /\ exchanges[c].net = n /\ exchanges[c].inserted = Circuits

SavesWell(x) ==
  x.saving.name = "state" =>
    /\ x.saving.old \in StateFile /\ x.saving.new \in StateFile
    /\ Extends(x.saving.old, x.saving.new) /\ Recorded(x.saving.new)

\* Its keys are in the file, or in the rewrite it is in the middle of.
Kept(x) ==
  "state" \notin lost =>
    /\ x.seed # NoKey =>
         \/ Held(x.seed, file.seed[x.net])
         \/ x.saving.name = "state" /\ x.saving.new.seed[x.net] = x.seed
    /\ x.secret # NoKey =>
         \/ x.secret \in {EnvKey, file.secret[x.net]}
         \/ x.saving.name = "state" /\ x.saving.new.secret[x.net] = x.secret

ProcessOK(x) == Ready(x) /\ OnChain(x) /\ SavesWell(x) /\ Kept(x)

Exchanges ==
  [net: Networks, admin: Nat \ {NoKey}, deployer: Nat \ {NoKey},
   inserted: SUBSET Circuits]
Tokens ==
  [net: Networks, owner: Nat \ {NoKey}, deployer: Nat \ {NoKey}, minted: BOOLEAN]

FilesOK ==
  /\ file \in StateFile /\ Recorded(file)
  /\ exchanges \in Seq(Exchanges) /\ tokenContracts \in Seq(Tokens)
  /\ fresh \in Nat /\ fresh >= FirstKey /\ agenda \subseteq Launches

KeysOK ==
  "state" \notin lost =>
    /\ \A c \in 1..Len(exchanges) : LET x == exchanges[c] IN
         x.admin \in {EnvKey, file.secret[x.net]} /\ Held(x.deployer, file.seed[x.net])
    /\ \A c \in 1..Len(tokenContracts) : LET x == tokenContracts[c] IN
         x.owner \in {EnvKey, file.secret[x.net]} /\ Held(x.deployer, file.seed[x.net])

ScriptsInv ==
  /\ FilesOK /\ KeysOK
  /\ proc = [p \in Procs |-> proc[p]]
  /\ \A p \in Procs : ProcessOK(proc[p])

-----------------------------------------------------------------------------
(* Changing a process *)

Alike(x, y, fields) ==
  /\ "launch" \in fields \/ y.launch = x.launch
  /\ "steps" \in fields \/ y.steps = x.steps
  /\ "net" \in fields \/ y.net = x.net
  /\ "seed" \in fields \/ y.seed = x.seed
  /\ "secret" \in fields \/ y.secret = x.secret
  /\ "contract" \in fields \/ y.contract = x.contract
  /\ "saving" \in fields \/ y.saving = x.saving

LEMMA AlikeTwice ==
  ASSUME NEW x, NEW y, NEW z, NEW F, NEW G, Alike(x, y, F), Alike(y, z, G)
  PROVE  Alike(x, z, F \cup G)
BY DEF Alike

LEMMA NewSteps ==
  ASSUME NEW x, Shaped(x), NEW v
  PROVE  LET y == [x EXCEPT !.steps = v] IN
         Shaped(y) /\ y.steps = v /\ Alike(x, y, {"steps"})
<1> DEFINE y == [x EXCEPT !.steps = v]
<1>1. Shaped(y) BY DEF Shaped
<1>2. y.steps = v BY DEF Shaped
<1>3. Alike(x, y, {"steps"}) BY DEF Shaped, Alike
<1> QED BY <1>1, <1>2, <1>3

LEMMA NewNet ==
  ASSUME NEW x, Shaped(x), NEW v
  PROVE  LET y == [x EXCEPT !.net = v] IN
         Shaped(y) /\ y.net = v /\ Alike(x, y, {"net"})
<1> DEFINE y == [x EXCEPT !.net = v]
<1>1. Shaped(y) BY DEF Shaped
<1>2. y.net = v BY DEF Shaped
<1>3. Alike(x, y, {"net"}) BY DEF Shaped, Alike
<1> QED BY <1>1, <1>2, <1>3

LEMMA NewSeed ==
  ASSUME NEW x, Shaped(x), NEW v
  PROVE  LET y == [x EXCEPT !.seed = v] IN
         Shaped(y) /\ y.seed = v /\ Alike(x, y, {"seed"})
<1> DEFINE y == [x EXCEPT !.seed = v]
<1>1. Shaped(y) BY DEF Shaped
<1>2. y.seed = v BY DEF Shaped
<1>3. Alike(x, y, {"seed"}) BY DEF Shaped, Alike
<1> QED BY <1>1, <1>2, <1>3

LEMMA NewSecret ==
  ASSUME NEW x, Shaped(x), NEW v
  PROVE  LET y == [x EXCEPT !.secret = v] IN
         Shaped(y) /\ y.secret = v /\ Alike(x, y, {"secret"})
<1> DEFINE y == [x EXCEPT !.secret = v]
<1>1. Shaped(y) BY DEF Shaped
<1>2. y.secret = v BY DEF Shaped
<1>3. Alike(x, y, {"secret"}) BY DEF Shaped, Alike
<1> QED BY <1>1, <1>2, <1>3

LEMMA NewContract ==
  ASSUME NEW x, Shaped(x), NEW v
  PROVE  LET y == [x EXCEPT !.contract = v] IN
         Shaped(y) /\ y.contract = v /\ Alike(x, y, {"contract"})
<1> DEFINE y == [x EXCEPT !.contract = v]
<1>1. Shaped(y) BY DEF Shaped
<1>2. y.contract = v BY DEF Shaped
<1>3. Alike(x, y, {"contract"}) BY DEF Shaped, Alike
<1> QED BY <1>1, <1>2, <1>3

LEMMA NewSaving ==
  ASSUME NEW x, Shaped(x), NEW v
  PROVE  LET y == [x EXCEPT !.saving = v] IN
         Shaped(y) /\ y.saving = v /\ Alike(x, y, {"saving"})
<1> DEFINE y == [x EXCEPT !.saving = v]
<1>1. Shaped(y) BY DEF Shaped
<1>2. y.saving = v BY DEF Shaped
<1>3. Alike(x, y, {"saving"}) BY DEF Shaped, Alike
<1> QED BY <1>1, <1>2, <1>3

LEMMA NewToken ==
  ASSUME NEW x, Shaped(x), NEW v
  PROVE  LET y == [x EXCEPT !.token = v] IN
         Shaped(y) /\ y.token = v /\ Alike(x, y, {})
<1> DEFINE y == [x EXCEPT !.token = v]
<1>1. Shaped(y) BY DEF Shaped
<1>2. y.token = v BY DEF Shaped
<1>3. Alike(x, y, {}) BY DEF Shaped, Alike
<1> QED BY <1>1, <1>2, <1>3

LEMMA NewWallet ==
  ASSUME NEW x, Shaped(x), NEW v
  PROVE  LET y == [x EXCEPT !.wallet = v] IN
         Shaped(y) /\ y.wallet = v /\ Alike(x, y, {})
<1> DEFINE y == [x EXCEPT !.wallet = v]
<1>1. Shaped(y) BY DEF Shaped
<1>2. y.wallet = v BY DEF Shaped
<1>3. Alike(x, y, {}) BY DEF Shaped, Alike
<1> QED BY <1>1, <1>2, <1>3

LEMMA NewWrites ==
  ASSUME NEW x, Shaped(x), NEW v
  PROVE  LET y == [x EXCEPT !.writes = v] IN
         Shaped(y) /\ y.writes = v /\ Alike(x, y, {})
<1> DEFINE y == [x EXCEPT !.writes = v]
<1>1. Shaped(y) BY DEF Shaped
<1>2. y.writes = v BY DEF Shaped
<1>3. Alike(x, y, {}) BY DEF Shaped, Alike
<1> QED BY <1>1, <1>2, <1>3

LEMMA NewFlag ==
  ASSUME NEW x, Shaped(x), NEW v
  PROVE  LET y == [x EXCEPT !.launch.flag = v] IN
         /\ Shaped(y) /\ y.launch = [x.launch EXCEPT !.flag = v]
         /\ Alike(x, y, {"launch"})
<1> DEFINE y == [x EXCEPT !.launch.flag = v]
<1>1. Shaped(y) BY DEF Shaped
<1>2. y.launch = [x.launch EXCEPT !.flag = v] BY DEF Shaped
<1>3. Alike(x, y, {"launch"}) BY DEF Shaped, Alike
<1> QED BY <1>1, <1>2, <1>3

-----------------------------------------------------------------------------
(* A step of one process *)

Same == UNCHANGED <<file, exchanges, tokenContracts, lost>>

LEMMA NowOK ==
  ASSUME NEW q, NEW x, proc'[q] = x, ProcessOK(x)' PROVE ProcessOK(proc[q])'
<1>1. Ready(proc[q])' BY DEF ProcessOK, Ready
<1>2. OnChain(proc[q])' BY DEF ProcessOK, OnChain
<1>3. SavesWell(proc[q])' BY DEF ProcessOK, SavesWell
<1>4. Kept(proc[q])' BY DEF ProcessOK, Kept
<1> QED BY <1>1, <1>2, <1>3, <1>4 DEF ProcessOK

LEMMA OneMoves ==
  ASSUME ScriptsInv, NEW p \in Procs, NEW y, ProcessOK(y), Becomes(p, y),
         Same, fresh' \in Nat, fresh' >= fresh, agenda' \subseteq agenda
  PROVE  ScriptsInv'
<1>1. FilesOK' BY DEF ScriptsInv, FilesOK, Recorded, Same, FirstKey
<1>2. KeysOK' BY DEF ScriptsInv, KeysOK, Same
<1>3. \A x : ProcessOK(x) =>
        /\ Ready(x)
        /\ OnChain(x)' = OnChain(x) /\ SavesWell(x)' = SavesWell(x)
        /\ Kept(x)' = Kept(x)
  BY DEF ProcessOK, OnChain, SavesWell, Recorded, Kept, Same
<1>4. proc' = [q \in Procs |-> IF q = p THEN y ELSE proc[q]]
  BY DEF ScriptsInv, Becomes
<1>5. ASSUME NEW q \in Procs PROVE ProcessOK(proc[q])'
  <2>1. PICK x : x = proc'[q] OBVIOUS
  <2>2. ProcessOK(x) BY <1>4, <2>1 DEF ScriptsInv
  <2>3. ProcessOK(x)' BY <1>3, <2>2 DEF ProcessOK
  <2> QED BY <2>1, <2>3, NowOK
<1> QED BY <1>1, <1>2, <1>4, <1>5 DEF ScriptsInv

\* The process holds what it held, and is not about to rewrite the state file.
Carries(x, y) ==
  /\ y.launch = x.launch /\ y.net = x.net
  /\ y.seed = x.seed /\ y.secret = x.secret /\ y.contract = x.contract
  /\ \/ y.saving = x.saving
     \/ /\ x.saving = NoSave
        /\ y.saving.name = "token"

\* Steps that change what a process holds, or what it may do next.
Turning == Unsettled \cup Deploys \cup {"seed", "secret", "insert", "deployment"}

LEMMA CarryOn ==
  ASSUME NEW x, ProcessOK(x), NEW y, Shaped(y), Carries(x, y), y.steps = x.steps
  PROVE  ProcessOK(y)
BY DEF ProcessOK, Carries, Ready, OnChain, SavesWell, Kept, NoSave

LEMMA Advances ==
  ASSUME NEW x, ProcessOK(x), x.steps # <<>>, Head(x.steps) \notin Turning,
         NEW y, Shaped(y), Carries(x, y), y.steps = Tail(x.steps)
  PROVE  ProcessOK(y)
<1>1. x.steps \in Seq(Steps) /\ Adjacent(x.steps) BY DEF ProcessOK, Ready
<1>2. /\ x.steps[1] \notin Turning /\ y.steps \in Seq(Steps) /\ Adjacent(y.steps)
      /\ y.steps # <<>> => y.steps[1] \notin Unsettled \cup {"record", "insert"}
  BY <1>1, Rest DEF Turning, Deploys
<1>3. /\ Precedes("seed", x.steps) => Precedes("seed", y.steps)
      /\ Precedes("secret", x.steps) => Precedes("secret", y.steps)
  BY <1>1, <1>2, KeyBeforeContract DEF Turning
<1>4. x.net \in Networks BY <1>2 DEF ProcessOK, Ready, Turning
<1>5. Ready(y) BY <1>2, <1>3, <1>4 DEF ProcessOK, Carries, Ready
<1>6. OnChain(y) BY <1>2 DEF ProcessOK, Carries, OnChain
<1>7. SavesWell(y) /\ Kept(y) BY DEF ProcessOK, Carries, SavesWell, Kept, NoSave
<1> QED BY <1>5, <1>6, <1>7 DEF ProcessOK

LEMMA HeadOf ==
  ASSUME ScriptsInv, NEW p \in Procs, NEW step, At(p, step)
  PROVE  /\ ProcessOK(proc[p]) /\ Shaped(proc[p]) /\ proc[p].saving = NoSave
         /\ proc[p].steps \in Seq(Steps) /\ proc[p].steps # <<>>
         /\ Head(proc[p].steps) = step /\ proc[p].steps[1] = step
BY Rest DEF ScriptsInv, At, ProcessOK, Ready

\* A step that leaves the state file, the contracts and the keys alone.
Aside == UNCHANGED <<file, chainVars, lost, fresh, agenda>>

LEMMA GoesOn ==
  ASSUME ScriptsInv, NEW p \in Procs, NEW step, At(p, step), step \notin Turning,
         NEW y, Becomes(p, y), Shaped(y), Carries(proc[p], y),
         y.steps \in {proc[p].steps, Tail(proc[p].steps)}, Aside
  PROVE  ScriptsInv'
<1>0. /\ ProcessOK(proc[p]) /\ proc[p].steps # <<>>
      /\ Head(proc[p].steps) \notin Turning
  BY HeadOf
<1>1. ProcessOK(y) BY <1>0, CarryOn, Advances
<1>2. Same /\ fresh' \in Nat /\ fresh' >= fresh /\ agenda' \subseteq agenda
  BY DEF Aside, Same, chainVars, ScriptsInv, FilesOK
<1> QED BY <1>1, <1>2, OneMoves

LEMMA AlikeCarries ==
  ASSUME NEW x, NEW y, Alike(x, y, {}) \/ Alike(x, y, {"steps"}) PROVE Carries(x, y)
BY DEF Alike, Carries

LEMMA Advancing ==
  ASSUME NEW p, Shaped(proc[p])
  PROVE  /\ Shaped(Advanced(p)) /\ Advanced(p).steps = Tail(proc[p].steps)
         /\ Alike(proc[p], Advanced(p), {"steps"})
BY NewSteps DEF Advanced

LEMMA WaitingKeeps ==
  ASSUME ScriptsInv, NEW p \in Procs, Wait(p) \/ Synced(p) \/ Administer(p)
  PROVE  ScriptsInv'
<1>1. Aside /\ Becomes(p, Advanced(p))
  BY DEF Wait, Synced, Administer, Aside, historyVars, fileVars
<1>2. PICK step \in Idles \cup AdminSteps \cup {"checkpoints"} : At(p, step)
  BY DEF Wait, Synced, Administer
<1>3. step \notin Turning
  BY DEF Idles, AdminSteps, Turning, Unsettled, Deploys
<1>4. /\ Shaped(Advanced(p)) /\ Carries(proc[p], Advanced(p))
      /\ Advanced(p).steps = Tail(proc[p].steps)
  <2>1. Shaped(proc[p]) BY <1>2, HeadOf
  <2>2. /\ Shaped(Advanced(p)) /\ Advanced(p).steps = Tail(proc[p].steps)
        /\ Alike(proc[p], Advanced(p), {"steps"})
    BY <2>1, Advancing
  <2> QED BY <2>2, AlikeCarries
<1> QED BY <1>1, <1>2, <1>3, <1>4, GoesOn

LEMMA WalletKeeps ==
  ASSUME ScriptsInv, NEW p \in Procs, CreateWallet(p) \/ Persist(p)
  PROVE  ScriptsInv'
<1>1. Aside BY DEF CreateWallet, Persist, Aside, fileVars
<1>2. PICK step \in {"wallet", "persist", "checkpoints"} : At(p, step)
  BY DEF CreateWallet, Persist
<1>3. step \notin Turning BY DEF Turning, Unsettled, Deploys
<1>4. PICK y : /\ Becomes(p, y)
               /\ \/ \E w : y = [Advanced(p) EXCEPT !.wallet = w]
                  \/ \E ws : y = [Advanced(p) EXCEPT !.writes = ws]
                  \/ \E ws : y = [proc[p] EXCEPT !.writes = ws]
  BY DEF CreateWallet, Persist
<1>5. Shaped(proc[p]) BY <1>2, HeadOf
<1>6. /\ Shaped(Advanced(p)) /\ Advanced(p).steps = Tail(proc[p].steps)
      /\ Alike(proc[p], Advanced(p), {"steps"})
  BY <1>5, Advancing
<1>7. /\ Shaped(y) /\ Carries(proc[p], y)
      /\ y.steps \in {proc[p].steps, Tail(proc[p].steps)}
  <2>1. CASE \E ws : y = [proc[p] EXCEPT !.writes = ws]
    <3>1. Shaped(y) /\ Alike(proc[p], y, {}) BY <2>1, <1>5, NewWrites
    <3>2. y.steps = proc[p].steps BY <3>1 DEF Alike
    <3> QED BY <3>1, <3>2, AlikeCarries
  <2>2. ASSUME \/ \E w : y = [Advanced(p) EXCEPT !.wallet = w]
               \/ \E ws : y = [Advanced(p) EXCEPT !.writes = ws]
        PROVE  /\ Shaped(y) /\ Carries(proc[p], y)
               /\ y.steps = Tail(proc[p].steps)
    <3>1. Shaped(y) /\ Alike(Advanced(p), y, {})
      BY <2>2, <1>6, NewWallet, NewWrites
    <3>2. y.steps = Tail(proc[p].steps) BY <3>1, <1>6 DEF Alike
    <3>3. Alike(proc[p], y, {"steps"} \cup {}) BY <3>1, <1>6, AlikeTwice
    <3>4. {"steps"} \cup {} = {"steps"} OBVIOUS
    <3> QED BY <3>1, <3>2, <3>3, <3>4, AlikeCarries
  <2> QED BY <2>1, <2>2, <1>4
<1> QED BY <1>1, <1>2, <1>3, <1>4, <1>7, GoesOn

LEMMA CacheKeeps ==
  ASSUME ScriptsInv, NEW p \in Procs, WriteCacheFile(p) PROVE ScriptsInv'
<1> DEFINE y == [proc[p] EXCEPT !.writes = Tail(@)]
<1>1. /\ Same /\ fresh' = fresh /\ agenda' = agenda /\ Becomes(p, y)
  BY DEF WriteCacheFile, Same, chainVars
<1>2. ProcessOK(proc[p]) /\ Shaped(proc[p])
  BY DEF ScriptsInv, ProcessOK, Ready
<1>3. Shaped(y) /\ Alike(proc[p], y, {}) BY <1>2, NewWrites
<1> HIDE DEF y
<1>4. Carries(proc[p], y) /\ y.steps = proc[p].steps
  BY <1>3, AlikeCarries DEF Alike
<1>5. ProcessOK(y) BY <1>2, <1>3, <1>4, CarryOn
<1>6. fresh' \in Nat /\ fresh' >= fresh /\ agenda' \subseteq agenda
  BY <1>1 DEF ScriptsInv, FilesOK
<1> QED BY <1>1, <1>5, <1>6, OneMoves

LEMMA TokensKeep ==
  ASSUME ScriptsInv, NEW p \in Procs,
         ReadToken(p) \/ RecordToken(p) \/ RecordColor(p)
  PROVE  ScriptsInv'
<1>1. Aside
  BY DEF ReadToken, RecordToken, RecordColor, Aside, fileVars, historyVars
<1>2. PICK step \in {"token", "color", "recordToken", "recordColor"} : At(p, step)
  BY DEF ReadToken, RecordToken, RecordColor
<1>3. step \notin Turning BY DEF Turning, Unsettled, Deploys
<1>4. PICK y : /\ Becomes(p, y)
               /\ \/ y = Advanced(p)
                  \/ \E t : y = [Advanced(p) EXCEPT !.token = t]
                  \/ \E old, new :
                       y = [Advanced(p) EXCEPT !.saving = Saving("token", old, new)]
  BY DEF ReadToken, RecordToken, RecordColor
<1>5. Shaped(proc[p]) /\ proc[p].saving = NoSave BY <1>2, HeadOf
<1>6. /\ Shaped(Advanced(p)) /\ Advanced(p).steps = Tail(proc[p].steps)
      /\ Alike(proc[p], Advanced(p), {"steps"})
  BY <1>5, Advancing
<1>7. Shaped(y) /\ Carries(proc[p], y) /\ y.steps = Tail(proc[p].steps)
  <2>1. CASE y = Advanced(p) BY <2>1, <1>6, AlikeCarries
  <2>2. CASE \E t : y = [Advanced(p) EXCEPT !.token = t]
    <3>1. Shaped(y) /\ Alike(Advanced(p), y, {}) BY <2>2, <1>6, NewToken
    <3>2. y.steps = Tail(proc[p].steps) BY <3>1, <1>6 DEF Alike
    <3>3. Alike(proc[p], y, {"steps"} \cup {}) BY <3>1, <1>6, AlikeTwice
    <3>4. {"steps"} \cup {} = {"steps"} OBVIOUS
    <3> QED BY <3>1, <3>2, <3>3, <3>4, AlikeCarries
  <2>3. ASSUME NEW old, NEW new,
               y = [Advanced(p) EXCEPT !.saving = Saving("token", old, new)]
        PROVE  /\ Shaped(y) /\ Carries(proc[p], y)
               /\ y.steps = Tail(proc[p].steps)
    <3>1. /\ Shaped(y) /\ y.saving = Saving("token", old, new)
          /\ Alike(Advanced(p), y, {"saving"})
      BY <2>3, <1>6, NewSaving
    <3>2. y.steps = Tail(proc[p].steps) BY <3>1, <1>6 DEF Alike
    <3>3. Alike(proc[p], y, {"steps"} \cup {"saving"}) BY <3>1, <1>6, AlikeTwice
    <3>4. y.saving.name = "token" BY <3>1 DEF Saving
    <3>5. Carries(proc[p], y) BY <3>3, <3>4, <1>5 DEF Alike, Carries
    <3> QED BY <3>1, <3>2, <3>5
  <2> QED BY <2>1, <2>2, <2>3, <1>4
<1> QED BY <1>1, <1>2, <1>3, <1>4, <1>7, GoesOn

\* A step that finds the network, a key or a contract, or begins a rewrite of
\* the state file: only the process changes.
LEMMA TurnsInto ==
  ASSUME ScriptsInv, NEW p \in Procs, NEW step, At(p, step),
         NEW y, Becomes(p, y), Shaped(y), y.steps = Tail(proc[p].steps),
         y.launch \in Launches, y.net \in Networks \cup {NoNetwork},
         y.seed \in Nat, y.secret \in Nat, y.contract \in Nat,
         step # "seed" => y.seed = proc[p].seed,
         step # "secret" => y.secret = proc[p].secret,
         step = "seed" => y.seed # NoKey,
         step = "secret" => y.secret # NoKey,
         step \in Unsettled =>
           y.contract = proc[p].contract /\ (step = "network" => y.net \in Networks),
         step \notin Unsettled => y.net = proc[p].net
  PROVE  Ready(y)
<1> DEFINE x == proc[p]
<1>1. /\ ProcessOK(x) /\ x.steps \in Seq(Steps) /\ x.steps # <<>> /\ x.steps[1] = step
      /\ Adjacent(x.steps)
  BY HeadOf DEF ProcessOK, Ready
<1>2. Ready(x) BY <1>1 DEF ProcessOK
<1> HIDE DEF x
<1>3. /\ y.steps \in Seq(Steps) /\ Adjacent(y.steps)
      /\ y.steps # <<>> =>
           /\ y.steps[1] \in Unsettled => step \in Unsettled
           /\ y.steps[1] \notin Unsettled => step \notin Unsettled \ {"network"}
  BY <1>1, Rest DEF x
<1>4. /\ y.seed # NoKey \/ Precedes("seed", y.steps)
      /\ y.secret # NoKey \/ Precedes("secret", y.steps)
  BY <1>1, <1>2, KeyBeforeContract DEF Ready, x
<1>5. step \in Unsettled =>
        y.seed = NoKey /\ y.secret = NoKey /\ y.contract = NoContract
  BY <1>1, <1>2 DEF Ready, x, Unsettled
<1>6. step \notin Unsettled => y.net \in Networks BY <1>1, <1>2 DEF Ready, x
<1> QED BY <1>3, <1>4, <1>5, <1>6 DEF Ready

LEMMA StaysOnChain ==
  ASSUME ScriptsInv, NEW p \in Procs, NEW step, At(p, step),
         step \notin Deploys \cup {"insert"},
         NEW y, y.steps = Tail(proc[p].steps),
         y.contract # NoContract =>
           y.contract \in 1..Len(exchanges) /\ exchanges[y.contract].net = y.net
  PROVE  OnChain(y)
<1> DEFINE x == proc[p]
<1>1. /\ ProcessOK(x) /\ x.steps \in Seq(Steps) /\ x.steps # <<>> /\ x.steps[1] = step
      /\ Adjacent(x.steps)
  BY HeadOf DEF ProcessOK, Ready
<1> HIDE DEF x
<1>2. y.steps # <<>> => y.steps[1] \notin {"insert", "record"}
  BY <1>1, Rest DEF x, Deploys
<1> QED BY <1>2 DEF OnChain

\* The network is found.
LEMMA NetworkKeeps ==
  ASSUME ScriptsInv, NEW p \in Procs, Forward(p) \/ Activate(p) \/ Resolve(p)
  PROVE  ScriptsInv'
<1> DEFINE x == proc[p]
<1>1. Aside
  BY DEF Forward, Activate, Resolve, Aside, fileVars, historyVars
<1>2. PICK step \in Unsettled :
        /\ At(p, step)
        /\ step = "forward" => Forward(p)
        /\ step = "activate" => Activate(p)
        /\ step = "network" => Resolve(p)
  BY DEF Forward, Activate, Resolve, Unsettled, At
<1>3. /\ ProcessOK(x) /\ Shaped(x) /\ x.saving = NoSave
      /\ x.steps \in Seq(Steps) /\ x.steps # <<>> /\ x.steps[1] = step
  BY <1>2, HeadOf
<1>4. /\ x.seed = NoKey /\ x.secret = NoKey /\ x.contract = NoContract
      /\ x.launch \in Launches /\ x.net \in Networks \cup {NoNetwork}
  BY <1>2, <1>3 DEF ProcessOK, Ready
<1>5. /\ Shaped(Advanced(p)) /\ Advanced(p).steps = Tail(x.steps)
      /\ Alike(x, Advanced(p), {"steps"})
  BY <1>3, Advancing
<1>6. x.launch.flag \in Networks \cup {NoNetwork} BY <1>4 DEF Launches
<1>7. file \in StateFile /\ Recorded(file) BY DEF ScriptsInv, FilesOK
<1> HIDE DEF x
<1>8. PICK y : /\ Becomes(p, y) /\ Shaped(y)
               /\ y.steps = Tail(x.steps) /\ y.launch \in Launches
               /\ y.seed = NoKey /\ y.secret = NoKey /\ y.contract = NoContract
               /\ y.net \in Networks \cup {NoNetwork}
               /\ step = "network" => y.net \in Networks
               /\ \/ y.saving = NoSave
                  \/ \E n \in Networks :
                       y.saving = Saving("state", file, WithActive(file, n))
  <2>1. CASE step = "forward"
    <3>1. PICK v \in Networks \cup {NoNetwork} :
            Becomes(p, [Advanced(p) EXCEPT !.launch.flag = v])
      BY <2>1, <1>2, <1>4 DEF Forward, x
    <3> DEFINE a == Advanced(p)
               y == [a EXCEPT !.launch.flag = v]
    <3>2. Shaped(a) /\ a.launch = x.launch BY <1>5 DEF Alike
    <3> HIDE DEF a
    <3>3. Shaped(y) /\ Alike(a, y, {"launch"}) /\ y.launch = [x.launch EXCEPT !.flag = v]
      BY <3>2, NewFlag
    <3>4. y.launch \in Launches BY <3>3, <1>4 DEF Launches
    <3>5. Alike(x, y, {"steps"} \cup {"launch"}) BY <3>3, <1>5, AlikeTwice DEF a
    <3>6. y.steps = Tail(x.steps) BY <3>3, <1>5 DEF Alike, a
    <3> HIDE DEF y
    <3>7. Becomes(p, y) BY <3>1 DEF y, a
    <3> QED BY <3>3, <3>4, <3>5, <3>6, <3>7, <2>1, <1>3, <1>4 DEF Alike
  <2>2. CASE step = "activate" /\ Becomes(p, Advanced(p))
    BY <2>2, <1>3, <1>4, <1>5 DEF Alike
  <2>3. CASE step = "activate" /\ ~Becomes(p, Advanced(p))
    <3>1. PICK n \in Networks :
            Becomes(p, [Advanced(p) EXCEPT
                          !.saving = Saving("state", file, WithActive(file, n))])
      BY <2>3, <1>2, <1>6 DEF Activate, x
    <3> DEFINE a == Advanced(p)
               v == Saving("state", file, WithActive(file, n))
               y == [a EXCEPT !.saving = v]
    <3> HIDE DEF a, v
    <3>2. Shaped(y) /\ y.saving = v /\ Alike(a, y, {"saving"})
      BY <1>5, NewSaving DEF a
    <3>3. Alike(x, y, {"steps"} \cup {"saving"}) BY <3>2, <1>5, AlikeTwice DEF a
    <3>4. y.steps = Tail(x.steps) BY <3>2, <1>5 DEF Alike, a
    <3> HIDE DEF y
    <3>5. Becomes(p, y) BY <3>1 DEF y, a, v
    <3> QED BY <3>2, <3>3, <3>4, <3>5, <2>3, <1>4 DEF Alike, v
  <2>4. CASE step = "network"
    <3> DEFINE a == Advanced(p)
               v == ResolveNetwork(x.launch.flag, file)
               y == [a EXCEPT !.net = v]
    <3>1. Becomes(p, y) BY <2>4, <1>2 DEF Resolve, x
    <3>2. v \in Networks
      BY <1>6, <1>7, StateFileConstants DEF ResolveNetwork, StateFile
    <3> HIDE DEF a, v
    <3>3. Shaped(y) /\ y.net = v /\ Alike(a, y, {"net"}) BY <1>5, NewNet DEF a
    <3>4. Alike(x, y, {"steps"} \cup {"net"}) BY <3>3, <1>5, AlikeTwice DEF a
    <3>5. y.steps = Tail(x.steps) BY <3>3, <1>5 DEF Alike, a
    <3> HIDE DEF y
    <3> QED BY <3>1, <3>2, <3>3, <3>4, <3>5, <1>3, <1>4 DEF Alike
  <2> QED BY <1>2, <2>1, <2>2, <2>3, <2>4 DEF Unsettled
<1>9. Ready(y)
  <2>1. step \notin {"seed", "secret"} BY <1>2 DEF Unsettled
  <2>2. y.seed \in Nat /\ y.secret \in Nat /\ y.contract \in Nat
    BY <1>8 DEF NoKey, NoContract
  <2> QED BY <1>2, <1>4, <1>8, <2>1, <2>2, TurnsInto DEF x
<1>10. OnChain(y)
  BY <1>2, <1>8, StaysOnChain DEF x, Unsettled, Deploys
<1>11. SavesWell(y)
  <2>1. CASE y.saving = NoSave BY <2>1 DEF SavesWell, NoSave
  <2>2. ASSUME NEW n \in Networks, y.saving = Saving("state", file, WithActive(file, n))
        PROVE  SavesWell(y)
    <3> DEFINE new == WithActive(file, n)
    <3>1. new \in StateFile /\ Extends(file, new) /\ Recorded(new)
      BY <1>7 DEF WithActive, StateFile, Extends, Recorded
    <3> HIDE DEF new
    <3>2. y.saving.old = file /\ y.saving.new = new BY <2>2 DEF Saving, new
    <3> QED BY <3>1, <3>2, <1>7 DEF SavesWell
  <2> QED BY <2>1, <2>2, <1>8
<1>12. Kept(y) BY <1>8 DEF Kept
<1>13. Same /\ fresh' \in Nat /\ fresh' >= fresh /\ agenda' \subseteq agenda
  BY <1>1 DEF Aside, Same, chainVars, ScriptsInv, FilesOK
<1> QED BY <1>8, <1>9, <1>10, <1>11, <1>12, <1>13, OneMoves DEF ProcessOK

\* What holds of a process at a step once it has its network.
LEMMA Settled ==
  ASSUME ScriptsInv, NEW p \in Procs, NEW step, At(p, step), step \notin Unsettled
  PROVE  LET x == proc[p] IN
         /\ ProcessOK(x) /\ Shaped(x) /\ x.saving = NoSave
         /\ x.steps \in Seq(Steps) /\ x.steps # <<>> /\ x.steps[1] = step
         /\ x.launch \in Launches /\ x.net \in Networks
         /\ x.seed \in Nat /\ x.secret \in Nat /\ x.contract \in Nat
         /\ Shaped(Advanced(p)) /\ Advanced(p).steps = Tail(x.steps)
         /\ Alike(x, Advanced(p), {"steps"})
<1> DEFINE x == proc[p]
<1>1. /\ ProcessOK(x) /\ Shaped(x) /\ x.saving = NoSave
      /\ x.steps \in Seq(Steps) /\ x.steps # <<>> /\ x.steps[1] = step
  BY HeadOf
<1>2. /\ Shaped(Advanced(p)) /\ Advanced(p).steps = Tail(x.steps)
      /\ Alike(x, Advanced(p), {"steps"})
  BY <1>1, Advancing
<1> HIDE DEF x
<1>3. /\ x.launch \in Launches /\ x.net \in Networks
      /\ x.seed \in Nat /\ x.secret \in Nat /\ x.contract \in Nat
  BY <1>1 DEF ProcessOK, Ready
<1> QED BY <1>1, <1>2, <1>3 DEF x

LEMMA DeploymentKeeps ==
  ASSUME ScriptsInv, NEW p \in Procs, ReadDeployment(p) PROVE ScriptsInv'
<1> DEFINE x == proc[p]
           v == file.deployment[x.net]
           a == Advanced(p)
           y == [a EXCEPT !.contract = v]
<1>1. /\ Aside /\ At(p, "deployment") /\ Becomes(p, y) /\ v # NoContract
  BY DEF ReadDeployment, Aside, fileVars, historyVars
<1>2. "deployment" \notin Unsettled \cup Deploys \cup {"insert"} BY DEF Unsettled, Deploys
<1>3. /\ ProcessOK(x) /\ x.launch \in Launches /\ x.net \in Networks
      /\ x.seed \in Nat /\ x.secret \in Nat /\ x.saving = NoSave
      /\ Shaped(a) /\ a.steps = Tail(x.steps) /\ Alike(x, a, {"steps"})
  BY <1>1, <1>2, Settled
<1>4. /\ v \in Nat /\ v \in 1..Len(exchanges) /\ exchanges[v].net = x.net
  BY <1>1, <1>3 DEF ScriptsInv, FilesOK, Recorded, StateFile, NoContract
<1> HIDE DEF x, v, a
<1>5. Shaped(y) /\ y.contract = v /\ Alike(a, y, {"contract"})
  BY <1>3, NewContract
<1> HIDE DEF y
<1>6. Alike(x, y, {"steps"} \cup {"contract"}) BY <1>3, <1>5, AlikeTwice
<1>7. /\ y.steps = Tail(x.steps) /\ y.launch = x.launch /\ y.net = x.net
      /\ y.seed = x.seed /\ y.secret = x.secret /\ y.saving = x.saving
  BY <1>3, <1>5, <1>6 DEF Alike
<1>8. Ready(y)
  BY <1>1, <1>2, <1>3, <1>4, <1>5, <1>7, TurnsInto DEF x
<1>9. OnChain(y)
  BY <1>1, <1>2, <1>4, <1>5, <1>7, StaysOnChain DEF x
<1>10. SavesWell(y) /\ Kept(y)
  BY <1>3, <1>7 DEF ProcessOK, SavesWell, Kept
<1>11. Same /\ fresh' \in Nat /\ fresh' >= fresh /\ agenda' \subseteq agenda
  BY <1>1 DEF Aside, Same, chainVars, ScriptsInv, FilesOK
<1> QED BY <1>1, <1>5, <1>8, <1>9, <1>10, <1>11, OneMoves DEF ProcessOK, y, v, a, x

\* The rewrites of the state file.
LEMMA SeedSaved ==
  ASSUME NEW f \in StateFile, NEW n \in Networks, NEW k \in Nat
  PROVE  LET new == WithSeed(f, n, k) IN
         /\ new \in StateFile /\ new.seed = [f.seed EXCEPT ![n] = k]
         /\ new.secret = f.secret /\ new.deployment = f.deployment
BY DEF WithSeed, StateFile

LEMMA SecretSaved ==
  ASSUME NEW f \in StateFile, NEW n \in Networks, NEW k \in Nat
  PROVE  LET new == WithSecret(f, n, k) IN
         /\ new \in StateFile /\ new.secret = [f.secret EXCEPT ![n] = k]
         /\ new.seed = f.seed /\ new.deployment = f.deployment
BY DEF WithSecret, Existing, StateFile

LEMMA DeploymentSaved ==
  ASSUME NEW f \in StateFile, NEW n \in Networks, NEW k \in Nat
  PROVE  LET new == WithDeployment(f, n, k) IN
         /\ new \in StateFile /\ new.deployment = [f.deployment EXCEPT ![n] = k]
         /\ new.seed = f.seed /\ new.secret = f.secret
BY DEF WithDeployment, Existing, StateFile

LEMMA SeedKeeps ==
  ASSUME ScriptsInv, NEW p \in Procs, GetSeed(p) PROVE ScriptsInv'
<1> DEFINE x == proc[p]
           known == Found(KnownSeed(x.net, x.launch.env, file))
           new == WithSeed(file, x.net, fresh)
           a == Advanced(p)
<1>1. At(p, "seed") /\ UNCHANGED <<fileVars, chainVars, agenda, historyVars>>
  BY DEF GetSeed
<1>2. "seed" \notin Unsettled \cup Deploys \cup {"insert"} BY DEF Unsettled, Deploys
<1>3. /\ ProcessOK(x) /\ x.launch \in Launches /\ x.net \in Networks
      /\ x.secret \in Nat /\ x.contract \in Nat /\ x.saving = NoSave
      /\ Shaped(a) /\ a.steps = Tail(x.steps) /\ Alike(x, a, {"steps"})
  BY <1>1, <1>2, Settled
<1>4. file \in StateFile /\ Recorded(file) /\ fresh \in Nat /\ fresh >= FirstKey
  BY DEF ScriptsInv, FilesOK
<1>5. known \in Nat /\ Held(known, file.seed[x.net])
  BY <1>3, <1>4 DEF KnownSeed, Found, Held, Genesis, EnvKey, StateFile
<1>6. /\ new \in StateFile /\ Recorded(new) /\ new.seed[x.net] = fresh
      /\ known = NoKey => Extends(file, new)
  <2>1. /\ new \in StateFile /\ new.seed = [file.seed EXCEPT ![x.net] = fresh]
        /\ new.secret = file.secret /\ new.deployment = file.deployment
    BY <1>3, <1>4, SeedSaved
  <2>2. file.seed \in [Networks -> Nat] BY <1>4 DEF StateFile
  <2>3. known = NoKey => file.seed[x.net] = NoKey
    BY DEF KnownSeed, Found, Genesis, EnvKey, NoKey
  <2> HIDE DEF new, known, x
  <2> QED BY <2>1, <2>2, <2>3, <1>3, <1>4 DEF Extends, Recorded
<1> HIDE DEF x, a, known, new
<1>7. PICK y : /\ Becomes(p, y) /\ Shaped(y) /\ y.seed \in Nat \ {NoKey}
               /\ Alike(x, y, {"steps", "seed", "saving"}) /\ y.steps = Tail(x.steps)
               /\ \/ /\ y.saving = NoSave
                     /\ Held(y.seed, file.seed[x.net])
                  \/ /\ y.saving = Saving("state", file, new)
                     /\ y.seed = fresh /\ known = NoKey
  <2>1. CASE known # NoKey
    <3> DEFINE y == [a EXCEPT !.seed = known]
    <3>1. Becomes(p, y) BY <2>1 DEF GetSeed, known, x, a
    <3>2. Shaped(y) /\ y.seed = known /\ Alike(a, y, {"seed"}) BY <1>3, NewSeed
    <3> HIDE DEF y
    <3>3. Alike(x, y, {"steps"} \cup {"seed"}) BY <3>2, <1>3, AlikeTwice
    <3>4. y.steps = Tail(x.steps) /\ y.saving = NoSave
      BY <3>2, <3>3, <1>3 DEF Alike
    <3>5. Alike(x, y, {"steps", "seed", "saving"}) BY <3>3 DEF Alike
    <3> QED BY <2>1, <3>1, <3>2, <3>4, <3>5, <1>5
  <2>2. CASE known = NoKey
    <3> DEFINE s == Saving("state", file, new)
               b == [a EXCEPT !.seed = fresh]
               y == [b EXCEPT !.saving = s]
    <3>1. Becomes(p, [a EXCEPT !.seed = fresh, !.saving = s])
      BY <2>2 DEF GetSeed, known, x, a, new
    <3> HIDE DEF s
    <3>2. y = [a EXCEPT !.seed = fresh, !.saving = s] OBVIOUS
    <3>3. Shaped(b) /\ b.seed = fresh /\ Alike(a, b, {"seed"}) BY <1>3, NewSeed
    <3> HIDE DEF b
    <3>4. Shaped(y) /\ y.saving = s /\ Alike(b, y, {"saving"}) BY <3>3, NewSaving
    <3>5. Becomes(p, y) BY <3>1, <3>2
    <3> HIDE DEF y
    <3>6. Alike(x, b, {"steps"} \cup {"seed"}) BY <3>3, <1>3, AlikeTwice
    <3>7. Alike(x, y, {"steps"} \cup {"seed"} \cup {"saving"})
      BY <3>4, <3>6, AlikeTwice
    <3>8. y.steps = Tail(x.steps) /\ y.seed = fresh BY <3>3, <3>4, <1>3 DEF Alike
    <3>9. Alike(x, y, {"steps", "seed", "saving"}) BY <3>7 DEF Alike
    <3>10. fresh # NoKey BY <1>4 DEF FirstKey, NoKey
    <3> QED BY <2>2, <3>4, <3>5, <3>8, <3>9, <3>10, <1>4 DEF s
  <2> QED BY <2>1, <2>2
<1>8. /\ y.launch = x.launch /\ y.net = x.net /\ y.secret = x.secret
      /\ y.contract = x.contract
  BY <1>7 DEF Alike
<1>9. Ready(y)
  BY <1>1, <1>2, <1>3, <1>7, <1>8, TurnsInto DEF x
<1>10. OnChain(y)
  <2>1. OnChain(x) BY <1>3 DEF ProcessOK
  <2>2. y.contract # NoContract =>
          y.contract \in 1..Len(exchanges) /\ exchanges[y.contract].net = y.net
    BY <2>1, <1>8 DEF OnChain
  <2> QED BY <2>2, <1>1, <1>2, <1>7, StaysOnChain DEF x
<1>11. SavesWell(y)
  BY <1>4, <1>6, <1>7 DEF SavesWell, NoSave, Saving
<1>12. Kept(y)
  <2>1. Kept(x) /\ x.saving.name # "state" BY <1>3 DEF ProcessOK, NoSave
  <2> QED BY <2>1, <1>6, <1>7, <1>8 DEF Kept, Saving
<1>13. Same /\ fresh' \in Nat /\ fresh' >= fresh /\ agenda' \subseteq agenda
  BY <1>1, <1>4 DEF GetSeed, Same, chainVars, fileVars, historyVars
<1> QED BY <1>7, <1>9, <1>10, <1>11, <1>12, <1>13, OneMoves DEF ProcessOK

LEMMA SecretKeeps ==
  ASSUME ScriptsInv, NEW p \in Procs, GetSecret(p) PROVE ScriptsInv'
<1> DEFINE x == proc[p]
           known == Found(KnownSecret(x.net, x.launch.env, file))
           new == WithSecret(file, x.net, fresh)
           a == Advanced(p)
<1>1. At(p, "secret") /\ UNCHANGED <<fileVars, chainVars, agenda, historyVars>>
  BY DEF GetSecret
<1>2. "secret" \notin Unsettled \cup Deploys \cup {"insert"} BY DEF Unsettled, Deploys
<1>3. /\ ProcessOK(x) /\ x.launch \in Launches /\ x.net \in Networks
      /\ x.seed \in Nat /\ x.contract \in Nat /\ x.saving = NoSave
      /\ Shaped(a) /\ a.steps = Tail(x.steps) /\ Alike(x, a, {"steps"})
  BY <1>1, <1>2, Settled
<1>4. file \in StateFile /\ Recorded(file) /\ fresh \in Nat /\ fresh >= FirstKey
  BY DEF ScriptsInv, FilesOK
<1>5. known \in Nat /\ known \in {EnvKey, file.secret[x.net]}
  BY <1>3, <1>4 DEF KnownSecret, Found, EnvKey, StateFile
<1>6. /\ new \in StateFile /\ Recorded(new) /\ new.secret[x.net] = fresh
      /\ known = NoKey => Extends(file, new)
  <2>1. /\ new \in StateFile /\ new.secret = [file.secret EXCEPT ![x.net] = fresh]
        /\ new.seed = file.seed /\ new.deployment = file.deployment
    BY <1>3, <1>4, SecretSaved
  <2>2. file.secret \in [Networks -> Nat] BY <1>4 DEF StateFile
  <2>3. known = NoKey => file.secret[x.net] = NoKey
    BY DEF KnownSecret, Found, EnvKey, NoKey
  <2> HIDE DEF new, known, x
  <2> QED BY <2>1, <2>2, <2>3, <1>3, <1>4 DEF Extends, Recorded
<1> HIDE DEF x, a, known, new
<1>7. PICK y : /\ Becomes(p, y) /\ Shaped(y) /\ y.secret \in Nat \ {NoKey}
               /\ Alike(x, y, {"steps", "secret", "saving"}) /\ y.steps = Tail(x.steps)
               /\ \/ /\ y.saving = NoSave
                     /\ y.secret \in {EnvKey, file.secret[x.net]}
                  \/ /\ y.saving = Saving("state", file, new)
                     /\ y.secret = fresh /\ known = NoKey
  <2>1. CASE known # NoKey
    <3> DEFINE y == [a EXCEPT !.secret = known]
    <3>1. Becomes(p, y) BY <2>1 DEF GetSecret, known, x, a
    <3>2. Shaped(y) /\ y.secret = known /\ Alike(a, y, {"secret"}) BY <1>3, NewSecret
    <3> HIDE DEF y
    <3>3. Alike(x, y, {"steps"} \cup {"secret"}) BY <3>2, <1>3, AlikeTwice
    <3>4. y.steps = Tail(x.steps) /\ y.saving = NoSave
      BY <3>2, <3>3, <1>3 DEF Alike
    <3>5. Alike(x, y, {"steps", "secret", "saving"}) BY <3>3 DEF Alike
    <3> QED BY <2>1, <3>1, <3>2, <3>4, <3>5, <1>5
  <2>2. CASE known = NoKey
    <3> DEFINE s == Saving("state", file, new)
               b == [a EXCEPT !.secret = fresh]
               y == [b EXCEPT !.saving = s]
    <3>1. Becomes(p, [a EXCEPT !.secret = fresh, !.saving = s])
      BY <2>2 DEF GetSecret, known, x, a, new
    <3> HIDE DEF s
    <3>2. y = [a EXCEPT !.secret = fresh, !.saving = s] OBVIOUS
    <3>3. Shaped(b) /\ b.secret = fresh /\ Alike(a, b, {"secret"}) BY <1>3, NewSecret
    <3> HIDE DEF b
    <3>4. Shaped(y) /\ y.saving = s /\ Alike(b, y, {"saving"}) BY <3>3, NewSaving
    <3>5. Becomes(p, y) BY <3>1, <3>2
    <3> HIDE DEF y
    <3>6. Alike(x, b, {"steps"} \cup {"secret"}) BY <3>3, <1>3, AlikeTwice
    <3>7. Alike(x, y, {"steps"} \cup {"secret"} \cup {"saving"})
      BY <3>4, <3>6, AlikeTwice
    <3>8. y.steps = Tail(x.steps) /\ y.secret = fresh BY <3>3, <3>4, <1>3 DEF Alike
    <3>9. Alike(x, y, {"steps", "secret", "saving"}) BY <3>7 DEF Alike
    <3>10. fresh # NoKey BY <1>4 DEF FirstKey, NoKey
    <3> QED BY <2>2, <3>4, <3>5, <3>8, <3>9, <3>10, <1>4 DEF s
  <2> QED BY <2>1, <2>2
<1>8. /\ y.launch = x.launch /\ y.net = x.net /\ y.seed = x.seed
      /\ y.contract = x.contract
  BY <1>7 DEF Alike
<1>9. Ready(y)
  BY <1>1, <1>2, <1>3, <1>7, <1>8, TurnsInto DEF x
<1>10. OnChain(y)
  <2>1. OnChain(x) BY <1>3 DEF ProcessOK
  <2>2. y.contract # NoContract =>
          y.contract \in 1..Len(exchanges) /\ exchanges[y.contract].net = y.net
    BY <2>1, <1>8 DEF OnChain
  <2> QED BY <2>2, <1>1, <1>2, <1>7, StaysOnChain DEF x
<1>11. SavesWell(y)
  BY <1>4, <1>6, <1>7 DEF SavesWell, NoSave, Saving
<1>12. Kept(y)
  <2>1. Kept(x) /\ x.saving.name # "state" BY <1>3 DEF ProcessOK, NoSave
  <2> QED BY <2>1, <1>6, <1>7, <1>8 DEF Kept, Saving
<1>13. Same /\ fresh' \in Nat /\ fresh' >= fresh /\ agenda' \subseteq agenda
  BY <1>1, <1>4 DEF GetSecret, Same, chainVars, fileVars, historyVars
<1> QED BY <1>7, <1>9, <1>10, <1>11, <1>12, <1>13, OneMoves DEF ProcessOK

LEMMA RecordKeeps ==
  ASSUME ScriptsInv, NEW p \in Procs, RecordDeployment(p) PROVE ScriptsInv'
<1> DEFINE x == proc[p]
           new == WithDeployment(file, x.net, x.contract)
           s == Saving("state", file, new)
           a == Advanced(p)
           y == [a EXCEPT !.saving = s]
<1>1. At(p, "record") /\ Becomes(p, y) /\ Aside
  BY DEF RecordDeployment, Aside, fileVars, historyVars
<1>2. "record" \notin Unsettled \cup Deploys \cup {"insert"} BY DEF Unsettled, Deploys
<1>3. /\ ProcessOK(x) /\ x.launch \in Launches /\ x.net \in Networks
      /\ x.seed \in Nat /\ x.secret \in Nat /\ x.contract \in Nat
      /\ x.steps # <<>> /\ x.steps[1] = "record" /\ x.saving = NoSave
      /\ Shaped(a) /\ a.steps = Tail(x.steps) /\ Alike(x, a, {"steps"})
  BY <1>1, <1>2, Settled
<1>4. file \in StateFile /\ Recorded(file) BY DEF ScriptsInv, FilesOK
<1>5. /\ x.contract \in 1..Len(exchanges) /\ exchanges[x.contract].net = x.net
      /\ exchanges[x.contract].inserted = Circuits
  BY <1>3 DEF ProcessOK, OnChain
<1>6. new \in StateFile /\ Recorded(new) /\ Extends(file, new)
  <2>1. /\ new \in StateFile /\ new.deployment = [file.deployment EXCEPT ![x.net] = x.contract]
        /\ new.seed = file.seed /\ new.secret = file.secret
    BY <1>3, <1>4, DeploymentSaved
  <2>2. file.deployment \in [Networks -> Nat] BY <1>4 DEF StateFile
  <2> HIDE DEF new, x
  <2> QED BY <2>1, <2>2, <1>3, <1>4, <1>5 DEF Extends, Recorded
<1> HIDE DEF x, a, new, s
<1>7. Shaped(y) /\ y.saving = s /\ Alike(a, y, {"saving"}) BY <1>3, NewSaving
<1> HIDE DEF y
<1>8. Alike(x, y, {"steps"} \cup {"saving"}) BY <1>3, <1>7, AlikeTwice
<1>9. /\ y.steps = Tail(x.steps) /\ y.launch = x.launch /\ y.net = x.net
      /\ y.seed = x.seed /\ y.secret = x.secret /\ y.contract = x.contract
  BY <1>3, <1>7, <1>8 DEF Alike
<1>10. Ready(y)
  BY <1>1, <1>2, <1>3, <1>7, <1>9, TurnsInto DEF x
<1>11. OnChain(y)
  BY <1>1, <1>2, <1>5, <1>9, StaysOnChain DEF x
<1>12. SavesWell(y)
  BY <1>4, <1>6, <1>7 DEF SavesWell, Saving, s
<1>13. Kept(y)
  <2>1. Kept(x) /\ x.saving.name # "state" BY <1>3 DEF ProcessOK, NoSave
  <2> QED BY <2>1, <1>9 DEF Kept
<1>14. Same /\ fresh' \in Nat /\ fresh' >= fresh /\ agenda' \subseteq agenda
  BY <1>1 DEF Aside, Same, chainVars, ScriptsInv, FilesOK
<1> QED BY <1>1, <1>10, <1>11, <1>12, <1>13, <1>14, OneMoves
       DEF ProcessOK, y, s, a, new, x

LEMMA InsertedKeeps ==
  ASSUME ScriptsInv, NEW p \in Procs, InsertedAll(p) PROVE ScriptsInv'
<1> DEFINE x == proc[p]
           y == Advanced(p)
<1>1. At(p, "insert") /\ Becomes(p, y) /\ Aside
  BY DEF InsertedAll, Aside, fileVars, historyVars
<1>2. "insert" \notin Unsettled BY DEF Unsettled
<1>3. /\ ProcessOK(x) /\ x.launch \in Launches /\ x.net \in Networks
      /\ x.seed \in Nat /\ x.secret \in Nat /\ x.contract \in Nat
      /\ x.steps \in Seq(Steps) /\ x.steps # <<>> /\ x.steps[1] = "insert"
      /\ Shaped(y) /\ y.steps = Tail(x.steps) /\ Alike(x, y, {"steps"})
  BY <1>1, <1>2, Settled
<1>4. exchanges[x.contract].inserted = Circuits BY DEF InsertedAll
<1> HIDE DEF x, y
<1>5. /\ y.launch = x.launch /\ y.net = x.net /\ y.saving = x.saving
      /\ y.seed = x.seed /\ y.secret = x.secret /\ y.contract = x.contract
  BY <1>3 DEF Alike
<1>6. Ready(y)
  BY <1>1, <1>2, <1>3, <1>5, TurnsInto DEF x
<1>7. OnChain(y)
  BY <1>3, <1>4, <1>5 DEF ProcessOK, OnChain
<1>8. SavesWell(y) /\ Kept(y)
  BY <1>3, <1>5 DEF ProcessOK, SavesWell, Kept
<1>9. Same /\ fresh' \in Nat /\ fresh' >= fresh /\ agenda' \subseteq agenda
  BY <1>1 DEF Aside, Same, chainVars, ScriptsInv, FilesOK
<1> QED BY <1>1, <1>6, <1>7, <1>8, <1>9, OneMoves DEF ProcessOK, y

-----------------------------------------------------------------------------
(* Steps on the chain *)

Grows ==
  /\ Len(exchanges') >= Len(exchanges)
  /\ \A c \in 1..Len(exchanges) :
       /\ exchanges'[c].net = exchanges[c].net
       /\ exchanges[c].inserted = Circuits => exchanges'[c].inserted = Circuits

LEMMA RecordedStays ==
  ASSUME exchanges \in Seq(Exchanges), exchanges' \in Seq(Exchanges), Grows,
         NEW f \in StateFile, Recorded(f)
  PROVE  Recorded(f)'
<1>1. \A n \in Networks : f.deployment[n] \in Nat BY DEF StateFile
<1>2. Len(exchanges) \in Nat /\ Len(exchanges') \in Nat OBVIOUS
<1> QED BY <1>1, <1>2 DEF Recorded, Grows, NoContract

LEMMA StaysOK ==
  ASSUME exchanges \in Seq(Exchanges), exchanges' \in Seq(Exchanges), Grows,
         file' = file, lost' = lost, NEW x, ProcessOK(x)
  PROVE  ProcessOK(x)'
<1>1. OnChain(x)'
  <2>1. OnChain(x) /\ Len(exchanges) \in Nat /\ Len(exchanges') \in Nat
    BY DEF ProcessOK
  <2> QED BY <2>1 DEF OnChain, Grows, NoContract
<1>2. SavesWell(x)' BY RecordedStays DEF ProcessOK, SavesWell, Extends
<1>3. Ready(x)' /\ Kept(x)' BY DEF ProcessOK, Kept
<1> QED BY <1>1, <1>2, <1>3 DEF ProcessOK

LEMMA ChainMoves ==
  ASSUME ScriptsInv, NEW p \in Procs, NEW y, Becomes(p, y),
         file' = file, lost' = lost, fresh' = fresh, agenda' = agenda, Grows,
         exchanges' \in Seq(Exchanges), tokenContracts' \in Seq(Tokens),
         KeysOK', ProcessOK(y)'
  PROVE  ScriptsInv'
<1>1. exchanges \in Seq(Exchanges) /\ file \in StateFile /\ Recorded(file)
  BY DEF ScriptsInv, FilesOK
<1>2. Recorded(file)'
  <2>1. PICK f \in StateFile : f = file BY <1>1
  <2>2. Recorded(f) BY <2>1, <1>1
  <2>3. Recorded(f)' BY <2>1, <2>2, <1>1, RecordedStays
  <2> QED BY <2>1, <2>3 DEF Recorded
<1>3. FilesOK' BY <1>2 DEF ScriptsInv, FilesOK
<1>4. proc' = [q \in Procs |-> IF q = p THEN y ELSE proc[q]]
  BY DEF ScriptsInv, Becomes
<1>5. ASSUME NEW q \in Procs PROVE ProcessOK(proc[q])'
  <2>1. CASE q = p
    <3>1. proc'[q] = y BY <1>4, <2>1
    <3> QED BY <3>1, NowOK
  <2>2. CASE q # p
    <3>1. PICK x : x = proc[q] OBVIOUS
    <3>2. ProcessOK(x)' BY <3>1, <1>1, StaysOK DEF ScriptsInv
    <3>3. proc'[q] = x BY <3>1, <1>4, <2>2
    <3> QED BY <3>2, <3>3, NowOK
  <2> QED BY <2>1, <2>2
<1> QED BY <1>3, <1>4, <1>5 DEF ScriptsInv

LEMMA SameKeys ==
  ASSUME KeysOK, file' = file, lost' = lost,
         Len(exchanges') = Len(exchanges), Len(tokenContracts') = Len(tokenContracts),
         \A c \in 1..Len(exchanges) :
           /\ exchanges'[c].net = exchanges[c].net
           /\ exchanges'[c].admin = exchanges[c].admin
           /\ exchanges'[c].deployer = exchanges[c].deployer,
         \A c \in 1..Len(tokenContracts) :
           /\ tokenContracts'[c].net = tokenContracts[c].net
           /\ tokenContracts'[c].owner = tokenContracts[c].owner
           /\ tokenContracts'[c].deployer = tokenContracts[c].deployer
  PROVE  KeysOK'
<1> SUFFICES ASSUME "state" \notin lost' PROVE KeysOK' BY DEF KeysOK
<1>1. ASSUME NEW c \in 1..Len(exchanges)
      PROVE  /\ exchanges'[c].admin \in {EnvKey, file'.secret[exchanges'[c].net]}
             /\ Held(exchanges'[c].deployer, file'.seed[exchanges'[c].net])
  BY DEF KeysOK
<1>2. ASSUME NEW c \in 1..Len(tokenContracts)
      PROVE  /\ tokenContracts'[c].owner \in {EnvKey, file'.secret[tokenContracts'[c].net]}
             /\ Held(tokenContracts'[c].deployer, file'.seed[tokenContracts'[c].net])
  BY DEF KeysOK
<1> QED BY <1>1, <1>2 DEF KeysOK

LEMMA MintKeeps ==
  ASSUME ScriptsInv, NEW p \in Procs, Mint(p) PROVE ScriptsInv'
<1> DEFINE x == proc[p]
           y == Advanced(p)
<1>1. /\ At(p, "mint") /\ Becomes(p, y)
      /\ file' = file /\ lost' = lost /\ fresh' = fresh /\ agenda' = agenda
      /\ exchanges' = exchanges
      /\ tokenContracts' = [tokenContracts EXCEPT ![x.token].minted = TRUE]
  BY DEF Mint, fileVars, historyVars
<1>2. "mint" \notin Turning BY DEF Turning, Unsettled, Deploys
<1>3. "mint" \notin Unsettled BY DEF Unsettled
<1>4. /\ ProcessOK(x) /\ x.steps # <<>> /\ Head(x.steps) = "mint"
      /\ Shaped(y) /\ y.steps = Tail(x.steps) /\ Alike(x, y, {"steps"})
  BY <1>1, <1>3, Settled, HeadOf
<1> HIDE DEF x, y
<1>5. ProcessOK(y) BY <1>2, <1>4, AlikeCarries, Advances
<1>6. /\ exchanges \in Seq(Exchanges) /\ tokenContracts \in Seq(Tokens)
  BY DEF ScriptsInv, FilesOK
<1>7. /\ tokenContracts' \in Seq(Tokens) /\ Len(tokenContracts') = Len(tokenContracts)
      /\ \A c \in 1..Len(tokenContracts) :
           /\ tokenContracts'[c].net = tokenContracts[c].net
           /\ tokenContracts'[c].owner = tokenContracts[c].owner
           /\ tokenContracts'[c].deployer = tokenContracts[c].deployer
  <2>1. CASE x.token \notin 1..Len(tokenContracts)
    <3>1. tokenContracts' = tokenContracts BY <2>1, <1>1, <1>6
    <3> QED BY <3>1, <1>6
  <2>2. CASE x.token \in 1..Len(tokenContracts)
    <3> DEFINE old == tokenContracts[x.token]
               new == [old EXCEPT !.minted = TRUE]
    <3>1. old \in Tokens BY <1>6, <2>2
    <3>2. /\ new \in Tokens /\ new.net = old.net /\ new.owner = old.owner
          /\ new.deployer = old.deployer
      BY <3>1 DEF Tokens
    <3>3. tokenContracts' = [tokenContracts EXCEPT ![x.token] = new] BY <1>1
    <3> HIDE DEF old, new
    <3>4. tokenContracts[x.token] = old BY DEF old
    <3> QED BY <1>6, <2>2, <3>1, <3>2, <3>3, <3>4
  <2> QED BY <2>1, <2>2
<1>8. Grows BY <1>1, <1>6 DEF Grows
<1>9. KeysOK' BY <1>1, <1>6, <1>7, SameKeys DEF ScriptsInv
<1>10. PICK z : z = y OBVIOUS
<1>11. ProcessOK(z) /\ Becomes(p, z) BY <1>1, <1>5, <1>10
<1>12. ProcessOK(z)' BY <1>1, <1>6, <1>8, <1>11, StaysOK
<1> QED BY <1>1, <1>6, <1>7, <1>8, <1>9, <1>11, <1>12, ChainMoves

LEMMA CircuitKeeps ==
  ASSUME ScriptsInv, NEW p \in Procs, InsertCircuit(p) PROVE ScriptsInv'
<1> DEFINE x == proc[p]
<1>1. PICK k \in Circuits \ exchanges[x.contract].inserted :
        /\ At(p, "insert") /\ proc' = proc /\ tokenContracts' = tokenContracts
        /\ file' = file /\ lost' = lost /\ fresh' = fresh /\ agenda' = agenda
        /\ exchanges' = [exchanges EXCEPT ![x.contract].inserted = @ \cup {k}]
  BY DEF InsertCircuit, fileVars, historyVars
<1>2. /\ exchanges \in Seq(Exchanges) /\ tokenContracts \in Seq(Tokens)
  BY DEF ScriptsInv, FilesOK
<1>3. "insert" \notin Unsettled BY DEF Unsettled
<1>4. /\ ProcessOK(x) /\ x.contract \in 1..Len(exchanges)
  <2>1. ProcessOK(x) /\ x.steps # <<>> /\ x.steps[1] = "insert"
    BY <1>1, <1>3, Settled
  <2> QED BY <2>1 DEF ProcessOK, OnChain
<1> HIDE DEF x
<1>5. /\ exchanges' \in Seq(Exchanges) /\ Len(exchanges') = Len(exchanges)
      /\ \A c \in 1..Len(exchanges) :
           /\ exchanges'[c].net = exchanges[c].net
           /\ exchanges'[c].admin = exchanges[c].admin
           /\ exchanges'[c].deployer = exchanges[c].deployer
           /\ exchanges[c].inserted = Circuits => exchanges'[c].inserted = Circuits
  <2> DEFINE old == exchanges[x.contract]
             new == [old EXCEPT !.inserted = @ \cup {k}]
  <2>1. old \in Exchanges BY <1>2, <1>4
  <2>2. /\ new \in Exchanges /\ new.net = old.net /\ new.admin = old.admin
        /\ new.deployer = old.deployer /\ old.inserted # Circuits
    BY <1>1, <2>1 DEF Exchanges
  <2>3. exchanges' = [exchanges EXCEPT ![x.contract] = new] BY <1>1
  <2> HIDE DEF old, new
  <2>4. exchanges[x.contract] = old BY DEF old
  <2> QED BY <1>2, <1>4, <2>1, <2>2, <2>3, <2>4
<1>6. Grows BY <1>2, <1>5 DEF Grows
<1>7. KeysOK' BY <1>1, <1>2, <1>5, SameKeys DEF ScriptsInv
<1>8. PICK z : z = x OBVIOUS
<1>9. ProcessOK(z) /\ Becomes(p, z)
  BY <1>1, <1>4, <1>8 DEF Becomes, ScriptsInv, x
<1>10. ProcessOK(z)' BY <1>1, <1>2, <1>5, <1>6, <1>9, StaysOK
<1> QED BY <1>1, <1>2, <1>5, <1>6, <1>7, <1>9, <1>10, ChainMoves

\* Whoever deploys has both keys, on file or from the environment.
LEMMA Equipped ==
  ASSUME ScriptsInv, NEW p \in Procs, NEW step \in Deploys, At(p, step)
  PROVE  LET x == proc[p] IN
         /\ x.seed \in Nat \ {NoKey} /\ x.secret \in Nat \ {NoKey}
         /\ "state" \notin lost =>
              /\ Held(x.seed, file.seed[x.net])
              /\ x.secret \in {EnvKey, file.secret[x.net]}
<1> DEFINE x == proc[p]
<1>1. /\ ProcessOK(x) /\ x.saving = NoSave
      /\ x.steps \in Seq(Steps) /\ x.steps # <<>> /\ x.steps[1] = step
  BY HeadOf
<1> HIDE DEF x
<1>2. x.seed \in Nat \ {NoKey} /\ x.secret \in Nat \ {NoKey}
  BY <1>1, KeyBeforeContract DEF ProcessOK, Ready
<1>3. x.saving.name # "state" BY <1>1 DEF NoSave
<1> QED BY <1>1, <1>2, <1>3 DEF ProcessOK, Kept, x

LEMMA DeployKeeps ==
  ASSUME ScriptsInv, NEW p \in Procs, DeployExchange(p) PROVE ScriptsInv'
<1> DEFINE x == proc[p]
           a == Advanced(p)
           n == Len(exchanges) + 1
           w == [a EXCEPT !.contract = n]
<1>1. PICK step \in {"deploy", "deployStage1"} : At(p, step)
  BY DEF DeployExchange
<1>2. PICK r : /\ exchanges' = Append(exchanges, r) /\ tokenContracts' = tokenContracts
               /\ r = [net |-> x.net, admin |-> x.secret, deployer |-> x.seed,
                       inserted |-> IF At(p, "deploy") THEN Circuits ELSE {}]
               /\ Becomes(p, w)
               /\ file' = file /\ lost' = lost /\ fresh' = fresh /\ agenda' = agenda
  BY DEF DeployExchange, fileVars, historyVars
<1>3. step \in Deploys /\ step \notin Unsettled /\ step \notin {"seed", "secret"}
  BY DEF Deploys, Unsettled
<1>4. /\ ProcessOK(x) /\ x.launch \in Launches /\ x.net \in Networks
      /\ x.saving = NoSave
      /\ x.steps \in Seq(Steps) /\ x.steps # <<>> /\ x.steps[1] = step
      /\ Shaped(a) /\ a.steps = Tail(x.steps) /\ Alike(x, a, {"steps"})
  BY <1>1, <1>3, Settled
<1>5. /\ x.seed \in Nat \ {NoKey} /\ x.secret \in Nat \ {NoKey}
      /\ "state" \notin lost =>
           /\ Held(x.seed, file.seed[x.net])
           /\ x.secret \in {EnvKey, file.secret[x.net]}
  BY <1>1, <1>3, Equipped
<1>6. /\ exchanges \in Seq(Exchanges) /\ tokenContracts \in Seq(Tokens)
  BY DEF ScriptsInv, FilesOK
<1>7. step = "deploy" => r.inserted = Circuits BY <1>1, <1>2
<1> HIDE DEF x, a
<1>8. /\ r \in Exchanges /\ r.net = x.net /\ r.admin = x.secret /\ r.deployer = x.seed
  BY <1>2, <1>4, <1>5 DEF Exchanges
<1>9. /\ exchanges' \in Seq(Exchanges) /\ Len(exchanges') = n /\ exchanges'[n] = r
      /\ \A c \in 1..Len(exchanges) : exchanges'[c] = exchanges[c]
      /\ n \in Nat \ {0} /\ \A c \in 1..n : c = n \/ c \in 1..Len(exchanges)
  BY <1>2, <1>6, <1>8
<1>10. Grows BY <1>6, <1>9 DEF Grows
<1>11. KeysOK'
  <2>1. "state" \notin lost =>
          \A c \in 1..Len(exchanges') :
            /\ exchanges'[c].admin \in {EnvKey, file.secret[exchanges'[c].net]}
            /\ Held(exchanges'[c].deployer, file.seed[exchanges'[c].net])
    BY <1>5, <1>8, <1>9 DEF ScriptsInv, KeysOK
  <2> QED BY <2>1, <1>2 DEF ScriptsInv, KeysOK
<1>12. PICK y : y = w OBVIOUS
<1>13. Shaped(y) /\ y.contract = n /\ Alike(a, y, {"contract"})
  BY <1>4, <1>12, NewContract
<1>14. Alike(x, y, {"steps"} \cup {"contract"}) BY <1>4, <1>13, AlikeTwice
<1>15. /\ y.steps = Tail(x.steps) /\ y.launch = x.launch /\ y.net = x.net
       /\ y.seed = x.seed /\ y.secret = x.secret /\ y.saving = x.saving
  BY <1>4, <1>13, <1>14 DEF Alike
<1>16. Becomes(p, y) BY <1>2, <1>12
<1> HIDE DEF w, n
<1>17. Ready(y)
  BY <1>1, <1>3, <1>4, <1>5, <1>9, <1>13, <1>15, <1>16, TurnsInto DEF x
<1>18. OnChain(y)'
  <2>1. Adjacent(x.steps) BY <1>4 DEF ProcessOK, Ready
  <2>2. y.steps # <<>> =>
          /\ y.steps[1] = "record" => step = "deploy"
          /\ y.steps[1] = "insert" => step = "deployStage1"
    BY <2>1, <1>1, <1>4, <1>15, Rest
  <2>3. y.contract # NoContract /\ y.contract \in 1..Len(exchanges')
    BY <1>9, <1>13 DEF NoContract
  <2> QED BY <2>2, <2>3, <1>7, <1>8, <1>9, <1>13, <1>15 DEF OnChain
<1>19. SavesWell(y)' /\ Kept(y)'
  BY <1>2, <1>4, <1>15 DEF ProcessOK, SavesWell, Kept, NoSave
<1> QED BY <1>2, <1>6, <1>9, <1>10, <1>11, <1>16, <1>17, <1>18, <1>19, ChainMoves
       DEF ProcessOK, Ready

LEMMA TokenDeployKeeps ==
  ASSUME ScriptsInv, NEW p \in Procs, DeployTokenContract(p) PROVE ScriptsInv'
<1> DEFINE x == proc[p]
           a == Advanced(p)
           n == Len(tokenContracts) + 1
           w == [a EXCEPT !.token = n]
<1>1. At(p, "deployToken") BY DEF DeployTokenContract
<1>2. PICK r : /\ tokenContracts' = Append(tokenContracts, r) /\ exchanges' = exchanges
               /\ r = [net |-> x.net, owner |-> x.secret, deployer |-> x.seed,
                       minted |-> FALSE]
               /\ Becomes(p, w)
               /\ file' = file /\ lost' = lost /\ fresh' = fresh /\ agenda' = agenda
  BY DEF DeployTokenContract, fileVars, historyVars
<1>3. "deployToken" \in Deploys /\ "deployToken" \notin Unsettled
  BY DEF Deploys, Unsettled
<1>4. /\ ProcessOK(x) /\ x.launch \in Launches /\ x.net \in Networks
      /\ x.saving = NoSave /\ x.contract \in Nat
      /\ x.steps \in Seq(Steps) /\ x.steps # <<>> /\ x.steps[1] = "deployToken"
      /\ Shaped(a) /\ a.steps = Tail(x.steps) /\ Alike(x, a, {"steps"})
  BY <1>1, <1>3, Settled
<1>5. /\ x.seed \in Nat \ {NoKey} /\ x.secret \in Nat \ {NoKey}
      /\ "state" \notin lost =>
           /\ Held(x.seed, file.seed[x.net])
           /\ x.secret \in {EnvKey, file.secret[x.net]}
  BY <1>1, <1>3, Equipped
<1>6. /\ exchanges \in Seq(Exchanges) /\ tokenContracts \in Seq(Tokens)
  BY DEF ScriptsInv, FilesOK
<1> HIDE DEF x, a
<1>7. /\ r \in Tokens /\ r.net = x.net /\ r.owner = x.secret /\ r.deployer = x.seed
  BY <1>2, <1>4, <1>5 DEF Tokens
<1>8. /\ tokenContracts' \in Seq(Tokens) /\ Len(tokenContracts') = n
      /\ tokenContracts'[n] = r
      /\ \A c \in 1..Len(tokenContracts) : tokenContracts'[c] = tokenContracts[c]
      /\ \A c \in 1..n : c = n \/ c \in 1..Len(tokenContracts)
  BY <1>2, <1>6, <1>7
<1>9. Grows BY <1>2, <1>6 DEF Grows
<1>10. KeysOK'
  <2>1. "state" \notin lost =>
          \A c \in 1..Len(tokenContracts') :
            /\ tokenContracts'[c].owner \in {EnvKey, file.secret[tokenContracts'[c].net]}
            /\ Held(tokenContracts'[c].deployer, file.seed[tokenContracts'[c].net])
    BY <1>5, <1>7, <1>8 DEF ScriptsInv, KeysOK
  <2> QED BY <2>1, <1>2 DEF ScriptsInv, KeysOK
<1>11. PICK y : y = w OBVIOUS
<1>12. Shaped(y) /\ Alike(a, y, {}) BY <1>4, <1>11, NewToken
<1>13. Alike(x, y, {"steps"} \cup {}) BY <1>4, <1>12, AlikeTwice
<1>14. /\ y.steps = Tail(x.steps) /\ y.launch = x.launch /\ y.net = x.net
       /\ y.seed = x.seed /\ y.secret = x.secret /\ y.saving = x.saving
       /\ y.contract = x.contract
  BY <1>4, <1>12, <1>13 DEF Alike
<1>15. Becomes(p, y) BY <1>2, <1>11
<1> HIDE DEF w, n
<1>16. Ready(y)
  BY <1>1, <1>3, <1>4, <1>5, <1>12, <1>14, <1>15, TurnsInto DEF x
<1>17. OnChain(y)
  <2>1. Adjacent(x.steps) BY <1>4 DEF ProcessOK, Ready
  <2>2. y.steps # <<>> => y.steps[1] \notin {"insert", "record"}
    BY <2>1, <1>4, <1>14, Rest
  <2> QED BY <2>2, <1>4, <1>14 DEF ProcessOK, OnChain
<1>18. SavesWell(y) /\ Kept(y)
  BY <1>4, <1>14 DEF ProcessOK, SavesWell, Kept
<1>19. ProcessOK(y)'
  BY <1>2, <1>6, <1>9, <1>16, <1>17, <1>18, StaysOK DEF ProcessOK
<1> QED BY <1>2, <1>6, <1>8, <1>9, <1>10, <1>15, <1>19, ChainMoves

-----------------------------------------------------------------------------
(* Saves, starts and stops *)

Replaces ==
  /\ file' \in StateFile /\ Recorded(file')
  /\ "state" \notin lost' => "state" \notin lost /\ Extends(file, file')

LEMMA KeptOnFile ==
  ASSUME Replaces, NEW x, Ready(x), Kept(x), UNCHANGED exchanges PROVE Kept(x)'
<1> SUFFICES ASSUME "state" \notin lost' PROVE Kept(x)' BY DEF Kept
<1>1. "state" \notin lost /\ Extends(file, file') BY DEF Replaces
<1>2. ASSUME x.seed # NoKey, Held(x.seed, file.seed[x.net])
      PROVE  Held(x.seed, file'.seed[x.net])
  <2>1. x.net \in Networks BY <1>2 DEF Ready
  <2> QED BY <1>1, <1>2, <2>1 DEF Held, Extends
<1>3. ASSUME x.secret # NoKey, x.secret \in {EnvKey, file.secret[x.net]}
      PROVE  x.secret \in {EnvKey, file'.secret[x.net]}
  <2>1. x.net \in Networks BY <1>3 DEF Ready
  <2> QED BY <1>1, <1>3, <2>1 DEF Extends
<1> QED BY <1>1, <1>2, <1>3 DEF Kept

LEMMA FileMoves ==
  ASSUME ScriptsInv, Replaces, NEW p \in Procs, NEW y, Becomes(p, y),
         UNCHANGED <<exchanges, tokenContracts, fresh, agenda>>,
         Ready(y), OnChain(y), SavesWell(y), Kept(y)'
  PROVE  ScriptsInv'
<1>1. FilesOK' BY DEF ScriptsInv, FilesOK, Replaces, Recorded
<1>2. KeysOK'
  <2> SUFFICES ASSUME "state" \notin lost' PROVE KeysOK' BY DEF KeysOK
  <2>1. KeysOK /\ "state" \notin lost /\ Extends(file, file')
    BY DEF ScriptsInv, Replaces
  <2>2. exchanges \in Seq(Exchanges) /\ tokenContracts \in Seq(Tokens)
    BY DEF ScriptsInv, FilesOK
  <2>3. ASSUME NEW c \in 1..Len(exchanges)
        PROVE  /\ exchanges[c].admin \in {EnvKey, file'.secret[exchanges[c].net]}
               /\ Held(exchanges[c].deployer, file'.seed[exchanges[c].net])
    <3>1. exchanges[c] \in Exchanges BY <2>2
    <3>2. /\ exchanges[c].net \in Networks /\ exchanges[c].admin # NoKey
          /\ exchanges[c].deployer # NoKey
      BY <3>1 DEF Exchanges
    <3> QED BY <2>1, <3>2 DEF KeysOK, Extends, Held
  <2>4. ASSUME NEW c \in 1..Len(tokenContracts)
        PROVE  /\ tokenContracts[c].owner \in {EnvKey, file'.secret[tokenContracts[c].net]}
               /\ Held(tokenContracts[c].deployer, file'.seed[tokenContracts[c].net])
    <3>1. tokenContracts[c] \in Tokens BY <2>2
    <3>2. /\ tokenContracts[c].net \in Networks /\ tokenContracts[c].owner # NoKey
          /\ tokenContracts[c].deployer # NoKey
      BY <3>1 DEF Tokens
    <3> QED BY <2>1, <3>2 DEF KeysOK, Extends, Held
  <2> QED BY <2>3, <2>4 DEF KeysOK
<1>3. proc' = [q \in Procs |-> IF q = p THEN y ELSE proc[q]]
  BY DEF ScriptsInv, Becomes
<1>4. \A x : Ready(x)' = Ready(x) /\ OnChain(x)' = OnChain(x)
             /\ SavesWell(x)' = SavesWell(x)
  BY DEF OnChain, SavesWell, Recorded
<1>5. ASSUME NEW q \in Procs PROVE ProcessOK(proc[q])'
  <2>1. CASE q = p
    <3>1. proc'[q] = y BY <1>3, <2>1
    <3>2. ProcessOK(y)' BY <1>4 DEF ProcessOK
    <3> QED BY <3>1, <3>2, NowOK
  <2>2. CASE q # p
    <3>1. PICK x : x = proc[q] OBVIOUS
    <3>2. Ready(x) /\ OnChain(x) /\ SavesWell(x) /\ Kept(x)
      BY <3>1 DEF ScriptsInv, ProcessOK
    <3>3. Kept(x)' BY <3>2, KeptOnFile
    <3>4. proc'[q] = x BY <3>1, <1>3, <2>2
    <3>5. ProcessOK(x)' BY <3>2, <3>3, <1>4 DEF ProcessOK
    <3> QED BY <3>4, <3>5, NowOK
  <2> QED BY <2>1, <2>2
<1> QED BY <1>1, <1>2, <1>3, <1>5 DEF ScriptsInv

LEMMA SaveKeeps ==
  ASSUME ScriptsInv, NEW p \in Procs, Save(p) PROVE ScriptsInv'
<1> DEFINE x == proc[p]
           s == x.saving
           w == [x EXCEPT !.saving = NoSave]
<1>1. /\ Becomes(p, w) /\ UNCHANGED <<exchanges, tokenContracts, fresh, agenda>>
      /\ file' = IF s.name = "state" THEN s.new ELSE file
      /\ lost' = IF (IF s.name = "state" THEN file ELSE tokens) = s.old
                 THEN lost ELSE lost \cup {s.name}
  BY DEF Save, chainVars
<1>2. ProcessOK(x) /\ Shaped(x) BY DEF ScriptsInv, ProcessOK, Ready
<1>3. file \in StateFile /\ Recorded(file) BY DEF ScriptsInv, FilesOK
<1> HIDE DEF x
<1>4. Replaces
  <2>1. CASE s.name = "state"
    BY <1>1, <1>2, <2>1 DEF Replaces, ProcessOK, SavesWell
  <2>2. CASE s.name # "state"
    <3>1. Extends(file, file) BY DEF Extends
    <3> QED BY <1>1, <1>3, <2>2, <3>1 DEF Replaces
  <2> QED BY <2>1, <2>2
<1>5. PICK y : y = w OBVIOUS
<1>6. Shaped(y) /\ y.saving = NoSave /\ Alike(x, y, {"saving"})
  BY <1>2, <1>5, NewSaving
<1>7. /\ y.steps = x.steps /\ y.launch = x.launch /\ y.net = x.net
      /\ y.seed = x.seed /\ y.secret = x.secret /\ y.contract = x.contract
  BY <1>6 DEF Alike
<1>8. Becomes(p, y) BY <1>1, <1>5
<1> HIDE DEF w
<1>9. Ready(y) BY <1>2, <1>6, <1>7 DEF ProcessOK, Ready
<1>10. OnChain(y) BY <1>2, <1>7 DEF ProcessOK, OnChain
<1>11. SavesWell(y) BY <1>6 DEF SavesWell, NoSave
<1>12. Kept(y)'
  <2> SUFFICES ASSUME "state" \notin lost' PROVE Kept(y)' BY DEF Kept
  <2>1. Kept(x) /\ Ready(x) BY <1>2 DEF ProcessOK
  <2>2. PICK z : z = x OBVIOUS
  <2>3. Kept(z)' BY <2>1, <2>2, <1>1, <1>4, KeptOnFile
  <2>4. z.saving.name = "state" => file' = z.saving.new BY <1>1, <2>2
  <2> QED BY <2>2, <2>3, <2>4, <1>7 DEF Kept, Held
<1> QED BY <1>1, <1>4, <1>8, <1>9, <1>10, <1>11, <1>12, FileMoves

LEMMA StartedOK ==
  ASSUME NEW x, x = Idle \/ \E l \in Launches : x = Started(l) PROVE ProcessOK(x)
<1>1. Shaped(Idle) BY DEF Shaped, Idle
<1>2. CASE x = Idle
  BY <1>1, <1>2 DEF Idle, ProcessOK, Ready, Adjacent, Precedes, OnChain, SavesWell,
                    Kept, NoSave, NoKey, NoContract
<1>3. ASSUME NEW l \in Launches, x = Started(l) PROVE ProcessOK(x)
  <2> DEFINE s == Program[l.program]
  <2>1. Whole(s) BY ProgramsAreWhole DEF Launches
  <2> HIDE DEF s
  <2>2. x = [Idle EXCEPT !.launch = l, !.steps = s] BY <1>3 DEF Started, s
  <2>3. /\ Shaped(x) /\ x.launch = l /\ x.steps = s /\ x.saving = NoSave
        /\ x.net = NoNetwork /\ x.seed = NoKey /\ x.secret = NoKey
        /\ x.contract = NoContract
    BY <2>2 DEF Idle, Shaped
  <2>4. s \in Seq(Steps) /\ s # <<>> /\ s[1] \in Unsettled /\ Adjacent(s)
        /\ Precedes("seed", s) /\ Precedes("secret", s)
    BY <2>1 DEF Whole
  <2>5. Ready(x) BY <2>3, <2>4 DEF Ready, NoKey, NoContract
  <2>6. OnChain(x) BY <2>3, <2>4 DEF OnChain, Unsettled
  <2>7. SavesWell(x) /\ Kept(x) BY <2>3 DEF SavesWell, Kept, NoSave
  <2> QED BY <2>5, <2>6, <2>7 DEF ProcessOK
<1> QED BY <1>2, <1>3

LEMMA LaunchKeeps ==
  ASSUME ScriptsInv, NEW p \in Procs, NEW l \in agenda, Launch(p, l)
  PROVE  ScriptsInv'
<1>1. l \in Launches /\ fresh \in Nat BY DEF ScriptsInv, FilesOK
<1>2. /\ Becomes(p, Started(l)) /\ Same /\ fresh' = fresh /\ agenda' \subseteq agenda
  BY DEF Launch, Same, fileVars, chainVars, historyVars
<1>3. ProcessOK(Started(l)) BY <1>1, StartedOK
<1> QED BY <1>1, <1>2, <1>3, OneMoves

LEMMA StopKeeps ==
  ASSUME ScriptsInv, NEW p \in Procs, Stop(p) PROVE ScriptsInv'
<1>1. Same /\ fresh' = fresh /\ agenda' = agenda /\ fresh \in Nat
  BY DEF Stop, Same, fileVars, chainVars, ScriptsInv, FilesOK
<1>2. CASE Becomes(p, Idle)
  <2>1. ProcessOK(Idle) BY StartedOK
  <2> QED BY <1>1, <1>2, <2>1, OneMoves
<1>3. CASE ~Becomes(p, Idle)
  <2> DEFINE l == proc[p].launch
             again == [l EXCEPT !.retries = @ - 1]
  <2>1. l.retries > 0 /\ proc[p].steps # <<>> /\ Becomes(p, Started(again))
    BY <1>3 DEF Stop
  <2>2. l \in Launches BY <2>1 DEF ScriptsInv, ProcessOK, Ready
  <2> HIDE DEF l
  <2>3. again \in Launches BY <2>1, <2>2 DEF Launches
  <2>4. ProcessOK(Started(again)) BY <2>3, StartedOK
  <2> QED BY <1>1, <2>1, <2>4, OneMoves
<1> QED BY <1>2, <1>3

-----------------------------------------------------------------------------
(* The invariant holds *)

LEMMA FreshOK == ASSUME Fresh, lost = {} PROVE KeysOK /\ (agenda \subseteq Launches => FilesOK)
BY DEF Fresh, KeysOK, FilesOK, Recorded, StateFile, NoStateFile, NoKey, NoContract,
       FirstKey

LEMMA DeployedOK ==
  ASSUME NEW n \in Networks, Deployed(n), agenda \subseteq Launches PROVE FilesOK /\ KeysOK
<1> DEFINE f == WithSeed(NoStateFile, n, FirstKey)
           g == WithSecret(f, n, FirstKey + 1)
           h == WithDeployment(g, n, 1)
           x == [net |-> n, admin |-> FirstKey + 1, deployer |-> FirstKey,
                 inserted |-> Circuits]
           t == [net |-> n, owner |-> FirstKey + 1, deployer |-> FirstKey,
                 minted |-> TRUE]
<1>1. /\ file = h /\ exchanges = <<x>> /\ tokenContracts = <<t>>
      /\ fresh = FirstKey + 2
  BY DEF Deployed
<1>2. NoStateFile \in StateFile BY DEF NoStateFile, StateFile, NoKey, NoContract
<1>3. /\ f \in StateFile /\ f.seed = [NoStateFile.seed EXCEPT ![n] = FirstKey]
      /\ f.secret = NoStateFile.secret /\ f.deployment = NoStateFile.deployment
  BY <1>2, SeedSaved DEF FirstKey
<1> HIDE DEF f
<1>4. /\ g \in StateFile /\ g.secret = [f.secret EXCEPT ![n] = FirstKey + 1]
      /\ g.seed = f.seed /\ g.deployment = f.deployment
  BY <1>3, SecretSaved DEF FirstKey
<1> HIDE DEF g
<1>5. /\ h \in StateFile /\ h.deployment = [g.deployment EXCEPT ![n] = 1]
      /\ h.seed = g.seed /\ h.secret = g.secret
  BY <1>4, DeploymentSaved
<1> HIDE DEF h
<1>6. /\ h.seed[n] = FirstKey /\ h.secret[n] = FirstKey + 1
      /\ \A m \in Networks : h.deployment[m] = IF m = n THEN 1 ELSE NoContract
  BY <1>3, <1>4, <1>5 DEF NoStateFile
<1>7. x \in Exchanges /\ t \in Tokens BY DEF Exchanges, Tokens, FirstKey, NoKey
<1>8. /\ Len(exchanges) = 1 /\ exchanges[1] = x /\ exchanges \in Seq(Exchanges)
      /\ Len(tokenContracts) = 1 /\ tokenContracts[1] = t
      /\ tokenContracts \in Seq(Tokens)
  BY <1>1, <1>7
<1>9. /\ x.net = n /\ x.admin = FirstKey + 1 /\ x.deployer = FirstKey
      /\ x.inserted = Circuits
      /\ t.net = n /\ t.owner = FirstKey + 1 /\ t.deployer = FirstKey
  OBVIOUS
<1> HIDE DEF x, t
<1>10. Recorded(file) BY <1>1, <1>6, <1>8, <1>9 DEF Recorded, NoContract
<1>11. FilesOK BY <1>1, <1>5, <1>8, <1>10 DEF FilesOK, FirstKey
<1>12. KeysOK
  <2>1. \A c \in 1..1 : c = 1 OBVIOUS
  <2> QED BY <1>1, <1>6, <1>8, <1>9, <2>1 DEF KeysOK, Held
<1> QED BY <1>11, <1>12

LEMMA InitOK == Init => ScriptsInv
<1> SUFFICES ASSUME NEW scene \in Scenes, ScriptsInit(scene) PROVE ScriptsInv
  BY DEF Init
<1>1. /\ lost = {} /\ agenda \subseteq Launches /\ proc = [p \in Procs |-> Idle]
      /\ scene.deployed \in Networks \cup {NoNetwork}
  BY ScriptsConstants DEF ScriptsInit
<1>2. FilesOK /\ KeysOK
  <2>1. CASE scene.deployed = NoNetwork BY <1>1, <2>1, FreshOK DEF ScriptsInit
  <2>2. CASE scene.deployed # NoNetwork
    BY <1>1, <2>2, DeployedOK DEF ScriptsInit
  <2> QED BY <2>1, <2>2
<1>3. \A p \in Procs : ProcessOK(proc[p]) BY <1>1, StartedOK
<1> QED BY <1>1, <1>2, <1>3 DEF ScriptsInv

LEMMA ScriptStepKeeps ==
  ASSUME ScriptsInv, NEW p \in Procs, ScriptStep(p) PROVE ScriptsInv'
BY WaitingKeeps, NetworkKeeps, SeedKeeps, SecretKeeps, SaveKeeps, DeploymentKeeps,
   TokensKeep, WalletKeeps, CacheKeeps, DeployKeeps, CircuitKeeps, InsertedKeeps,
   RecordKeeps, TokenDeployKeeps, MintKeeps
   DEF ScriptStep

\* A client of the matcher goes on.
LEMMA ClientKeeps ==
  ASSUME ScriptsInv, NEW p \in Procs,
         NEW step \in {"challenge", "respond", "post", "fill", "match"},
         At(p, step), Proceeds(p)
  PROVE  ScriptsInv'
<1> DEFINE y == Advanced(p)
<1>1. Aside /\ Becomes(p, y) BY DEF Proceeds, Aside, fileVars, historyVars
<1>2. step \notin Turning /\ step \notin Unsettled BY DEF Turning, Unsettled, Deploys
<1>3. Shaped(y) /\ y.steps = Tail(proc[p].steps) /\ Alike(proc[p], y, {"steps"})
  BY <1>2, Settled
<1> HIDE DEF y
<1>4. Carries(proc[p], y) BY <1>3, AlikeCarries
<1> QED BY <1>1, <1>2, <1>3, <1>4, GoesOn

LEMMA NothingChanges == ASSUME ScriptsInv, UNCHANGED scriptVars PROVE ScriptsInv'
<1>1. /\ UNCHANGED <<file, exchanges, tokenContracts, fresh, agenda, lost>>
      /\ proc' = proc
  BY DEF scriptVars, fileVars, chainVars, historyVars
<1>2. FilesOK' BY <1>1 DEF ScriptsInv, FilesOK, Recorded
<1>3. KeysOK' BY <1>1 DEF ScriptsInv, KeysOK
<1>4. ASSUME NEW q \in Procs PROVE ProcessOK(proc[q])'
  <2>1. Ready(proc[q])' BY <1>1 DEF ScriptsInv, ProcessOK, Ready
  <2>2. OnChain(proc[q])' BY <1>1 DEF ScriptsInv, ProcessOK, OnChain
  <2>3. SavesWell(proc[q])' BY <1>1 DEF ScriptsInv, ProcessOK, SavesWell, Recorded
  <2>4. Kept(proc[q])' BY <1>1 DEF ScriptsInv, ProcessOK, Kept
  <2> QED BY <2>1, <2>2, <2>3, <2>4 DEF ProcessOK
<1> QED BY <1>1, <1>2, <1>3, <1>4 DEF ScriptsInv

LEMMA NextKeeps == ASSUME ScriptsInv, [Next]_vars PROVE ScriptsInv'
<1>1. CASE UNCHANGED vars BY <1>1, NothingChanges DEF vars
<1>2. ASSUME NEW p \in Procs, NEW l \in agenda, Launch(p, l) PROVE ScriptsInv'
  BY <1>2, LaunchKeeps
<1>3. ASSUME NEW p \in Procs, ScriptStep(p) PROVE ScriptsInv'
  BY <1>3, ScriptStepKeeps
<1>4. ASSUME NEW p \in Procs, Serve(p) PROVE ScriptsInv'
  BY <1>4, NothingChanges DEF Serve
<1>5. ASSUME NEW p \in Procs, StopProcess(p) PROVE ScriptsInv'
  BY <1>5, StopKeeps DEF StopProcess
<1>6. ASSUME NEW p \in Procs, AskChallenge(p) \/ TakeAnswer(p) \/ Attend(p)
      PROVE  ScriptsInv'
  BY <1>6, ClientKeeps DEF AskChallenge, TakeAnswer, Attend
<1>7. ASSUME NEW p \in Procs, Respond(p) PROVE ScriptsInv'
  BY <1>7, NothingChanges DEF Respond
<1>8. ASSUME \/ \E n \in Nonces : Transfer(n)
             \/ QuotePrice \/ DayWithoutTrade \/ QuoteDeals
      PROVE  ScriptsInv'
  BY <1>8, NothingChanges DEF Transfer, QuotePrice, DayWithoutTrade, QuoteDeals
<1>9. ASSUME TradeMatched PROVE ScriptsInv'
  BY <1>9, NothingChanges, ClientKeeps DEF TradeMatched
<1> QED BY <1>1, <1>2, <1>3, <1>4, <1>5, <1>6, <1>7, <1>8, <1>9 DEF Next

\* The files and the contracts keep their invariant, and every process holds what
\* its remaining steps rely on, under each step of the programs and the matcher.
THEOREM FilesInvariant == Spec => []ScriptsInv
<1>1. ScriptsInv /\ [Next]_vars => ScriptsInv' BY NextKeeps
<1> QED BY <1>1, InitOK, PTL DEF Spec

\* Any number of programs, any of which may stop at any step and be started
\* again, record no contract that is not on its network with all its circuits.
THEOREM RecordsAreComplete == Spec => []RecordedIsComplete
<1>1. ScriptsInv => RecordedIsComplete
  BY DEF ScriptsInv, FilesOK, Recorded, RecordedIsComplete
<1> QED BY <1>1, FilesInvariant, PTL

\* The wallet that paid for a contract and the secret that administers it stay
\* on file, also for a contract no record was made of, until a save has undone
\* another program's.
THEOREM KeysStay == Spec => []KeysKept
<1>1. ScriptsInv => KeysKept
  BY DEF ScriptsInv, KeysOK, KeysKept, Held
<1> QED BY <1>1, FilesInvariant, PTL

\* The secret a program found is the one its contract was deployed with, unless
\* that came from the environment, whatever was deployed in between.
THEOREM AdministratorsKnown == Spec => []AdministratorKnown
<1>1. ScriptsInv => AdministratorKnown
  <2> SUFFICES ASSUME ScriptsInv, "state" \notin lost, NEW p \in Procs,
                      proc[p].contract # NoContract,
                      proc[p].secret \notin {NoKey, EnvKey}, proc[p].saving = NoSave
               PROVE  exchanges[proc[p].contract].admin \in {EnvKey, proc[p].secret}
    BY DEF AdministratorKnown
  <2>1. OnChain(proc[p]) /\ Kept(proc[p]) /\ KeysOK BY DEF ScriptsInv, ProcessOK
  <2>2. proc[p].saving.name # "state" BY DEF NoSave
  <2> QED BY <2>1, <2>2 DEF OnChain, Kept, KeysOK
<1> QED BY <1>1, FilesInvariant, PTL

-----------------------------------------------------------------------------
(* Whose wallet, and which token *)

\* No key or network is read once the wallet has been made.
Orderly(s) ==
  \A i, j \in 1..Len(s) :
    i < j /\ s[i] = "wallet" => s[j] \notin {"network", "seed"}
Mintless(s) == \A i \in 1..Len(s) : s[i] \notin {"mint", "recordColor"}

\* The parts of mint-tzkr.ts still to come, before and after it has read the
\* token's address.
MintSteps ==
  <<"network", "seed", "secret", "token", "wallet", "persist", "mint",
    "recordColor", "persist">>
Searching ==
  {MintSteps, Tail(MintSteps), Tail(Tail(MintSteps)), Tail(Tail(Tail(MintSteps)))}
WalletLeft == <<"wallet", "persist", "mint", "recordColor", "persist">>
PersistLeft == <<"persist", "mint", "recordColor", "persist">>
MintLeft == <<"mint", "recordColor", "persist">>
ColorLeft == <<"recordColor", "persist">>
Minting == {WalletLeft, PersistLeft, MintLeft, ColorLeft}

\* What a whole save of the cache still has to write.
WritesLeft ==
  {<<"shielded", "unshielded", "dust", Fingerprint>>,
   <<"unshielded", "dust", Fingerprint>>, <<"dust", Fingerprint>>,
   <<Fingerprint>>, <<>>}
Unwritten(writes) == {writes[i] : i \in 1..Len(writes)}

\* A wallet is of its seed's, and the files a save has written are the wallet's,
\* but on a network with a save that was not whole.
OwnWallet(x) ==
  /\ \/ x.net \in Networks /\ x.launch # NoLaunch
     \/ x.writes = <<>>
  /\ (\E i \in 1..Len(x.steps) : x.steps[i] \in {"network", "seed"}) =>
       \A k \in Children : x.wallet[k] = NoKey
  /\ x.net \notin torn =>
       /\ \A k \in Children : x.wallet[k] \in {NoKey, x.seed}
       /\ x.writes \in WritesLeft
       /\ x.writes # <<>> =>
            \A k \in Children \ Unwritten(x.writes) :
              caches[x.net][k] = x.wallet[k]

Own(cache) == \A k \in Children : cache[k] \in {NoKey, cache[Fingerprint]}

CachesInv ==
  /\ caches = [n \in Networks |-> [f \in CacheFiles |-> caches[n][f]]]
  /\ \A n \in Networks \ torn :
       (\A p \in Procs : proc[p].net = n => proc[p].writes = <<>>)
         => Own(caches[n])
  /\ \A p \in Procs : Orderly(proc[p].steps) /\ OwnWallet(proc[p])

Numbered(f) ==
  f \in [Networks -> [address: 0..Len(tokenContracts), color: 0..Len(tokenContracts)]]

\* A token record is rewritten with the contract of the process, and with its
\* color once it has been minted.
TokenSaved(x) ==
  x.saving.name = "token" =>
    /\ Mintless(x.steps) /\ x.net \in Networks
    /\ Numbered(x.saving.old)
    /\ \/ x.saving.new = WithToken(x.saving.old, x.net, x.token)
       \/ /\ x.saving.new = WithColor(x.saving.old, x.net, x.token)
          /\ "token" \notin lost /\ x.net \notin overtaken =>
               /\ x.token # NoContract /\ x.saving.old[x.net].address = x.token
               /\ tokenContracts[x.token].minted

\* mint-tzkr.ts mints the contract on file, and records a color once it has.
MintsOnFile(x) ==
  \/ Mintless(x.steps)
  \/ x.steps \in Searching
  \/ /\ x.steps \in Minting /\ x.token # NoContract /\ x.net \in Networks
     /\ "token" \notin lost /\ x.net \notin overtaken =>
          x.token = tokens[x.net].address
     /\ x.steps = ColorLeft => tokenContracts[x.token].minted

TokenOK(x) ==
  /\ x.token \in 0..Len(tokenContracts)
  /\ TokenSaved(x) /\ MintsOnFile(x)

TokensInv ==
  /\ Numbered(tokens)
  /\ "token" \notin lost =>
       \A n \in Networks \ overtaken :
         tokens[n].color # NoContract =>
           /\ tokens[n].color = tokens[n].address
           /\ tokenContracts[tokens[n].address].minted
  /\ \A p \in Procs : TokenOK(proc[p])

\* Sequences that agree are equal.
LEMMA SameSequence ==
  ASSUME NEW S, NEW s \in Seq(S), NEW t \in Seq(S), Len(s) = Len(t),
         \A i \in 1..Len(s) : s[i] = t[i]
  PROVE  s = t
<1>1. s = [i \in 1..Len(s) |-> s[i]] /\ t = [i \in 1..Len(t) |-> t[i]]
  OBVIOUS
<1>2. [i \in 1..Len(s) |-> s[i]] = [i \in 1..Len(t) |-> t[i]]
  OBVIOUS
<1> QED BY <1>1, <1>2

LEMMA WholeSave ==
  WriteOrder(Children) = <<"shielded", "unshielded", "dust", Fingerprint>>
<1>1. WriteOrder(Children) \in Seq(CacheFiles) /\ Len(WriteOrder(Children)) = 4
  BY DEF WriteOrder, CacheFiles, Children
<1>2. /\ WriteOrder(Children)[1] = "shielded"
      /\ WriteOrder(Children)[2] = "unshielded"
      /\ WriteOrder(Children)[3] = "dust" /\ WriteOrder(Children)[4] = Fingerprint
  BY DEF WriteOrder, CacheFiles, Children
<1>3. <<"shielded", "unshielded", "dust", Fingerprint>> \in Seq(CacheFiles)
  BY DEF CacheFiles, Children
<1> QED BY <1>1, <1>2, <1>3, SameSequence

\* The parts of a save, one after another.
LEMMA SaveShrinks ==
  ASSUME NEW writes \in WritesLeft, writes # <<>>
  PROVE  /\ Head(writes) \in CacheFiles /\ Tail(writes) \in WritesLeft
         /\ Unwritten(writes) \subseteq Unwritten(Tail(writes)) \cup {Head(writes)}
         /\ Tail(writes) = <<>> => Head(writes) = Fingerprint
         /\ Tail(writes) # <<>> => Head(writes) \in Children
         /\ Fingerprint \notin Children
<1> USE DEF WritesLeft, CacheFiles, Children, Fingerprint, Unwritten
<1>1. CASE writes = <<"shielded", "unshielded", "dust", Fingerprint>> BY <1>1
<1>2. CASE writes = <<"unshielded", "dust", Fingerprint>> BY <1>2
<1>3. CASE writes = <<"dust", Fingerprint>> BY <1>3
<1>4. CASE writes = <<Fingerprint>> BY <1>4
<1> QED BY <1>1, <1>2, <1>3, <1>4

LEMMA MintStepsTyped == MintSteps \in Seq(Steps) /\ Len(MintSteps) = 9
<1>1. {"network", "seed", "secret", "token", "wallet", "persist", "mint",
       "recordColor"} \subseteq Steps
  BY DEF Steps
<1>2. MintSteps \in Seq(Steps)
  BY <1>1 DEF MintSteps
<1>3. Len(MintSteps) = 9
  BY DEF MintSteps
<1> QED BY <1>2, <1>3

LEMMA MintProgram == MintToken = MintSteps
<1>0. MintToken \in Seq(Steps)
  BY OperatorsPrograms DEF Plain
<1>1. Len(MintToken) = 9
  BY DEF MintToken, Start, Wallet
<1>2. /\ MintToken[1] = "network" /\ MintToken[2] = "seed" /\ MintToken[3] = "secret"
      /\ MintToken[4] = "token" /\ MintToken[5] = "wallet"
      /\ MintToken[6] = "persist" /\ MintToken[7] = "mint"
      /\ MintToken[8] = "recordColor" /\ MintToken[9] = "persist"
  BY DEF MintToken, Start, Wallet
<1>3. MintSteps \in Seq(Steps) /\ Len(MintSteps) = 9
  BY MintStepsTyped
<1>4. /\ MintSteps[1] = "network" /\ MintSteps[2] = "seed" /\ MintSteps[3] = "secret"
      /\ MintSteps[4] = "token" /\ MintSteps[5] = "wallet"
      /\ MintSteps[6] = "persist" /\ MintSteps[7] = "mint"
      /\ MintSteps[8] = "recordColor" /\ MintSteps[9] = "persist"
  BY DEF MintSteps
<1>5. \A i \in 1..9 : MintToken[i] = MintSteps[i]
  BY <1>2, <1>4
<1> QED BY <1>0, <1>1, <1>3, <1>5, SameSequence

LEMMA TailTyped ==
  ASSUME NEW S, NEW s \in Seq(S)
  PROVE  /\ Len(s) = 9 => Tail(s) \in Seq(S) /\ Len(Tail(s)) = 8
         /\ Len(s) = 8 => Tail(s) \in Seq(S) /\ Len(Tail(s)) = 7
         /\ Len(s) = 7 => Tail(s) \in Seq(S) /\ Len(Tail(s)) = 6
<1>1. ASSUME NEW n \in Nat, Len(s) = n + 1
      PROVE  Tail(s) \in Seq(S) /\ Len(Tail(s)) = n
  BY <1>1
<1> QED BY <1>1

LEMMA SearchTyped ==
  LET s == Tail(Tail(Tail(MintSteps))) IN s \in Seq(Steps) /\ Len(s) = 6
<1>1. PICK a : a = MintSteps OBVIOUS
<1>2. a \in Seq(Steps) /\ Len(a) = 9 BY <1>1, MintStepsTyped
<1>3. PICK b : b = Tail(a) OBVIOUS
<1>4. b \in Seq(Steps) /\ Len(b) = 8 BY <1>2, <1>3, TailTyped, Zenon
<1>5. PICK c : c = Tail(b) OBVIOUS
<1>6. c \in Seq(Steps) /\ Len(c) = 7 BY <1>4, <1>5, TailTyped, Zenon
<1>7. Tail(c) \in Seq(Steps) /\ Len(Tail(c)) = 6 BY <1>6, TailTyped, Zenon
<1> QED BY <1>1, <1>3, <1>5, <1>7

\* Which step of mint-tzkr.ts comes after which.
LEMMA SearchGoesOn ==
  ASSUME NEW s \in Searching
  PROVE  \/ s # <<>> /\ Head(s) \in {"network", "seed", "secret"}
                     /\ Tail(s) \in Searching
         \/ s # <<>> /\ Head(s) = "token" /\ Tail(s) = WalletLeft
<1> USE DEF Searching, MintSteps, WalletLeft
<1>1. CASE s = MintSteps BY <1>1
<1>2. CASE s = Tail(MintSteps) BY <1>2
<1>3. CASE s = Tail(Tail(MintSteps)) BY <1>3
<1>4. CASE s = Tail(Tail(Tail(MintSteps)))
  <2>1. Head(s) = "token" /\ s # <<>> BY <1>4
  <2>2. Tail(s) = WalletLeft
    <3>0. s \in Seq(Steps) /\ Len(s) = 6
      BY <1>4, SearchTyped
    <3>4. Tail(s) \in Seq(Steps)
      <4> HIDE DEF Searching, MintSteps, WalletLeft
      <4> QED BY <3>0
    <3>5. WalletLeft \in Seq(Steps)
      BY DEF Steps
    <3>1. Tail(s) \in Seq(Steps) /\ WalletLeft \in Seq(Steps)
      BY <3>4, <3>5
    <3>2. Len(Tail(s)) = 5 /\ Len(WalletLeft) = 5
      BY <1>4
    <3>3. \A i \in 1..5 : Tail(s)[i] = WalletLeft[i]
      BY <1>4
    <3> QED BY <3>1, <3>2, <3>3, SameSequence
  <2> QED BY <2>1, <2>2
<1> QED BY <1>1, <1>2, <1>3, <1>4

LEMMA MintGoesOn ==
  ASSUME NEW s \in Minting
  PROVE  /\ s # <<>>
         /\ \/ Head(s) \in {"wallet", "persist", "mint"} /\ Tail(s) \in Minting
            \/ s = ColorLeft /\ Head(s) = "recordColor" /\ Mintless(Tail(s))
         /\ Tail(s) = ColorLeft => Head(s) = "mint"
         /\ Head(s) = "mint" => s # ColorLeft
<1> USE DEF Minting, WalletLeft, PersistLeft, MintLeft, ColorLeft, Mintless
<1>1. CASE s = WalletLeft BY <1>1
<1>2. CASE s = PersistLeft BY <1>2
<1>3. CASE s = MintLeft BY <1>3
<1>4. CASE s = ColorLeft BY <1>4
<1> QED BY <1>1, <1>2, <1>3, <1>4

\* Parts of programs that read no key after the wallet, and mint nothing.
Tame(s) == s \in Seq(Steps) /\ Orderly(s) /\ Mintless(s)
Quietly(t) ==
  /\ t \in Seq(Steps)
  /\ \A i \in 1..Len(t) : t[i] \notin {"network", "seed", "mint", "recordColor"}

LEMMA OrderlyJoined ==
  ASSUME NEW s \in Seq(Steps), Orderly(s), NEW t \in Seq(Steps),
         \A i \in 1..Len(t) : t[i] \notin {"network", "seed"}
  PROVE  Orderly(s \o t)
<1>1. /\ Len(s \o t) = Len(s) + Len(t) /\ Len(s) \in Nat /\ Len(t) \in Nat
      /\ \A i \in 1..Len(s) : (s \o t)[i] = s[i]
      /\ \A i \in 1..Len(t) : (s \o t)[Len(s) + i] = t[i]
  BY Joined
<1> DEFINE u == s \o t
<1>2. \A i \in 1..Len(u) : i \in 1..Len(s) \/ i - Len(s) \in 1..Len(t)
  BY <1>1
<1>3. \A i \in 1..Len(u) : i - Len(s) \in 1..Len(t) =>
        u[i] \notin {"network", "seed"}
  <2> TAKE i \in 1..Len(u)
  <2> HAVE i - Len(s) \in 1..Len(t)
  <2>1. i = Len(s) + (i - Len(s)) BY <1>1
  <2>2. u[i] = t[i - Len(s)] BY <1>1, <2>1
  <2> QED BY <2>2
<1> HIDE DEF u
<1>4. ASSUME NEW i \in 1..Len(u), NEW j \in 1..Len(u), i < j, u[i] = "wallet"
      PROVE  u[j] \notin {"network", "seed"}
  <2>1. CASE j \in 1..Len(s)
    <3>1. i \in 1..Len(s) BY <1>4, <2>1, <1>1
    <3> QED BY <1>1, <1>4, <2>1, <3>1 DEF Orderly, u
  <2>2. CASE j - Len(s) \in 1..Len(t) BY <1>3, <2>2
  <2> QED BY <1>2, <2>1, <2>2
<1> QED BY <1>4 DEF Orderly, u

LEMMA TameJoined ==
  ASSUME NEW s, Tame(s), NEW t, Quietly(t) PROVE Tame(s \o t)
<1>1. s \in Seq(Steps) /\ t \in Seq(Steps) /\ s \o t \in Seq(Steps)
  BY Joined DEF Tame, Quietly
<1>2. Orderly(s \o t) BY <1>1, OrderlyJoined DEF Tame, Quietly
<1>3. Mintless(s \o t) BY <1>1 DEF Tame, Quietly, Mintless
<1> QED BY <1>1, <1>2, <1>3 DEF Tame

LEMMA QuietParts ==
  /\ Quietly(Wallet) /\ Quietly(WalletCheckpointed) /\ Quietly(Prepare)
  /\ Quietly(<<"secret">>) /\ Quietly(<<"deployment">>) /\ Quietly(<<"color">>)
  /\ Quietly(<<"deployment", "color">>)
  /\ Quietly(<<"deployment", "secret">>) /\ Quietly(<<"deployment", "color", "secret">>)
BY DEF Quietly, Wallet, WalletCheckpointed, Prepare, Steps

LEMMA QuietEnds ==
  /\ Quietly(<<"menu", "persist">>) /\ Quietly(<<"deploy", "record", "persist">>)
  /\ Quietly(<<"deployStage1", "insert", "record", "persist">>)
  /\ Quietly(<<"deployToken", "recordToken", "persist">>)
  /\ Quietly(<<"depositNight", "depositToken", "persist">>)
  /\ Quietly(<<"challenge", "respond", "persist">>)
  /\ Quietly(<<"depositNight", "administer", "administer", "withdraw">>)
  /\ Quietly(<<"order", "order", "secret", "administer", "order", "persist">>)
  /\ Quietly(<<"order", "secret", "administer", "persist">>)
  /\ Quietly(<<"order", "post", "persist">>)
  /\ Quietly(<<"order", "post", "fill", "order", "match", "post", "persist">>)
  /\ Quietly(<<"order", "post", "fill", "persist">>) /\ Quietly(<<"secret", "serve">>)
BY DEF Quietly, Steps

LEMMA TameStarts ==
  /\ Tame(Start) /\ Tame(<<"network", "deployment", "seed">>)
  /\ Tame(Start \o Wallet) /\ Tame(Start \o <<"secret">>) /\ Tame(FindMarket)
<1>1. Tame(Start) /\ Tame(<<"network", "deployment", "seed">>)
  BY DEF Tame, Start, Orderly, Mintless, Steps
<1>2. Tame(Start \o Wallet) /\ Tame(Start \o <<"secret">>)
  BY <1>1, TameJoined, QuietParts
<1>3. Tame(Start \o <<"deployment", "color">>) BY <1>1, TameJoined, QuietParts
<1>4. Tame(FindMarket) BY <1>3, TameJoined, QuietParts DEF FindMarket
<1> QED BY <1>1, <1>2, <1>4

LEMMA TameDeploys == Tame(Deploy) /\ Tame(DeployStaged) /\ Tame(DeployToken)
<1> USE TameStarts, QuietParts, QuietEnds
<1>1. Tame((Start \o <<"secret">>) \o WalletCheckpointed) BY TameJoined
<1>2. Tame(((Start \o <<"secret">>) \o WalletCheckpointed) \o Prepare)
  BY <1>1, TameJoined
<1>3. Tame((Start \o <<"secret">>) \o Wallet) BY TameJoined
<1>4. Tame(((Start \o <<"secret">>) \o Wallet) \o Prepare) BY <1>3, TameJoined
<1>5. Tame(Deploy) BY <1>2, TameJoined DEF Deploy
<1>6. Tame(DeployToken) BY <1>2, TameJoined DEF DeployToken
<1>7. Tame(DeployStaged) BY <1>4, TameJoined DEF DeployStaged
<1> QED BY <1>5, <1>6, <1>7

LEMMA TameSetup == Tame(Setup)
<1> DEFINE t == <<"activate", "network", "forward">>
           u == t \o Deploy
<1>1. /\ Deploy \in Seq(Steps) /\ Len(Deploy) \in Nat
      /\ Orderly(Deploy) /\ Mintless(Deploy)
  BY TameDeploys DEF Tame
<1>2. /\ t \in Seq(Steps) /\ Len(t) = 3
      /\ \A i \in 1..3 : t[i] \notin {"wallet", "mint", "recordColor"}
  BY DEF Steps
<1> HIDE DEF t
<1>3. /\ u \in Seq(Steps) /\ Len(u) = 3 + Len(Deploy)
      /\ \A i \in 1..3 : u[i] = t[i]
      /\ \A i \in 1..Len(Deploy) : u[3 + i] = Deploy[i]
  <2>1. /\ u \in Seq(Steps) /\ Len(u) = Len(t) + Len(Deploy)
        /\ \A i \in 1..Len(t) : u[i] = t[i]
        /\ \A i \in 1..Len(Deploy) : u[Len(t) + i] = Deploy[i]
    BY <1>1, <1>2, Joined
  <2> HIDE DEF u
  <2> QED BY <2>1, <1>2
<1> HIDE DEF u
<1>4. \A i \in 4..Len(u) : i - 3 \in 1..Len(Deploy) /\ u[i] = Deploy[i - 3]
  <2> TAKE i \in 4..Len(u)
  <2>1. i - 3 \in 1..Len(Deploy) /\ i = 3 + (i - 3) BY <1>1, <1>3
  <2> QED BY <1>3, <2>1
<1>5. \A i \in 1..Len(u) : i \in 1..3 \/ i \in 4..Len(u)
  BY <1>1, <1>3
<1>6. Mintless(u)
  BY <1>1, <1>2, <1>3, <1>4, <1>5 DEF Mintless
<1>7. ASSUME NEW i \in 1..Len(u), NEW j \in 1..Len(u), i < j, u[i] = "wallet"
      PROVE  u[j] \notin {"network", "seed"}
  <2>1. i \in 4..Len(u) BY <1>2, <1>3, <1>5, <1>7
  <2>2. j \in 4..Len(u) BY <1>7, <2>1
  <2>3. /\ i - 3 \in 1..Len(Deploy) /\ j - 3 \in 1..Len(Deploy)
        /\ u[i] = Deploy[i - 3] /\ u[j] = Deploy[j - 3] /\ i - 3 < j - 3
    BY <1>4, <1>7, <2>1, <2>2
  <2> QED BY <1>1, <1>7, <2>3 DEF Orderly
<1> QED BY <1>3, <1>6, <1>7 DEF Tame, Orderly, u, t, Setup

LEMMA TameOthers ==
  \A s \in {Cli, CheckBalance, CheckDust, SeedTreasury, SetBootstrapPrice,
            CheckTreasury, CheckTrade, CheckSell, CheckOrder, CheckBootstrap,
            CheckLastPrice, Matcher} : Tame(s)
<1> USE TameStarts, QuietParts, QuietEnds
<1>1. Tame(Cli)
  <2>1. Tame(Start \o <<"deployment">>) BY TameJoined
  <2>2. Tame((Start \o <<"deployment">>) \o Wallet) BY <2>1, TameJoined
  <2> QED BY <2>2, TameJoined DEF Cli
<1>2. Tame(CheckBalance) /\ Tame(CheckDust) BY TameJoined DEF CheckBalance, CheckDust
<1>3. Tame(SeedTreasury)
  <2>1. Tame(Start \o <<"deployment", "color", "secret">>) BY TameJoined
  <2>2. Tame((Start \o <<"deployment", "color", "secret">>) \o Wallet)
    BY <2>1, TameJoined
  <2> QED BY <2>2, TameJoined DEF SeedTreasury
<1>4. Tame(SetBootstrapPrice)
  <2>1. Tame(Start \o <<"color">>) BY TameJoined
  <2>2. Tame((Start \o <<"color">>) \o Wallet) BY <2>1, TameJoined
  <2> QED BY <2>2, TameJoined DEF SetBootstrapPrice
<1>5. Tame(CheckTreasury)
  <2>1. Tame(Start \o <<"deployment", "secret">>) BY TameJoined
  <2>2. Tame((Start \o <<"deployment", "secret">>) \o Wallet) BY <2>1, TameJoined
  <2> QED BY <2>2, TameJoined DEF CheckTreasury
<1>6. Tame(CheckTrade) /\ Tame(CheckSell) BY TameJoined DEF CheckTrade, CheckSell
<1>7. Tame(CheckOrder) /\ Tame(CheckBootstrap) /\ Tame(CheckLastPrice)
  BY TameJoined DEF CheckOrder, CheckBootstrap, CheckLastPrice
<1>8. Tame(Matcher)
  <2>1. Tame(<<"network", "deployment", "seed">> \o WalletCheckpointed)
    BY TameJoined
  <2> QED BY <2>1, TameJoined DEF Matcher
<1> QED BY <1>1, <1>2, <1>3, <1>4, <1>5, <1>6, <1>7, <1>8

LEMMA ProgramsInOrder ==
  ASSUME NEW name \in ProgramNames
  PROVE  /\ Orderly(Program[name])
         /\ Mintless(Program[name]) \/ Program[name] \in Searching
<1>1. Tame(<<"activate">>) BY DEF Tame, Orderly, Mintless, Steps
<1>2. Program[name] \in
        {<<"activate">>, Setup, Deploy, DeployStaged, DeployToken, Cli,
         CheckBalance, CheckDust, SeedTreasury, SetBootstrapPrice,
         CheckTreasury, CheckTrade, CheckSell, CheckOrder, CheckBootstrap,
         CheckLastPrice, Matcher} \/ Program[name] = MintToken
  BY DEF ProgramNames, Program
<1>3. CASE Program[name] = MintToken
  <2>1. MintSteps \in Searching BY DEF Searching
  <2>2. Orderly(MintSteps) BY DEF Orderly, MintSteps
  <2> QED BY <1>3, <2>1, <2>2, MintProgram
<1>4. CASE Program[name] # MintToken
  <2>1. Tame(Program[name])
    BY <1>1, <1>2, <1>4, TameSetup, TameDeploys, TameOthers
  <2> QED BY <2>1 DEF Tame
<1> QED BY <1>3, <1>4

\* What is left of a program stays in order.
LEMMA RestInOrder ==
  ASSUME NEW s \in Seq(Steps), s # <<>>, Orderly(s)
  PROVE  /\ Orderly(Tail(s))
         /\ Head(s) = "wallet" =>
              \A i \in 1..Len(Tail(s)) : Tail(s)[i] \notin {"network", "seed"}
         /\ Mintless(s) => Mintless(Tail(s)) /\ Head(s) \notin {"mint", "recordColor"}
         /\ (\E i \in 1..Len(Tail(s)) : Tail(s)[i] \in {"network", "seed"}) =>
              \E i \in 1..Len(s) : s[i] \in {"network", "seed"}
<1>1. /\ Len(Tail(s)) = Len(s) - 1 /\ Len(s) \in Nat \ {0} /\ Head(s) = s[1]
      /\ \A i \in 1..(Len(s) - 1) : Tail(s)[i] = s[i + 1]
  OBVIOUS
<1>2. \A i \in 1..Len(Tail(s)) : i + 1 \in 1..Len(s) /\ Tail(s)[i] = s[i + 1]
  BY <1>1
<1> DEFINE t == Tail(s)
<1> HIDE DEF t
<1>3. Orderly(t)
  BY <1>1, <1>2 DEF Orderly, t
<1>4. \A i \in 1..Len(t) : i + 1 \in 1..Len(s) /\ t[i] = s[i + 1] /\ 1 < i + 1
  BY <1>1, <1>2 DEF t
<1>5. ASSUME Head(s) = "wallet"
      PROVE  \A i \in 1..Len(t) : t[i] \notin {"network", "seed"}
  <2>1. 1 \in 1..Len(s) /\ s[1] = "wallet" BY <1>1, <1>5
  <2> QED BY <1>4, <2>1 DEF Orderly
<1>6. ASSUME Mintless(s)
      PROVE  Mintless(t) /\ Head(s) \notin {"mint", "recordColor"}
  BY <1>1, <1>4, <1>6 DEF Mintless
<1>7. ASSUME NEW i \in 1..Len(t), t[i] \in {"network", "seed"}
      PROVE  \E j \in 1..Len(s) : s[j] \in {"network", "seed"}
  BY <1>4, <1>7
<1> QED BY <1>3, <1>5, <1>6, <1>7 DEF t

\* The fields of a process that a step leaves alone.
Keeps(x, y, fields) ==
  /\ "steps" \in fields \/ y.steps = x.steps
  /\ "net" \in fields \/ y.net = x.net
  /\ "seed" \in fields \/ y.seed = x.seed
  /\ "token" \in fields \/ y.token = x.token
  /\ "wallet" \in fields \/ y.wallet = x.wallet
  /\ "saving" \in fields \/ y.saving = x.saving
  /\ "writes" \in fields \/ y.writes = x.writes
  /\ "launch" \in fields \/ y.launch = x.launch

LEMMA KeepsTwice ==
  ASSUME NEW x, NEW y, NEW z, NEW F, NEW G, NEW H, Keeps(x, y, F), Keeps(y, z, G),
         F \cup G \subseteq H
  PROVE  Keeps(x, z, H)
BY DEF Keeps

LEMMA Rewritten ==
  ASSUME NEW x, Shaped(x), NEW v
  PROVE  /\ Keeps(x, [x EXCEPT !.steps = v], {"steps"})
         /\ Keeps(x, [x EXCEPT !.net = v], {"net"})
         /\ Keeps(x, [x EXCEPT !.seed = v], {"seed"})
         /\ Keeps(x, [x EXCEPT !.secret = v], {})
         /\ Keeps(x, [x EXCEPT !.contract = v], {})
         /\ Keeps(x, [x EXCEPT !.token = v], {"token"})
         /\ Keeps(x, [x EXCEPT !.wallet = v], {"wallet"})
         /\ Keeps(x, [x EXCEPT !.saving = v], {"saving"})
         /\ Keeps(x, [x EXCEPT !.writes = v], {"writes"})
         /\ Keeps(x, [x EXCEPT !.launch.flag = v], {"launch"})
<1>1. Keeps(x, [x EXCEPT !.steps = v], {"steps"}) BY DEF Shaped, Keeps
<1>2. Keeps(x, [x EXCEPT !.net = v], {"net"}) BY DEF Shaped, Keeps
<1>3. Keeps(x, [x EXCEPT !.seed = v], {"seed"}) BY DEF Shaped, Keeps
<1>4. Keeps(x, [x EXCEPT !.secret = v], {}) BY DEF Shaped, Keeps
<1>5. Keeps(x, [x EXCEPT !.contract = v], {}) BY DEF Shaped, Keeps
<1>6. Keeps(x, [x EXCEPT !.token = v], {"token"}) BY DEF Shaped, Keeps
<1>7. Keeps(x, [x EXCEPT !.wallet = v], {"wallet"}) BY DEF Shaped, Keeps
<1>8. Keeps(x, [x EXCEPT !.saving = v], {"saving"}) BY DEF Shaped, Keeps
<1>9. Keeps(x, [x EXCEPT !.writes = v], {"writes"}) BY DEF Shaped, Keeps
<1>10. Keeps(x, [x EXCEPT !.launch.flag = v], {"launch"}) BY DEF Shaped, Keeps
<1> QED BY <1>1, <1>2, <1>3, <1>4, <1>5, <1>6, <1>7, <1>8, <1>9, <1>10

\* A step of a program changes the process p, whose next steps are the rest of
\* its program, and of the fields above only those in F.
StepOf(p, y, fields) ==
  /\ Becomes(p, y)
  /\ proc[p].steps # <<>> /\ y.steps = Tail(proc[p].steps)
  /\ proc[p].saving = NoSave /\ proc[p].writes = <<>>
  /\ Keeps(proc[p], y, fields \cup {"steps"})

LEMMA Stepping ==
  ASSUME ScriptsInv, NEW p \in Procs, NEW step, At(p, step), NEW fields,
         NEW y, Becomes(p, y), Keeps(Advanced(p), y, fields), "steps" \notin fields
  PROVE  StepOf(p, y, fields)
<1>1. /\ Shaped(proc[p]) /\ proc[p].steps # <<>> /\ proc[p].saving = NoSave
      /\ proc[p].writes = <<>>
  BY HeadOf DEF At
<1>2. /\ Keeps(proc[p], Advanced(p), {"steps"})
      /\ Advanced(p).steps = Tail(proc[p].steps)
  BY <1>1, Rewritten, Advancing DEF Advanced
<1>3. y.steps = Tail(proc[p].steps) BY <1>2 DEF Keeps
<1>4. Keeps(proc[p], y, fields \cup {"steps"}) BY <1>2, KeepsTwice
<1> QED BY <1>1, <1>3, <1>4 DEF StepOf

LEMMA ShapedNext ==
  ASSUME ScriptsInv, NEW p \in Procs, NEW step, At(p, step)
  PROVE  Shaped(Advanced(p))
BY HeadOf, Advancing

\* What each step does to its process.
LEMMA JustGoesOn ==
  ASSUME ScriptsInv, NEW p \in Procs, NEW step, At(p, step), Becomes(p, Advanced(p))
  PROVE  StepOf(p, Advanced(p), {})
<1>1. Keeps(Advanced(p), Advanced(p), {}) BY DEF Keeps
<1> QED BY <1>1, Stepping

\* Steps that only read, only act on the chain, or only rewrite the state file.
Plainly(p) ==
  \/ Wait(p) \/ Forward(p) \/ Activate(p) \/ GetSecret(p) \/ ReadDeployment(p)
  \/ Synced(p) \/ DeployExchange(p) \/ InsertedAll(p) \/ RecordDeployment(p)
  \/ Administer(p)

LEMMA PlainSteps ==
  ASSUME ScriptsInv, NEW p \in Procs, Plainly(p)
  PROVE  \E y : StepOf(p, y, {"saving", "launch"}) /\ y.saving.name # "token"
<1>1. PICK step, y, v :
        /\ At(p, step) /\ Becomes(p, y)
        /\ \/ y \in {Advanced(p), [Advanced(p) EXCEPT !.launch.flag = v],
                     [Advanced(p) EXCEPT !.contract = v],
                     [Advanced(p) EXCEPT !.secret = v]}
           \/ /\ \/ y = [Advanced(p) EXCEPT !.saving = v]
                 \/ \E w : y = [Advanced(p) EXCEPT !.secret = w, !.saving = v]
              /\ v.name = "state"
  <2>1. CASE Wait(p) BY <2>1 DEF Wait
  <2>2. CASE Forward(p) BY <2>2 DEF Forward
  <2>3. CASE Activate(p) BY <2>3 DEF Activate, Saving
  <2>4. CASE GetSecret(p)
    <3> DEFINE known == Found(KnownSecret(proc[p].net, proc[p].launch.env, file))
               s == Saving("state", file, WithSecret(file, proc[p].net, fresh))
    <3>1. At(p, "secret") BY <2>4 DEF GetSecret
    <3>2. s.name = "state" BY DEF Saving
    <3>3. CASE known # NoKey
      <4>1. Becomes(p, [Advanced(p) EXCEPT !.secret = known])
        BY <2>4, <3>3 DEF GetSecret
      <4> HIDE DEF known
      <4> QED BY <3>1, <4>1
    <3>4. CASE known = NoKey
      <4>1. Becomes(p, [Advanced(p) EXCEPT !.secret = fresh, !.saving = s])
        BY <2>4, <3>4 DEF GetSecret
      <4> HIDE DEF s, known
      <4> QED BY <3>1, <3>2, <4>1
    <3> QED BY <3>3, <3>4
  <2>5. CASE ReadDeployment(p) BY <2>5 DEF ReadDeployment
  <2>6. CASE Synced(p) BY <2>6 DEF Synced
  <2>7. CASE DeployExchange(p) BY <2>7 DEF DeployExchange
  <2>8. CASE InsertedAll(p) BY <2>8 DEF InsertedAll
  <2>9. CASE RecordDeployment(p) BY <2>9 DEF RecordDeployment, Saving
  <2>10. CASE Administer(p) BY <2>10 DEF Administer
  <2> QED BY <2>1, <2>2, <2>3, <2>4, <2>5, <2>6, <2>7, <2>8, <2>9, <2>10
          DEF Plainly
<1>2. Shaped(Advanced(p)) /\ Keeps(Advanced(p), Advanced(p), {})
  BY <1>1, ShapedNext DEF Keeps
<1>3. CASE y \in {Advanced(p), [Advanced(p) EXCEPT !.launch.flag = v],
                  [Advanced(p) EXCEPT !.contract = v],
                  [Advanced(p) EXCEPT !.secret = v]}
  <2>1. Keeps(Advanced(p), y, {"launch"})
    <3>1. CASE y = Advanced(p) BY <1>2, <3>1 DEF Keeps
    <3>2. CASE y = [Advanced(p) EXCEPT !.launch.flag = v] BY <1>2, <3>2, Rewritten
    <3>3. CASE y = [Advanced(p) EXCEPT !.contract = v]
      <4>1. Keeps(Advanced(p), y, {}) BY <1>2, <3>3, Rewritten
      <4> QED BY <4>1 DEF Keeps
    <3>4. CASE y = [Advanced(p) EXCEPT !.secret = v]
      <4>1. Keeps(Advanced(p), y, {}) BY <1>2, <3>4, Rewritten
      <4> QED BY <4>1 DEF Keeps
    <3> QED BY <1>3, <3>1, <3>2, <3>3, <3>4
  <2>2. Keeps(Advanced(p), y, {"saving", "launch"}) BY <2>1 DEF Keeps
  <2>3. StepOf(p, y, {"saving", "launch"}) BY <1>1, <2>2, Stepping
  <2>4. y.saving = NoSave
    <3>1. StepOf(p, y, {"launch"}) BY <1>1, <2>1, Stepping
    <3> QED BY <3>1 DEF StepOf, Keeps
  <2> QED BY <2>3, <2>4 DEF NoSave
<1>4. CASE y = [Advanced(p) EXCEPT !.saving = v] /\ v.name = "state"
  <2>1. Keeps(Advanced(p), y, {"saving", "launch"})
    <3>1. Keeps(Advanced(p), y, {"saving"}) BY <1>2, <1>4, Rewritten
    <3> QED BY <3>1 DEF Keeps
  <2>2. StepOf(p, y, {"saving", "launch"}) BY <1>1, <2>1, Stepping
  <2>3. y.saving = v BY <1>2, <1>4, NewSaving
  <2> QED BY <1>4, <2>2, <2>3
<1>5. ASSUME NEW w, y = [Advanced(p) EXCEPT !.secret = w, !.saving = v],
             v.name = "state"
      PROVE  StepOf(p, y, {"saving", "launch"}) /\ y.saving.name # "token"
  <2> DEFINE z == [Advanced(p) EXCEPT !.secret = w]
  <2>1. Keeps(Advanced(p), z, {}) /\ Shaped(z) BY <1>2, Rewritten, NewSecret
  <2>2. y = [z EXCEPT !.saving = v] BY <1>5
  <2> HIDE DEF z
  <2>3. Keeps(z, y, {"saving"}) /\ y.saving = v BY <2>1, <2>2, Rewritten, NewSaving
  <2>4. Keeps(Advanced(p), y, {"saving", "launch"}) BY <2>1, <2>3, KeepsTwice
  <2>5. StepOf(p, y, {"saving", "launch"}) BY <1>1, <2>4, Stepping
  <2> QED BY <1>5, <2>3, <2>5
<1> QED BY <1>1, <1>3, <1>4, <1>5

LEMMA NetworkStep ==
  ASSUME ScriptsInv, NEW p \in Procs, Resolve(p)
  PROVE  \E y : StepOf(p, y, {"net"}) /\ At(p, "network")
<1>1. PICK y, v : y = [Advanced(p) EXCEPT !.net = v] /\ Becomes(p, y)
  BY DEF Resolve
<1>2. At(p, "network") BY DEF Resolve
<1>3. Keeps(Advanced(p), y, {"net"}) BY <1>1, <1>2, ShapedNext, Rewritten
<1> QED BY <1>1, <1>2, <1>3, Stepping

LEMMA SeedStep ==
  ASSUME ScriptsInv, NEW p \in Procs, GetSeed(p)
  PROVE  \E y : /\ StepOf(p, y, {"seed", "saving"}) /\ At(p, "seed")
                /\ y.saving.name # "token"
<1>1. At(p, "seed") BY DEF GetSeed
<1>2. Shaped(Advanced(p)) BY <1>1, ShapedNext
<1>3. PICK y, w, v :
        /\ Becomes(p, y)
        /\ \/ y = [Advanced(p) EXCEPT !.seed = w]
           \/ y = [Advanced(p) EXCEPT !.seed = w, !.saving = v] /\ v.name = "state"
  <2> DEFINE known == Found(KnownSeed(proc[p].net, proc[p].launch.env, file))
             s == Saving("state", file, WithSeed(file, proc[p].net, fresh))
  <2>1. s.name = "state" BY DEF Saving
  <2>2. CASE known # NoKey
    <3>1. Becomes(p, [Advanced(p) EXCEPT !.seed = known]) BY <2>2 DEF GetSeed
    <3> HIDE DEF known
    <3> QED BY <3>1
  <2>3. CASE known = NoKey
    <3>1. Becomes(p, [Advanced(p) EXCEPT !.seed = fresh, !.saving = s])
      BY <2>3 DEF GetSeed
    <3> HIDE DEF s, known
    <3> QED BY <2>1, <3>1
  <2> QED BY <2>2, <2>3
<1> DEFINE z == [Advanced(p) EXCEPT !.seed = w]
<1>4. Keeps(Advanced(p), z, {"seed"}) /\ Shaped(z) BY <1>2, Rewritten, NewSeed
<1>5. CASE y = z
  <2>1. Keeps(Advanced(p), y, {"seed"}) BY <1>4, <1>5
  <2> HIDE DEF z
  <2>2. StepOf(p, y, {"seed"}) BY <1>1, <1>3, <2>1, Stepping
  <2>3. StepOf(p, y, {"seed", "saving"}) BY <2>2 DEF StepOf, Keeps
  <2>4. y.saving = NoSave BY <2>2 DEF StepOf, Keeps
  <2> QED BY <1>1, <2>3, <2>4 DEF NoSave
<1>6. CASE y = [z EXCEPT !.saving = v] /\ v.name = "state"
  <2> HIDE DEF z
  <2>1. Keeps(z, y, {"saving"}) /\ y.saving = v BY <1>4, <1>6, Rewritten, NewSaving
  <2>2. Keeps(Advanced(p), y, {"seed", "saving"}) BY <1>4, <2>1, KeepsTwice
  <2>3. StepOf(p, y, {"seed", "saving"}) BY <1>1, <1>3, <2>2, Stepping
  <2> QED BY <1>1, <1>6, <2>1, <2>3
<1> QED BY <1>3, <1>5, <1>6

LEMMA TokenStep ==
  ASSUME ScriptsInv, NEW p \in Procs, NEW y, NEW t, NEW step, At(p, step),
         y = [Advanced(p) EXCEPT !.token = t], Becomes(p, y)
  PROVE  StepOf(p, y, {"token"}) /\ y.token = t
<1>1. Shaped(Advanced(p)) BY ShapedNext
<1>2. Keeps(Advanced(p), y, {"token"}) /\ y.token = t BY <1>1, Rewritten, NewToken
<1> QED BY <1>2, Stepping

LEMMA TokenSaveStep ==
  ASSUME ScriptsInv, NEW p \in Procs, NEW y, NEW v, NEW step, At(p, step),
         y = [Advanced(p) EXCEPT !.saving = v], Becomes(p, y)
  PROVE  StepOf(p, y, {"saving"}) /\ y.saving = v
<1>1. Shaped(Advanced(p)) BY ShapedNext
<1>2. Keeps(Advanced(p), y, {"saving"}) /\ y.saving = v BY <1>1, Rewritten, NewSaving
<1> QED BY <1>2, Stepping

-----------------------------------------------------------------------------
(* The wallets and their caches *)

LEMMA NowProcess ==
  ASSUME ScriptsInv, NEW p \in Procs, NEW y, Becomes(p, y)
  PROVE  /\ proc'[p] = y
         /\ \A q \in Procs \ {p} : proc'[q] = proc[q]
BY DEF ScriptsInv, Becomes

\* The process p becomes y; the others keep what they have.
LEMMA OneOwns ==
  ASSUME ScriptsInv, CachesInv, NEW p \in Procs, NEW y, Becomes(p, y),
         UNCHANGED caches, torn \subseteq torn',
         Orderly(y.steps), OwnWallet(y)',
         \A n \in Networks \ torn' :
           y.net = n /\ y.writes = <<>> /\ proc[p].net = n
             => proc[p].writes = <<>>,
         \A n \in Networks \ torn' :
           y.net # n /\ proc[p].net = n => proc[p].writes = <<>>
  PROVE  CachesInv'
<1>1. proc'[p] = y /\ \A q \in Procs \ {p} : proc'[q] = proc[q]
  BY NowProcess
<1>2. ASSUME NEW q \in Procs PROVE Orderly(proc'[q].steps) /\ OwnWallet(proc[q])'
  <2>1. CASE q = p BY <1>1, <2>1 DEF OwnWallet
  <2>2. CASE q # p
    <3>1. PICK x : x = proc[q] OBVIOUS
    <3>2. Orderly(x.steps) /\ OwnWallet(x) BY <3>1 DEF CachesInv
    <3>3. OwnWallet(x)' BY <3>2 DEF OwnWallet
    <3>4. proc'[q] = x BY <1>1, <2>2, <3>1
    <3> QED BY <3>2, <3>3, <3>4 DEF OwnWallet
  <2> QED BY <2>1, <2>2
<1>3. ASSUME NEW n \in Networks \ torn',
             \A q \in Procs : proc'[q].net = n => proc'[q].writes = <<>>
      PROVE  Own(caches'[n])
  <2>1. n \in Networks \ torn OBVIOUS
  <2>2. ASSUME NEW q \in Procs, proc[q].net = n PROVE proc[q].writes = <<>>
    <3>1. CASE q # p BY <1>1, <1>3, <2>2, <3>1
    <3>2. CASE q = p
      <4>1. CASE y.net = n
        <5>1. y.writes = <<>> BY <1>1, <1>3, <4>1
        <5> QED BY <5>1, <4>1, <3>2, <2>2
      <4>2. CASE y.net # n BY <4>2, <3>2, <2>2
      <4> QED BY <4>1, <4>2
    <3> QED BY <3>1, <3>2
  <2>3. Own(caches[n]) BY <2>1, <2>2 DEF CachesInv
  <2> QED BY <2>3
<1>4. caches' = [n \in Networks |-> [f \in CacheFiles |-> caches'[n][f]]]
  BY DEF CachesInv
<1> QED BY <1>2, <1>3, <1>4 DEF CachesInv

LEMMA StepOwns ==
  ASSUME ScriptsInv, CachesInv, NEW p \in Procs, NEW y, NEW fields,
         StepOf(p, y, fields), fields \cap {"wallet", "writes"} = {},
         "net" \in fields => Head(proc[p].steps) = "network",
         "seed" \in fields => Head(proc[p].steps) = "seed",
         UNCHANGED <<caches, torn>>
  PROVE  CachesInv'
<1> DEFINE x == proc[p]
<1>1. /\ Becomes(p, y) /\ x.steps # <<>> /\ y.steps = Tail(x.steps)
      /\ x.writes = <<>> /\ y.writes = x.writes /\ y.wallet = x.wallet
      /\ "net" \in fields \/ y.net = x.net
      /\ "seed" \in fields \/ y.seed = x.seed
  BY DEF StepOf, Keeps
<1>2. x.steps \in Seq(Steps) BY DEF ScriptsInv, ProcessOK, Ready
<1>3. Orderly(x.steps) /\ OwnWallet(x) BY DEF CachesInv
<1> HIDE DEF x
<1>4. Orderly(y.steps)
      /\ ((\E i \in 1..Len(y.steps) : y.steps[i] \in {"network", "seed"}) =>
            \E i \in 1..Len(x.steps) : x.steps[i] \in {"network", "seed"})
  BY <1>1, <1>2, <1>3, RestInOrder
<1>5. ASSUME y.net # x.net \/ y.seed # x.seed
      PROVE  \A k \in Children : x.wallet[k] = NoKey
  <2>1. Head(x.steps) \in {"network", "seed"} BY <1>1, <1>5 DEF x
  <2>2. 1 \in 1..Len(x.steps) /\ Head(x.steps) = x.steps[1] BY <1>1, <1>2
  <2> QED BY <1>3, <2>1, <2>2 DEF OwnWallet
<1>6. OwnWallet(y)'
  <2>1. (\E i \in 1..Len(y.steps) : y.steps[i] \in {"network", "seed"}) =>
          \A k \in Children : y.wallet[k] = NoKey
    BY <1>1, <1>3, <1>4 DEF OwnWallet
  <2>2. y.net \notin torn => \A k \in Children : y.wallet[k] \in {NoKey, y.seed}
    <3>1. CASE y.net = x.net /\ y.seed = x.seed BY <1>1, <1>3, <3>1 DEF OwnWallet
    <3>2. CASE y.net # x.net \/ y.seed # x.seed BY <1>1, <1>5, <3>2
    <3> QED BY <3>1, <3>2
  <2>3. y.writes = <<>> /\ <<>> \in WritesLeft BY <1>1 DEF WritesLeft
  <2> QED BY <2>1, <2>2, <2>3 DEF OwnWallet
<1> QED BY <1>1, <1>4, <1>6, OneOwns DEF x

LEMMA SaveOwns ==
  ASSUME ScriptsInv, CachesInv, NEW p \in Procs, Save(p)
  PROVE  CachesInv'
<1> DEFINE x == proc[p]
           y == [x EXCEPT !.saving = NoSave]
<1>1. Becomes(p, y) /\ UNCHANGED <<caches, torn>> BY DEF Save
<1>2. Shaped(x) BY DEF ScriptsInv, ProcessOK, Ready
<1>3. Orderly(x.steps) /\ OwnWallet(x) BY DEF CachesInv
<1>4. PICK z : z = y OBVIOUS
<1>5. Keeps(x, z, {"saving"}) BY <1>2, <1>4, Rewritten
<1>6. /\ z.steps = x.steps /\ z.net = x.net /\ z.seed = x.seed
      /\ z.wallet = x.wallet /\ z.writes = x.writes /\ z.launch = x.launch
  BY <1>5 DEF Keeps
<1>7. Becomes(p, z) BY <1>1, <1>4
<1> HIDE DEF x, y
<1>8. OwnWallet(z)' BY <1>1, <1>3, <1>6 DEF OwnWallet
<1> QED BY <1>1, <1>3, <1>6, <1>7, <1>8, OneOwns DEF x

LEMMA StartOwns ==
  ASSUME ScriptsInv, CachesInv, NEW p \in Procs, NEW y, Becomes(p, y),
         y = Idle \/ \E l \in Launches : y = Started(l),
         UNCHANGED caches, torn \subseteq torn',
         proc[p].writes # <<>> => proc[p].net \in torn'
  PROVE  CachesInv'
<1>1. y.wallet = [k \in Children |-> NoKey] /\ y.writes = <<>>
  <2>1. /\ Idle.wallet = [k \in Children |-> NoKey] /\ Idle.writes = <<>>
        /\ Shaped(Idle)
    BY DEF Idle, Shaped
  <2>2. CASE y = Idle BY <2>1, <2>2
  <2>3. ASSUME NEW l \in Launches, y = Started(l)
        PROVE  y.wallet = Idle.wallet /\ y.writes = Idle.writes
    <3> DEFINE s == Program[l.program]
    <3>1. y = [Idle EXCEPT !.launch = l, !.steps = s] BY <2>3 DEF Started
    <3> HIDE DEF s
    <3> QED BY <3>1 DEF Idle
  <2> QED BY <2>1, <2>2, <2>3
<1>2. Orderly(y.steps)
  <2>1. CASE y = Idle BY <2>1 DEF Idle, Orderly
  <2>2. ASSUME NEW l \in Launches, y = Started(l) PROVE Orderly(y.steps)
    <3>1. y.steps = Program[l.program] BY <2>2 DEF Started, Idle
    <3>2. l.program \in ProgramNames BY DEF Launches
    <3> QED BY <3>1, <3>2, ProgramsInOrder
  <2> QED BY <2>1, <2>2
<1>3. <<>> \in WritesLeft BY DEF WritesLeft
<1>4. OwnWallet(y)' BY <1>1, <1>3 DEF OwnWallet
<1> QED BY <1>2, <1>4, OneOwns

LEMMA WalletOwns ==
  ASSUME ScriptsInv, CachesInv, NEW p \in Procs, CreateWallet(p)
  PROVE  CachesInv'
<1> DEFINE x == proc[p]
<1>1. /\ At(p, "wallet") /\ UNCHANGED caches
      /\ torn' = IF ~SavingElsewhere(p) THEN torn ELSE torn \cup {x.net}
  BY DEF CreateWallet, TornIf, fileVars
<1>2. PICK failing, w :
        /\ w = RestoredFrom(caches[x.net], x.seed, failing)
        /\ Becomes(p, [Advanced(p) EXCEPT !.wallet = w])
  BY DEF CreateWallet
<1>3. PICK y : y = [Advanced(p) EXCEPT !.wallet = w] OBVIOUS
<1>4. Shaped(Advanced(p)) BY <1>1, ShapedNext
<1>5. Keeps(Advanced(p), y, {"wallet"}) /\ y.wallet = w
  BY <1>3, <1>4, Rewritten, NewWallet
<1>6. Becomes(p, y) BY <1>2, <1>3
<1>7. StepOf(p, y, {"wallet"}) BY <1>1, <1>5, <1>6, Stepping
<1>8. /\ x.steps # <<>> /\ y.steps = Tail(x.steps) /\ x.writes = <<>>
      /\ y.writes = x.writes /\ y.net = x.net /\ y.seed = x.seed
  BY <1>7 DEF StepOf, Keeps
<1>9. x.steps \in Seq(Steps) /\ x.net \in Networks
      /\ Head(x.steps) = "wallet"
  BY <1>1, HeadOf DEF ProcessOK, Ready, Unsettled
<1>10. Orderly(x.steps) /\ OwnWallet(x) BY DEF CachesInv
<1> HIDE DEF x
<1>11. /\ Orderly(y.steps)
       /\ \A i \in 1..Len(y.steps) : y.steps[i] \notin {"network", "seed"}
  BY <1>8, <1>9, <1>10, RestInOrder
<1>12. ASSUME x.net \notin torn'
       PROVE  \A k \in Children : w[k] \in {NoKey, x.seed}
  <2>1. x.net \notin torn /\ ~SavingElsewhere(p) BY <1>1, <1>12
  <2>2. \A q \in Procs : proc[q].net = x.net => proc[q].writes = <<>>
    BY <1>8, <2>1 DEF SavingElsewhere, x
  <2>3. Own(caches[x.net]) BY <1>9, <2>1, <2>2 DEF CachesInv
  <2>4. PICK c : c = caches[x.net] OBVIOUS
  <2>5. w = [k \in Children |->
               IF Usable(c, x.seed) /\ c[k] # NoKey /\ k \notin failing
               THEN c[k] ELSE x.seed]
    BY <1>2, <2>4 DEF RestoredFrom
  <2>6. Own(c) BY <2>3, <2>4
  <2> QED BY <2>5, <2>6 DEF Own, Usable
<1>13. <<>> \in WritesLeft BY DEF WritesLeft
<1>14. OwnWallet(y)'
  BY <1>5, <1>8, <1>11, <1>12, <1>13 DEF OwnWallet
<1>15. torn \subseteq torn' BY <1>1
<1> QED BY <1>1, <1>6, <1>8, <1>11, <1>14, <1>15, OneOwns DEF x

LEMMA NoLaunchIsNone == NoLaunch \notin Launches
BY DEF NoLaunch, Launches, ProgramNames, Program

LEMMA PersistOwns ==
  ASSUME ScriptsInv, CachesInv, NEW p \in Procs, Persist(p)
  PROVE  CachesInv'
<1> DEFINE x == proc[p]
<1>1. PICK step \in {"persist", "checkpoints"} : At(p, step)
  BY DEF Persist
<1>2. PICK failing, writes :
        /\ writes = WriteOrder(Children \ failing)
        /\ \/ Becomes(p, [Advanced(p) EXCEPT !.writes = writes])
           \/ Becomes(p, [proc[p] EXCEPT !.writes = writes])
        /\ torn' = IF failing = {} THEN torn ELSE torn \cup {x.net}
  <2>1. PICK failing \in Failures :
          /\ Becomes(p, [(IF At(p, "persist") THEN Advanced(p) ELSE proc[p])
                           EXCEPT !.writes = WriteOrder(Children \ failing)])
          /\ TornIf(failing = {}, p)
    BY DEF Persist
  <2>2. PICK writes : writes = WriteOrder(Children \ failing) OBVIOUS
  <2> QED BY <2>1, <2>2 DEF TornIf
<1>3. UNCHANGED caches BY DEF Persist, fileVars
<1>4. Shaped(Advanced(p)) /\ Shaped(x) BY <1>1, ShapedNext, HeadOf
<1>5. /\ x.steps # <<>> /\ x.steps \in Seq(Steps) /\ x.writes = <<>>
      /\ x.net \in Networks /\ x.launch \in Launches
  BY <1>1, HeadOf DEF At, ProcessOK, Ready, Unsettled
<1>6. PICK y : /\ Becomes(p, y) /\ y.writes = writes /\ y.launch = x.launch
               /\ y.steps \in {x.steps, Tail(x.steps)}
               /\ y.net = x.net /\ y.seed = x.seed /\ y.wallet = x.wallet
  <2>1. CASE Becomes(p, [Advanced(p) EXCEPT !.writes = writes])
    <3>1. PICK y : y = [Advanced(p) EXCEPT !.writes = writes] OBVIOUS
    <3>2. Keeps(Advanced(p), y, {"writes"}) /\ y.writes = writes
      BY <1>4, <3>1, Rewritten, NewWrites
    <3>3. StepOf(p, y, {"writes"}) BY <1>1, <2>1, <3>1, <3>2, Stepping
    <3> QED BY <3>2, <3>3 DEF StepOf, Keeps
  <2>2. CASE Becomes(p, [proc[p] EXCEPT !.writes = writes])
    <3>1. PICK y : y = [x EXCEPT !.writes = writes] OBVIOUS
    <3>2. Keeps(x, y, {"writes"}) /\ y.writes = writes
      BY <1>4, <3>1, Rewritten, NewWrites
    <3> QED BY <2>2, <3>1, <3>2 DEF Keeps
  <2> QED BY <1>2, <2>1, <2>2
<1>7. Orderly(x.steps) /\ OwnWallet(x) BY DEF CachesInv
<1> HIDE DEF x
<1>8. /\ Orderly(y.steps)
      /\ (\E i \in 1..Len(y.steps) : y.steps[i] \in {"network", "seed"}) =>
           \E i \in 1..Len(x.steps) : x.steps[i] \in {"network", "seed"}
  <2>1. CASE y.steps = x.steps
    BY <1>7, <2>1, Zenon
  <2>2. CASE y.steps = Tail(x.steps)
    BY <1>5, <1>7, <2>2, RestInOrder, Zenon
  <2> QED BY <1>6, <2>1, <2>2
<1>9. ASSUME x.net \notin torn'
      PROVE  /\ \A k \in Children : y.wallet[k] \in {NoKey, y.seed}
             /\ y.writes \in WritesLeft
             /\ Children \ Unwritten(y.writes) = {}
  <2>1. failing = {} /\ x.net \notin torn BY <1>2, <1>9
  <2>2. writes = <<"shielded", "unshielded", "dust", Fingerprint>>
    <3>1. Children \ failing = Children BY <2>1
    <3> QED BY <1>2, <3>1, WholeSave
  <2>3. \A k \in Children : y.wallet[k] \in {NoKey, y.seed}
    BY <1>6, <1>7, <2>1 DEF OwnWallet
  <2>4. Children \ Unwritten(writes) = {} BY <2>2 DEF Children, Unwritten
  <2> QED BY <1>6, <2>2, <2>3, <2>4 DEF WritesLeft
<1>10. OwnWallet(y)'
  <2>1. (\E i \in 1..Len(y.steps) : y.steps[i] \in {"network", "seed"}) =>
          \A k \in Children : y.wallet[k] = NoKey
    BY <1>6, <1>7, <1>8 DEF OwnWallet
  <2> QED BY <1>5, <1>6, <1>9, <2>1, NoLaunchIsNone DEF OwnWallet
<1>11. torn \subseteq torn' BY <1>2
<1> QED BY <1>3, <1>5, <1>6, <1>8, <1>10, <1>11, OneOwns DEF x

LEMMA WriteOwns ==
  ASSUME ScriptsInv, CachesInv, NEW p \in Procs, WriteCacheFile(p)
  PROVE  CachesInv'
<1> DEFINE x == proc[p]
           m == x.net
           f == Head(x.writes)
           v == IF f = Fingerprint THEN x.seed ELSE x.wallet[f]
<1>1. /\ x.writes # <<>> /\ caches' = [caches EXCEPT ![m][f] = v]
      /\ Becomes(p, [x EXCEPT !.writes = Tail(x.writes)])
      /\ torn' = IF ~SavingElsewhere(p) THEN torn ELSE torn \cup {m}
  BY DEF WriteCacheFile, TornIf
<1>2. Shaped(x) BY DEF ScriptsInv, ProcessOK, Ready
<1>3. Orderly(x.steps) /\ OwnWallet(x) BY DEF CachesInv
<1>4. m \in Networks /\ x.launch # NoLaunch BY <1>1, <1>3 DEF OwnWallet
<1>5. caches = [n \in Networks |-> [g \in CacheFiles |-> caches[n][g]]]
  BY DEF CachesInv
<1>6. ASSUME NEW q \in Procs \ {p}, proc[q].net = m, m \notin torn'
      PROVE  proc[q].writes = <<>>
  BY <1>1, <1>6 DEF SavingElsewhere
<1>7. PICK y : y = [x EXCEPT !.writes = Tail(x.writes)] OBVIOUS
<1>8. Keeps(x, y, {"writes"}) /\ y.writes = Tail(x.writes)
  BY <1>2, <1>7, Rewritten, NewWrites
<1>9. /\ y.steps = x.steps /\ y.net = m /\ y.seed = x.seed
      /\ y.wallet = x.wallet /\ y.launch = x.launch
  BY <1>8 DEF Keeps
<1>10. Becomes(p, y) BY <1>1, <1>7
<1>11. proc'[p] = y /\ \A q \in Procs \ {p} : proc'[q] = proc[q]
  BY <1>10, NowProcess
\* The file written is the wallet's, or its seed's.
<1>12. /\ \A n \in Networks \ {m} : caches'[n] = caches[n]
       /\ caches' = [n \in Networks |-> [g \in CacheFiles |-> caches'[n][g]]]
       /\ \A g \in CacheFiles : caches'[m][g] = IF g = f THEN v ELSE caches[m][g]
  <2> DEFINE c == caches[m]
             d == [c EXCEPT ![f] = v]
  <2>1. caches' = [caches EXCEPT ![m] = d] BY <1>1, <1>5
  <2>2. c = [g \in CacheFiles |-> c[g]] BY <1>4, <1>5
  <2> HIDE DEF c, f, v, m
  <2>3. d = [g \in CacheFiles |-> d[g]]
        /\ \A g \in CacheFiles : d[g] = IF g = f THEN v ELSE c[g]
    BY <2>2
  <2> HIDE DEF d
  <2>4. caches'[m] = d /\ \A n \in Networks \ {m} : caches'[n] = caches[n]
    BY <1>4, <1>5, <2>1
  <2>5. \A n \in Networks : caches'[n] = [g \in CacheFiles |-> caches'[n][g]]
    BY <1>5, <2>3, <2>4
  <2>6. caches' = [n \in Networks |-> caches'[n]]
    BY <1>5, <2>1
  <2> QED BY <2>3, <2>4, <2>5, <2>6 DEF c
<1> HIDE DEF x, v
<1>13. ASSUME m \notin torn'
       PROVE  /\ y.writes \in WritesLeft
              /\ \A k \in Children : x.wallet[k] \in {NoKey, x.seed}
              /\ \A k \in Children \ Unwritten(y.writes) :
                   caches'[m][k] = x.wallet[k]
              /\ y.writes = <<>> => caches'[m][Fingerprint] = x.seed
  <2>1. m \notin torn BY <1>1, <1>13
  <2>2. /\ x.writes \in WritesLeft
        /\ \A k \in Children : x.wallet[k] \in {NoKey, x.seed}
        /\ \A k \in Children \ Unwritten(x.writes) : caches[m][k] = x.wallet[k]
    BY <1>1, <1>3, <2>1 DEF OwnWallet
  <2>3. /\ f \in CacheFiles /\ y.writes \in WritesLeft
        /\ Unwritten(x.writes) \subseteq Unwritten(y.writes) \cup {f}
        /\ y.writes = <<>> => f = Fingerprint
        /\ Fingerprint \notin Children
    BY <1>1, <1>8, <2>2, SaveShrinks
  <2>4. ASSUME NEW k \in Children \ Unwritten(y.writes)
        PROVE  caches'[m][k] = x.wallet[k]
    <3>1. k \in CacheFiles /\ k # Fingerprint BY <2>3 DEF CacheFiles
    <3>2. CASE k = f BY <1>12, <3>1, <3>2 DEF v
    <3>3. CASE k # f
      <4>1. k \notin Unwritten(x.writes) BY <2>3, <3>3
      <4> QED BY <1>12, <2>2, <3>1, <3>3, <4>1
    <3> QED BY <3>2, <3>3
  <2>5. y.writes = <<>> => caches'[m][Fingerprint] = x.seed
    BY <1>12, <2>3 DEF v
  <2> QED BY <2>2, <2>3, <2>4, <2>5
<1>14. OwnWallet(y)'
  <2>1. (\E i \in 1..Len(y.steps) : y.steps[i] \in {"network", "seed"}) =>
          \A k \in Children : y.wallet[k] = NoKey
    BY <1>3, <1>9 DEF OwnWallet
  <2> QED BY <1>4, <1>9, <1>13, <2>1 DEF OwnWallet
<1>15. ASSUME NEW q \in Procs PROVE Orderly(proc'[q].steps) /\ OwnWallet(proc[q])'
  <2>1. CASE q = p BY <1>3, <1>9, <1>11, <1>14, <2>1 DEF OwnWallet
  <2>2. CASE q # p
    <3>1. PICK z : z = proc[q] OBVIOUS
    <3>2. Orderly(z.steps) /\ OwnWallet(z) BY <3>1 DEF CachesInv
    <3>3. OwnWallet(z)'
      <4>1. CASE z.net = m
        <5>1. m \notin torn' => z.writes = <<>> BY <1>6, <2>2, <3>1, <4>1
        <5>2. torn \subseteq torn' BY <1>1
        <5> QED BY <3>2, <4>1, <5>1, <5>2 DEF OwnWallet
      <4>2. CASE z.net # m
        <5>1. torn \subseteq torn' BY <1>1
        <5>2. z.writes # <<>> => caches'[z.net] = caches[z.net]
          BY <1>12, <3>2, <4>2 DEF OwnWallet
        <5> QED BY <3>2, <4>2, <5>1, <5>2 DEF OwnWallet
      <4> QED BY <4>1, <4>2
    <3>4. proc'[q] = z BY <1>11, <2>2, <3>1
    <3> QED BY <3>2, <3>3, <3>4 DEF OwnWallet
  <2> QED BY <2>1, <2>2
<1>16. ASSUME NEW n \in Networks \ torn',
              \A q \in Procs : proc'[q].net = n => proc'[q].writes = <<>>
       PROVE  Own(caches'[n])
  <2>1. CASE n = m
    <3>1. y.writes = <<>> BY <1>9, <1>11, <1>16, <2>1
    <3>2. Unwritten(<<>>) = {} BY DEF Unwritten
    <3>3. m \notin torn' BY <1>16, <2>1
    <3>4. \A k \in Children : caches'[m][k] = x.wallet[k]
      BY <1>13, <3>1, <3>2, <3>3
    <3>5. /\ \A k \in Children : x.wallet[k] \in {NoKey, x.seed}
          /\ caches'[m][Fingerprint] = x.seed
      BY <1>13, <3>1, <3>3
    <3>6. PICK c : c = caches'[m] OBVIOUS
    <3>7. Own(c) BY <3>4, <3>5, <3>6 DEF Own
    <3> QED BY <2>1, <3>6, <3>7
  <2>2. CASE n # m
    <3>1. \A q \in Procs : proc[q].net = n => proc[q].writes = <<>>
      BY <1>11, <1>16, <2>2 DEF x
    <3>2. n \in Networks \ torn BY <1>1
    <3>3. Own(caches[n]) BY <3>1, <3>2 DEF CachesInv
    <3>4. caches'[n] = caches[n] BY <1>12, <2>2
    <3> QED BY <3>3, <3>4
  <2> QED BY <2>1, <2>2
<1> QED BY <1>12, <1>15, <1>16 DEF CachesInv

LEMMA InsertOwns ==
  ASSUME CachesInv, UNCHANGED <<proc, caches, torn>> PROVE CachesInv'
BY DEF CachesInv, OwnWallet

LEMMA ScriptStepOwns ==
  ASSUME ScriptsInv, CachesInv, NEW p \in Procs, ScriptStep(p) PROVE CachesInv'
<1>1. CASE Plainly(p)
  <2>1. UNCHANGED <<caches, torn>>
    BY <1>1 DEF Plainly, Wait, Forward, Activate, GetSecret, ReadDeployment, Synced,
       DeployExchange, InsertedAll, RecordDeployment, Administer, fileVars,
       historyVars
  <2>2. PICK y : StepOf(p, y, {"saving", "launch"}) BY <1>1, PlainSteps
  <2> QED BY <2>1, <2>2, StepOwns
<1>2. CASE Resolve(p)
  <2>1. UNCHANGED <<caches, torn>> BY <1>2 DEF Resolve, fileVars, historyVars
  <2>2. PICK y : StepOf(p, y, {"net"}) /\ At(p, "network") BY <1>2, NetworkStep
  <2>3. Head(proc[p].steps) = "network" BY <2>2 DEF At
  <2> QED BY <2>1, <2>2, <2>3, StepOwns
<1>3. CASE GetSeed(p)
  <2>1. UNCHANGED <<caches, torn>> BY <1>3 DEF GetSeed, fileVars, historyVars
  <2>2. PICK y : StepOf(p, y, {"seed", "saving"}) /\ At(p, "seed")
    BY <1>3, SeedStep
  <2>3. Head(proc[p].steps) = "seed" BY <2>2 DEF At
  <2> QED BY <2>1, <2>2, <2>3, StepOwns
<1>4. CASE ReadToken(p) \/ DeployTokenContract(p)
  <2>1. UNCHANGED <<caches, torn>>
    BY <1>4 DEF ReadToken, DeployTokenContract, fileVars, historyVars
  <2>2. PICK step, t : At(p, step) /\ Becomes(p, [Advanced(p) EXCEPT !.token = t])
    BY <1>4 DEF ReadToken, DeployTokenContract
  <2>3. PICK y : y = [Advanced(p) EXCEPT !.token = t] OBVIOUS
  <2>4. StepOf(p, y, {"token"}) BY <2>2, <2>3, TokenStep
  <2> QED BY <2>1, <2>4, StepOwns
<1>5. CASE RecordToken(p) \/ RecordColor(p) \/ Mint(p)
  <2>1. UNCHANGED <<caches, torn>>
    BY <1>5 DEF RecordToken, RecordColor, Mint, fileVars, historyVars
  <2>2. PICK step, v : /\ At(p, step)
                       /\ \/ Becomes(p, [Advanced(p) EXCEPT !.saving = v])
                          \/ Becomes(p, Advanced(p))
    BY <1>5 DEF RecordToken, RecordColor, Mint
  <2>3. PICK y : y = [Advanced(p) EXCEPT !.saving = v] OBVIOUS
  <2>4. CASE Becomes(p, y)
    <3>1. StepOf(p, y, {"saving"}) BY <2>2, <2>3, <2>4, TokenSaveStep
    <3> QED BY <2>1, <3>1, StepOwns
  <2>5. CASE Becomes(p, Advanced(p))
    <3>1. StepOf(p, Advanced(p), {}) BY <2>2, <2>5, JustGoesOn
    <3> QED BY <2>1, <3>1, StepOwns
  <2> QED BY <2>2, <2>3, <2>4, <2>5
<1>6. CASE InsertCircuit(p)
  BY <1>6, InsertOwns DEF InsertCircuit, fileVars, historyVars
<1> QED BY <1>1, <1>2, <1>3, <1>4, <1>5, <1>6, SaveOwns, WalletOwns, PersistOwns,
        WriteOwns
        DEF ScriptStep, Plainly

LEMMA LaunchOwns ==
  ASSUME ScriptsInv, CachesInv, NEW p \in Procs, NEW l \in agenda, Launch(p, l)
  PROVE  CachesInv'
<1>1. l \in Launches BY DEF ScriptsInv, FilesOK
<1>2. /\ Becomes(p, Started(l)) /\ UNCHANGED <<caches, torn>>
      /\ proc[p].launch = NoLaunch
  BY DEF Launch, fileVars, historyVars, Alive
<1>3. proc[p].writes = <<>> BY <1>2 DEF CachesInv, OwnWallet
<1> QED BY <1>1, <1>2, <1>3, StartOwns

LEMMA StopOwns ==
  ASSUME ScriptsInv, CachesInv, NEW p \in Procs, Stop(p) PROVE CachesInv'
<1>1. /\ UNCHANGED caches /\ torn \subseteq torn'
      /\ proc[p].writes # <<>> => proc[p].net \in torn'
  BY DEF Stop, TornIf, fileVars
<1>2. CASE Becomes(p, Idle) BY <1>1, <1>2, StartOwns
<1>3. CASE ~Becomes(p, Idle)
  <2> DEFINE l == proc[p].launch
             again == [l EXCEPT !.retries = @ - 1]
  <2>1. l.retries > 0 /\ proc[p].steps # <<>> /\ Becomes(p, Started(again))
    BY <1>3 DEF Stop
  <2>2. l \in Launches BY <2>1 DEF ScriptsInv, ProcessOK, Ready
  <2> HIDE DEF l
  <2>3. again \in Launches BY <2>1, <2>2 DEF Launches
  <2> HIDE DEF again
  <2> QED BY <1>1, <2>1, <2>3, StartOwns
<1> QED BY <1>2, <1>3

LEMMA ProceedOwns ==
  ASSUME ScriptsInv, CachesInv, NEW p \in Procs, NEW step, At(p, step), Proceeds(p)
  PROVE  CachesInv'
<1>1. Becomes(p, Advanced(p)) /\ UNCHANGED <<caches, torn>>
  BY DEF Proceeds, fileVars, historyVars
<1>2. StepOf(p, Advanced(p), {}) BY <1>1, JustGoesOn
<1> QED BY <1>1, <1>2, StepOwns

LEMMA UnchangedOwns == ASSUME CachesInv, UNCHANGED scriptVars PROVE CachesInv'
BY InsertOwns DEF scriptVars, fileVars, historyVars

LEMMA NextOwns == ASSUME ScriptsInv, CachesInv, [Next]_vars PROVE CachesInv'
<1>1. CASE UNCHANGED vars BY <1>1, UnchangedOwns DEF vars
<1>2. ASSUME NEW p \in Procs, NEW l \in agenda, Launch(p, l) PROVE CachesInv'
  BY <1>2, LaunchOwns
<1>3. ASSUME NEW p \in Procs, ScriptStep(p) PROVE CachesInv'
  BY <1>3, ScriptStepOwns
<1>4. ASSUME NEW p \in Procs, Serve(p) \/ Respond(p) PROVE CachesInv'
  BY <1>4, UnchangedOwns DEF Serve, Respond
<1>5. ASSUME NEW p \in Procs, StopProcess(p) PROVE CachesInv'
  BY <1>5, StopOwns DEF StopProcess
<1>6. ASSUME NEW p \in Procs, AskChallenge(p) \/ TakeAnswer(p) \/ Attend(p)
      PROVE  CachesInv'
  BY <1>6, ProceedOwns DEF AskChallenge, TakeAnswer, Attend
<1>7. ASSUME \/ \E n \in Nonces : Transfer(n)
             \/ QuotePrice \/ DayWithoutTrade \/ QuoteDeals
      PROVE  CachesInv'
  BY <1>7, UnchangedOwns DEF Transfer, QuotePrice, DayWithoutTrade, QuoteDeals
<1>8. ASSUME TradeMatched PROVE CachesInv'
  BY <1>8, UnchangedOwns, ProceedOwns DEF TradeMatched
<1> QED BY <1>1, <1>2, <1>3, <1>4, <1>5, <1>6, <1>7, <1>8 DEF Next

LEMMA InitOwns == Init => CachesInv
<1> SUFFICES ASSUME NEW scene \in Scenes, ScriptsInit(scene) PROVE CachesInv
  BY DEF Init
<1>1. /\ proc = [p \in Procs |-> Idle] /\ torn = {}
      /\ scene.deployed \in Networks \cup {NoNetwork}
  BY ScriptsConstants DEF ScriptsInit
<1>2. /\ Idle.wallet = [k \in Children |-> NoKey] /\ Idle.writes = <<>>
      /\ Idle.steps = <<>>
  BY DEF Idle
<1>3. <<>> \in WritesLeft BY DEF WritesLeft
<1>4. ASSUME NEW p \in Procs PROVE Orderly(proc[p].steps) /\ OwnWallet(proc[p])
  <2>1. PICK x : x = Idle OBVIOUS
  <2>2. proc[p] = x BY <1>1, <2>1
  <2>3. Orderly(x.steps) BY <1>2, <2>1 DEF Orderly
  <2>4. OwnWallet(x) BY <1>2, <1>3, <2>1 DEF OwnWallet
  <2> QED BY <2>2, <2>3, <2>4
<1>5. /\ caches = [n \in Networks |-> [f \in CacheFiles |-> caches[n][f]]]
      /\ \A n \in Networks : Own(caches[n])
  <2>1. CASE scene.deployed = NoNetwork
    <3>1. caches = [n \in Networks |-> NoCache] BY <2>1 DEF ScriptsInit, Fresh
    <3>2. Own(NoCache) BY DEF Own, NoCache, CacheFiles
    <3> QED BY <3>1, <3>2 DEF NoCache
  <2>2. CASE scene.deployed # NoNetwork
    <3> DEFINE c == [f \in CacheFiles |-> FirstKey]
    <3>1. caches = [[n \in Networks |-> NoCache] EXCEPT ![scene.deployed] = c]
      BY <2>2 DEF ScriptsInit, Deployed
    <3>2. Own(NoCache) /\ Own(c) BY DEF Own, NoCache, CacheFiles
    <3>3. NoCache = [f \in CacheFiles |-> NoCache[f]]
          /\ c = [f \in CacheFiles |-> c[f]]
      BY DEF NoCache
    <3> HIDE DEF c
    <3>4. \A n \in Networks : caches[n] \in {NoCache, c} BY <3>1
    <3>5. caches = [n \in Networks |-> caches[n]] BY <3>1
    <3>6. \A n \in Networks : caches[n] = [f \in CacheFiles |-> caches[n][f]]
      BY <3>3, <3>4
    <3> QED BY <3>2, <3>4, <3>5, <3>6
  <2> QED BY <2>1, <2>2
<1> QED BY <1>4, <1>5 DEF CachesInv

\* No wallet starts from the state of another seed, for any programs, any seeds
\* taking turns on a network and any children that fail, until a save of its
\* network's cache was not whole: a whole save writes the fingerprint last.
THEOREM WalletsAreTheirOwn == Spec => []RestoredIsOurs
<1>1. ScriptsInv /\ CachesInv /\ [Next]_vars => CachesInv' BY NextOwns
<1>2. CachesInv => RestoredIsOurs BY DEF CachesInv, OwnWallet, RestoredIsOurs
<1> QED BY <1>1, <1>2, InitOwns, FilesInvariant, PTL DEF Spec

-----------------------------------------------------------------------------
(* The token on file *)

\* The token contracts only become more, and minted.
TokensGrow ==
  /\ Len(tokenContracts') >= Len(tokenContracts) /\ Len(tokenContracts') \in Nat
  /\ \A c \in 1..Len(tokenContracts) :
       tokenContracts[c].minted => tokenContracts'[c].minted

LEMMA NumberedGrows == ASSUME TokensGrow, NEW f, Numbered(f) PROVE Numbered(f)'
BY DEF Numbered, TokensGrow

LEMMA TokenCount == ASSUME ScriptsInv PROVE Len(tokenContracts) \in Nat
BY DEF ScriptsInv, FilesOK

LEMMA SavedGrows ==
  ASSUME ScriptsInv, TokensGrow, NEW x, x.token \in 0..Len(tokenContracts), TokenSaved(x),
         UNCHANGED <<lost, overtaken>>
  PROVE  TokenSaved(x)' /\ x.token \in 0..Len(tokenContracts')
<1>1. x.token \in 0..Len(tokenContracts') BY TokenCount DEF TokensGrow
<1>2. Numbered(x.saving.old) => Numbered(x.saving.old)' BY NumberedGrows
<1>3. ASSUME x.token # NoContract, tokenContracts[x.token].minted
      PROVE  tokenContracts'[x.token].minted
  <2>1. x.token \in 1..Len(tokenContracts) BY <1>3, TokenCount DEF NoContract
  <2> QED BY <1>3, <2>1 DEF TokensGrow
<1> QED BY <1>1, <1>2, <1>3 DEF TokenSaved

LEMMA TokenGrows ==
  ASSUME ScriptsInv, TokensGrow, NEW x, TokenOK(x),
         UNCHANGED <<lost, overtaken, tokens>>
  PROVE  TokenOK(x)'
<1>1. TokenSaved(x)' /\ x.token \in 0..Len(tokenContracts')
  BY SavedGrows DEF TokenOK
<1>2. ASSUME x.token # NoContract, tokenContracts[x.token].minted
      PROVE  tokenContracts'[x.token].minted
  <2>1. x.token \in 1..Len(tokenContracts)
    BY <1>2, TokenCount DEF NoContract, TokenOK
  <2> QED BY <1>2, <2>1 DEF TokensGrow
<1>3. MintsOnFile(x)' BY <1>2 DEF MintsOnFile, TokenOK
<1> QED BY <1>1, <1>3 DEF TokenOK

LEMMA MintlessRest ==
  ASSUME NEW s \in Seq(Steps), s # <<>>, Mintless(s)
  PROVE  Mintless(Tail(s)) /\ Head(s) \notin {"mint", "recordColor"}
<1>1. /\ Len(Tail(s)) = Len(s) - 1 /\ Len(s) \in Nat \ {0} /\ Head(s) = s[1]
      /\ \A i \in 1..(Len(s) - 1) : Tail(s)[i] = s[i + 1]
  OBVIOUS
<1>2. \A i \in 1..Len(Tail(s)) : i + 1 \in 1..Len(s) /\ Tail(s)[i] = s[i + 1]
  BY <1>1
<1> DEFINE t == Tail(s)
<1> HIDE DEF t
<1>3. Mintless(t) BY <1>2 DEF Mintless, t
<1> QED BY <1>1, <1>3 DEF Mintless, t

\* The process p becomes y, and the token file stays.
LEMMA OneMints ==
  ASSUME ScriptsInv, TokensInv, NEW p \in Procs, NEW y, Becomes(p, y),
         TokensGrow, UNCHANGED <<lost, overtaken, tokens>>, TokenOK(y)'
  PROVE  TokensInv'
<1>1. proc'[p] = y /\ \A q \in Procs \ {p} : proc'[q] = proc[q]
  BY NowProcess
<1>2. ASSUME NEW q \in Procs PROVE TokenOK(proc[q])'
  <2>1. CASE q = p
    BY <1>1, <2>1 DEF TokenOK, TokenSaved, MintsOnFile
  <2>2. CASE q # p
    <3>1. PICK x : x = proc[q] OBVIOUS
    <3>2. TokenOK(x) BY <3>1 DEF TokensInv
    <3>3. TokenOK(x)' BY <3>2, TokenGrows
    <3>4. proc'[q] = x BY <1>1, <2>2, <3>1
    <3> QED BY <3>3, <3>4 DEF TokenOK, TokenSaved, MintsOnFile
  <2> QED BY <2>1, <2>2
<1>3. Numbered(tokens)' BY NumberedGrows DEF TokensInv, Numbered
<1>4. ASSUME "token" \notin lost', NEW n \in Networks \ overtaken',
             tokens'[n].color # NoContract
      PROVE  /\ tokens'[n].color = tokens'[n].address
             /\ tokenContracts'[tokens'[n].address].minted
  <2>1. /\ tokens[n].color = tokens[n].address
        /\ tokenContracts[tokens[n].address].minted
    BY <1>4 DEF TokensInv
  <2>2. tokens[n] \in [address: 0..Len(tokenContracts), color: 0..Len(tokenContracts)]
    BY <1>4 DEF TokensInv, Numbered
  <2>3. tokens[n].address \in 1..Len(tokenContracts)
    BY <1>4, <2>1, <2>2, TokenCount DEF NoContract
  <2> QED BY <2>1, <2>3 DEF TokensGrow
<1> QED BY <1>2, <1>3, <1>4 DEF TokensInv

\* A step of a program that reads no token and saves none.
LEMMA StepMints ==
  ASSUME ScriptsInv, TokensInv, NEW p \in Procs, NEW y, NEW fields,
         StepOf(p, y, fields), "token" \notin fields,
         "net" \in fields => Head(proc[p].steps) = "network",
         y.saving.name # "token",
         Head(proc[p].steps) \notin {"mint", "recordColor", "token"},
         UNCHANGED <<tokens, lost, overtaken, tokenContracts>>
  PROVE  TokensInv'
<1> DEFINE x == proc[p]
<1>1. /\ Becomes(p, y) /\ x.steps # <<>> /\ y.steps = Tail(x.steps)
      /\ y.token = x.token
      /\ "net" \in fields \/ y.net = x.net
  BY DEF StepOf, Keeps
<1>2. x.steps \in Seq(Steps) BY DEF ScriptsInv, ProcessOK, Ready
<1>3. TokenOK(x) BY DEF TokensInv
<1>5. TokensGrow BY TokenCount DEF TokensGrow
<1> HIDE DEF x
<1>6. MintsOnFile(y)
  <2>1. CASE Mintless(x.steps)
    <3>1. Mintless(y.steps)
      BY <1>1, <1>2, <2>1, MintlessRest
    <3> QED BY <3>1 DEF MintsOnFile
  <2>2. CASE x.steps \in Searching
    <3>1. y.steps \in Searching BY <1>1, <2>2, SearchGoesOn DEF x
    <3> QED BY <3>1 DEF MintsOnFile
  <2>3. CASE /\ x.steps \in Minting /\ x.token # NoContract /\ x.net \in Networks
             /\ "token" \notin lost /\ x.net \notin overtaken =>
                  x.token = tokens[x.net].address
    <3>1. /\ Head(x.steps) \in {"wallet", "persist"} /\ y.steps \in Minting
          /\ y.steps # ColorLeft
      BY <1>1, <2>3, MintGoesOn DEF x
    <3>2. y.net = x.net BY <1>1, <3>1 DEF x
    <3> QED BY <1>1, <2>3, <3>1, <3>2 DEF MintsOnFile
  <2> QED BY <1>3, <2>1, <2>2, <2>3 DEF TokenOK, MintsOnFile
<1>7. TokenOK(y)
  BY <1>1, <1>3, <1>6 DEF TokenOK, TokenSaved
<1>8. TokenOK(y)' BY <1>5, <1>7, TokenGrows
<1> QED BY <1>1, <1>5, <1>8, OneMints

\* What a process has left stays as it is, and it saves no token.
LEMMA StayMints ==
  ASSUME ScriptsInv, TokensInv, NEW p \in Procs, NEW y, Becomes(p, y), NEW fields,
         Keeps(proc[p], y, fields), fields \subseteq {"writes", "wallet", "launch"},
         UNCHANGED <<tokens, lost, overtaken, tokenContracts>>
  PROVE  TokensInv'
<1> DEFINE x == proc[p]
<1>1. /\ y.steps = x.steps /\ y.token = x.token /\ y.net = x.net
      /\ y.saving = x.saving
  BY DEF Keeps
<1>2. TokenOK(x) BY DEF TokensInv
<1>3. TokensGrow BY TokenCount DEF TokensGrow
<1> HIDE DEF x
<1>4. TokenOK(y) BY <1>1, <1>2 DEF TokenOK, TokenSaved, MintsOnFile
<1>5. TokenOK(y)' BY <1>3, <1>4, TokenGrows
<1> QED BY <1>3, <1>5, OneMints

\* mint-tzkr.ts reads the token's address.
LEMMA ReadMints ==
  ASSUME ScriptsInv, TokensInv, NEW p \in Procs, ReadToken(p)
  PROVE  TokensInv'
<1> DEFINE x == proc[p]
           record == tokens[x.net]
<1>1. UNCHANGED <<tokens, lost, overtaken, tokenContracts>>
  BY DEF ReadToken, fileVars, chainVars, historyVars
<1>2. PICK step, t :
        /\ At(p, step) /\ Becomes(p, [Advanced(p) EXCEPT !.token = t])
        /\ t \in {record.address, record.color} /\ t # NoContract
        /\ \/ step = "token" /\ t = record.address
           \/ step = "color"
  BY DEF ReadToken
<1>3. PICK y : y = [Advanced(p) EXCEPT !.token = t] OBVIOUS
<1>4. StepOf(p, y, {"token"}) /\ y.token = t BY <1>2, <1>3, TokenStep
<1>5. /\ Becomes(p, y) /\ x.steps # <<>> /\ y.steps = Tail(x.steps)
      /\ y.net = x.net /\ y.saving = NoSave
  BY <1>4 DEF StepOf, Keeps
<1>6. /\ x.steps \in Seq(Steps) /\ Head(x.steps) = step
      /\ x.net \in Networks
  BY <1>2, HeadOf DEF ProcessOK, Ready, Unsettled
<1>6a. step \in {"token", "color"} BY <1>2
<1>7. TokenOK(x) /\ Numbered(tokens) BY DEF TokensInv
<1>8. TokensGrow BY <1>1, TokenCount DEF TokensGrow
<1> HIDE DEF x
<1>9. y.token \in 0..Len(tokenContracts)
  <2>1. record \in [address: 0..Len(tokenContracts), color: 0..Len(tokenContracts)]
    BY <1>6, <1>7 DEF Numbered
  <2> QED BY <1>2, <1>4, <2>1
<1>10. MintsOnFile(y)
  <2>1. CASE Mintless(x.steps)
    <3>1. Mintless(y.steps) BY <1>5, <1>6, <2>1, MintlessRest
    <3> QED BY <3>1 DEF MintsOnFile
  <2>2. CASE x.steps \in Searching
    <3>1. step = "token" /\ y.steps = WalletLeft
      BY <1>2, <1>5, <1>6, <2>2, SearchGoesOn
    <3>2. WalletLeft \in Minting /\ WalletLeft # ColorLeft
      BY DEF Minting, WalletLeft, ColorLeft
    <3> QED BY <1>2, <1>4, <1>5, <1>6, <3>1, <3>2 DEF MintsOnFile
  <2>3. CASE x.steps \in Minting
    <3>1. Head(x.steps) \in {"wallet", "persist", "mint", "recordColor"}
      BY <2>3, MintGoesOn
    <3> QED BY <1>6, <1>6a, <3>1
  <2> QED BY <1>7, <2>1, <2>2, <2>3 DEF TokenOK, MintsOnFile
<1>11. TokenOK(y)
  <2>1. TokenSaved(y) BY <1>5 DEF TokenSaved, NoSave
  <2> QED BY <1>9, <1>10, <2>1 DEF TokenOK
<1>12. TokenOK(y)' BY <1>1, <1>8, <1>11, TokenGrows
<1> QED BY <1>1, <1>5, <1>8, <1>12, OneMints

LEMMA DeployTokenMints ==
  ASSUME ScriptsInv, TokensInv, NEW p \in Procs, DeployTokenContract(p)
  PROVE  TokensInv'
<1> DEFINE x == proc[p]
           n == Len(tokenContracts) + 1
           c == [net |-> x.net, owner |-> x.secret, deployer |-> x.seed,
                 minted |-> FALSE]
<1>1. /\ UNCHANGED <<tokens, lost, overtaken>> /\ At(p, "deployToken")
      /\ tokenContracts' = Append(tokenContracts, c)
      /\ Becomes(p, [Advanced(p) EXCEPT !.token = n])
  BY DEF DeployTokenContract, fileVars, historyVars
<1>2. PICK y : y = [Advanced(p) EXCEPT !.token = n] OBVIOUS
<1>3. StepOf(p, y, {"token"}) /\ y.token = n BY <1>1, <1>2, TokenStep
<1>4. /\ Becomes(p, y) /\ x.steps # <<>> /\ y.steps = Tail(x.steps)
      /\ y.saving = NoSave
  BY <1>3 DEF StepOf, Keeps
<1>5. x.steps \in Seq(Steps) /\ Head(x.steps) = "deployToken" BY <1>1, HeadOf
<1>6. TokenOK(x) BY DEF TokensInv
<1>7. tokenContracts \in Seq(Tokens) BY DEF ScriptsInv, FilesOK
<1> HIDE DEF x, c
<1>8. Len(tokenContracts') = n /\ TokensGrow
  <2>1. /\ Len(tokenContracts') = Len(tokenContracts) + 1
        /\ Len(tokenContracts) \in Nat
        /\ \A i \in 1..Len(tokenContracts) :
             tokenContracts'[i] = tokenContracts[i]
    BY <1>1, <1>7
  <2> QED BY <2>1 DEF TokensGrow
<1>9. Mintless(x.steps)
  <2>1. x.steps \notin Searching /\ x.steps \notin Minting
    BY <1>5, SearchGoesOn, MintGoesOn
  <2> QED BY <1>6, <2>1 DEF TokenOK, MintsOnFile
<1>10. Mintless(y.steps) BY <1>4, <1>5, <1>9, MintlessRest
<1>11. TokenOK(y)'
  <2>1. y.token \in 0..Len(tokenContracts') BY <1>3, <1>8, TokenCount
  <2> QED BY <1>4, <1>10, <2>1 DEF TokenOK, TokenSaved, MintsOnFile, NoSave
<1> QED BY <1>1, <1>4, <1>8, <1>11, OneMints

LEMMA MintMints ==
  ASSUME ScriptsInv, TokensInv, NEW p \in Procs, Mint(p)
  PROVE  TokensInv'
<1> DEFINE x == proc[p]
<1>1. /\ UNCHANGED <<tokens, lost, overtaken>> /\ At(p, "mint")
      /\ tokenContracts' = [tokenContracts EXCEPT ![x.token].minted = TRUE]
      /\ Becomes(p, Advanced(p))
  BY DEF Mint, fileVars, historyVars
<1>2. StepOf(p, Advanced(p), {}) BY <1>1, JustGoesOn
<1>3. PICK y : y = Advanced(p) OBVIOUS
<1>4. /\ Becomes(p, y) /\ x.steps # <<>> /\ y.steps = Tail(x.steps)
      /\ y.saving = NoSave /\ y.token = x.token /\ y.net = x.net
  BY <1>2, <1>3 DEF StepOf, Keeps
<1>5. x.steps \in Seq(Steps) /\ Head(x.steps) = "mint" BY <1>1, HeadOf
<1>6. TokenOK(x) BY DEF TokensInv
<1>7. tokenContracts \in Seq(Tokens) BY DEF ScriptsInv, FilesOK
<1> HIDE DEF x
<1>8. ~Mintless(x.steps)
  BY <1>4, <1>5, MintlessRest
<1>9. /\ x.steps \in Minting /\ x.token # NoContract /\ x.net \in Networks
      /\ "token" \notin lost /\ x.net \notin overtaken =>
           x.token = tokens[x.net].address
  BY <1>5, <1>6, <1>8, SearchGoesOn DEF TokenOK, MintsOnFile
<1>10. x.token \in 1..Len(tokenContracts)
  BY <1>6, <1>9, TokenCount DEF TokenOK, NoContract
<1>11. /\ Len(tokenContracts') = Len(tokenContracts) /\ TokensGrow
       /\ tokenContracts'[x.token].minted
  <2>1. tokenContracts[x.token] \in Tokens BY <1>7, <1>10
  <2>2. PICK c : c = [tokenContracts[x.token] EXCEPT !.minted = TRUE] OBVIOUS
  <2>3. tokenContracts' = [tokenContracts EXCEPT ![x.token] = c] BY <1>1, <2>2
  <2>4. c.minted = TRUE BY <2>1, <2>2 DEF Tokens
  <2>5. /\ Len(tokenContracts') = Len(tokenContracts)
        /\ \A i \in 1..Len(tokenContracts) :
             tokenContracts'[i] = IF i = x.token THEN c ELSE tokenContracts[i]
    BY <1>7, <1>10, <2>3
  <2> QED BY <1>10, <2>4, <2>5, TokenCount DEF TokensGrow
<1>12. y.steps \in Minting BY <1>4, <1>5, <1>9, MintGoesOn
<1>13. TokenOK(y)'
  <2>1. y.token \in 0..Len(tokenContracts') BY <1>4, <1>10, <1>11
  <2>2. TokenSaved(y)' BY <1>4 DEF TokenSaved, NoSave
  <2>3. MintsOnFile(y)' BY <1>1, <1>4, <1>9, <1>11, <1>12 DEF MintsOnFile
  <2> QED BY <2>1, <2>2, <2>3 DEF TokenOK
<1> QED BY <1>1, <1>4, <1>11, <1>13, OneMints

LEMMA RecordTokenMints ==
  ASSUME ScriptsInv, TokensInv, NEW p \in Procs, RecordToken(p)
  PROVE  TokensInv'
<1> DEFINE x == proc[p]
<1>1. /\ UNCHANGED <<tokens, lost, overtaken, tokenContracts>>
      /\ At(p, "recordToken")
  BY DEF RecordToken, fileVars, chainVars, historyVars
<1>2. PICK v : /\ v = Saving("token", tokens, WithToken(tokens, x.net, x.token))
               /\ Becomes(p, [Advanced(p) EXCEPT !.saving = v])
  BY DEF RecordToken
<1>3. PICK y : y = [Advanced(p) EXCEPT !.saving = v] OBVIOUS
<1>4. StepOf(p, y, {"saving"}) /\ y.saving = v BY <1>1, <1>2, <1>3, TokenSaveStep
<1>5. /\ Becomes(p, y) /\ x.steps # <<>> /\ y.steps = Tail(x.steps)
      /\ y.token = x.token /\ y.net = x.net
  BY <1>4 DEF StepOf, Keeps
<1>6. /\ x.steps \in Seq(Steps) /\ Head(x.steps) = "recordToken"
      /\ x.net \in Networks
  BY <1>1, HeadOf DEF ProcessOK, Ready, Unsettled
<1>7. TokenOK(x) /\ Numbered(tokens) BY DEF TokensInv
<1>8. TokensGrow BY <1>1, TokenCount DEF TokensGrow
<1> HIDE DEF x
<1>9. Mintless(x.steps)
  <2>1. x.steps \notin Searching BY <1>6, SearchGoesOn
  <2>2. x.steps \notin Minting BY <1>6, MintGoesOn
  <2> QED BY <1>7, <2>1, <2>2 DEF TokenOK, MintsOnFile
<1>10. Mintless(y.steps) BY <1>5, <1>6, <1>9, MintlessRest
<1>11. TokenSaved(y)
  <2>1. /\ v.old = tokens /\ v.new = WithToken(tokens, x.net, x.token)
    BY <1>2 DEF Saving
  <2> QED BY <1>4, <1>5, <1>6, <1>7, <1>10, <2>1 DEF TokenSaved
<1>12. TokenOK(y) BY <1>5, <1>7, <1>10, <1>11 DEF TokenOK, MintsOnFile
<1>13. TokenOK(y)' BY <1>1, <1>8, <1>12, TokenGrows
<1> QED BY <1>1, <1>5, <1>8, <1>13, OneMints

LEMMA RecordColorMints ==
  ASSUME ScriptsInv, TokensInv, NEW p \in Procs, RecordColor(p)
  PROVE  TokensInv'
<1> DEFINE x == proc[p]
<1>1. /\ UNCHANGED <<tokens, lost, overtaken, tokenContracts>>
      /\ At(p, "recordColor")
  BY DEF RecordColor, fileVars, chainVars, historyVars
<1>2. TokenOK(x) /\ Numbered(tokens) BY DEF TokensInv
<1>3. TokensGrow BY <1>1, TokenCount DEF TokensGrow
<1>4. x.steps \in Seq(Steps) /\ Head(x.steps) = "recordColor" /\ x.steps # <<>>
  BY <1>1, HeadOf DEF At
<1>5. /\ x.steps = ColorLeft /\ Mintless(Tail(x.steps))
      /\ x.token # NoContract /\ x.net \in Networks
      /\ "token" \notin lost /\ x.net \notin overtaken =>
           x.token = tokens[x.net].address
      /\ tokenContracts[x.token].minted
  <2> HIDE DEF x
  <2>1. ~Mintless(x.steps) BY <1>4, MintlessRest
  <2>2. x.steps \notin Searching BY <1>4, SearchGoesOn
  <2>3. x.steps \in Minting /\ MintsOnFile(x)
    BY <1>2, <2>1, <2>2 DEF TokenOK, MintsOnFile
  <2>4. x.steps = ColorLeft /\ Mintless(Tail(x.steps))
    BY <1>4, <2>3, MintGoesOn
  <2> QED BY <2>1, <2>2, <2>3, <2>4 DEF MintsOnFile
<1>6. CASE Becomes(p, Advanced(p))
  <2>1. PICK y : y = Advanced(p) OBVIOUS
  <2>2. StepOf(p, y, {}) BY <1>1, <1>6, <2>1, JustGoesOn
  <2>3. /\ Becomes(p, y) /\ y.steps = Tail(x.steps) /\ y.token = x.token
        /\ y.saving = NoSave
    BY <2>2 DEF StepOf, Keeps
  <2> HIDE DEF x
  <2>4. TokenSaved(y) BY <2>3 DEF TokenSaved, NoSave
  <2>5. TokenOK(y) BY <1>2, <1>5, <2>3, <2>4 DEF TokenOK, MintsOnFile
  <2>6. TokenOK(y)' BY <1>1, <1>3, <2>5, TokenGrows
  <2> QED BY <1>1, <1>3, <2>3, <2>6, OneMints
<1>7. CASE ~Becomes(p, Advanced(p))
  <2>1. PICK v : /\ v = Saving("token", tokens, WithColor(tokens, x.net, x.token))
                 /\ Becomes(p, [Advanced(p) EXCEPT !.saving = v])
    BY <1>7 DEF RecordColor
  <2>2. PICK y : y = [Advanced(p) EXCEPT !.saving = v] OBVIOUS
  <2>3. StepOf(p, y, {"saving"}) /\ y.saving = v
    BY <1>1, <2>1, <2>2, TokenSaveStep
  <2>4. /\ Becomes(p, y) /\ y.steps = Tail(x.steps)
        /\ y.token = x.token /\ y.net = x.net
    BY <2>3 DEF StepOf, Keeps
  <2>5. v.old = tokens /\ v.new = WithColor(tokens, x.net, x.token)
    BY <2>1 DEF Saving
  <2> HIDE DEF x
  <2>6. TokenSaved(y) BY <1>2, <1>5, <2>3, <2>4, <2>5 DEF TokenSaved
  <2>7. TokenOK(y) BY <1>2, <1>5, <2>4, <2>6 DEF TokenOK, MintsOnFile
  <2>8. TokenOK(y)' BY <1>1, <1>3, <2>7, TokenGrows
  <2> QED BY <1>1, <1>3, <2>4, <2>8, OneMints
<1> QED BY <1>6, <1>7

\* What the rename at the end of a rewrite leaves in the token file.
LEMMA NewTokenFile ==
  ASSUME NEW old, Numbered(old), NEW n \in Networks,
         NEW c \in 0..Len(tokenContracts)
  PROVE  /\ Numbered(WithToken(old, n, c)) /\ Numbered(WithColor(old, n, c))
         /\ WithToken(old, n, c)[n].color = NoContract
         /\ WithColor(old, n, c)[n].color = c
         /\ WithColor(old, n, c)[n].address = old[n].address
         /\ \A m \in Networks \ {n} :
              WithToken(old, n, c)[m] = old[m] /\ WithColor(old, n, c)[m] = old[m]
<1> DEFINE N == 0..Len(tokenContracts)
<1>1. old \in [Networks -> [address: N, color: N]] BY DEF Numbered
<1>3. c \in N OBVIOUS
<1>4. NoContract \in N
  <2>1. c \in Int /\ 0 <= c /\ c <= Len(tokenContracts) OBVIOUS
  <2> QED BY <2>1 DEF NoContract
<1> HIDE DEF N
<1>5. PICK r : r = [address |-> c, color |-> NoContract] OBVIOUS
<1>6. r \in [address: N, color: N] /\ r.color = NoContract BY <1>3, <1>4, <1>5
<1>7. WithToken(old, n, c) = [old EXCEPT ![n] = r] BY <1>5 DEF WithToken
<1>8. PICK s : s = [old[n] EXCEPT !.color = c] OBVIOUS
<1>9. old[n] \in [address: N, color: N] BY <1>1
<1>10. s \in [address: N, color: N] /\ s.color = c /\ s.address = old[n].address
  BY <1>3, <1>8, <1>9
<1>11. WithColor(old, n, c) = [old EXCEPT ![n] = s] BY <1>8 DEF WithColor
<1>12. Numbered(WithToken(old, n, c)) /\ Numbered(WithColor(old, n, c))
  BY <1>1, <1>6, <1>7, <1>10, <1>11 DEF Numbered, N
<1>13. /\ WithToken(old, n, c)[n] = r /\ WithColor(old, n, c)[n] = s
       /\ \A m \in Networks \ {n} :
            WithToken(old, n, c)[m] = old[m] /\ WithColor(old, n, c)[m] = old[m]
  BY <1>1, <1>7, <1>11
<1> QED BY <1>6, <1>10, <1>12, <1>13

\* The others after a rewrite of the token file.
LEMMA OthersMint ==
  ASSUME ScriptsInv, NEW x, TokenOK(x), UNCHANGED tokenContracts,
         lost \subseteq lost', overtaken \subseteq overtaken',
         x.token # NoContract /\ x.net \in Networks \ overtaken'
           /\ "token" \notin lost' => tokens'[x.net].address = tokens[x.net].address
  PROVE  TokenOK(x)'
<1>1. TokensGrow BY TokenCount DEF TokensGrow
<1>2. Numbered(x.saving.old) => Numbered(x.saving.old)' BY <1>1, NumberedGrows
<1>3. TokenSaved(x)' BY <1>2 DEF TokenOK, TokenSaved
<1>4. MintsOnFile(x)' BY DEF TokenOK, MintsOnFile
<1> QED BY <1>3, <1>4 DEF TokenOK

LEMMA SaveMints ==
  ASSUME ScriptsInv, TokensInv, NEW p \in Procs, Save(p)
  PROVE  TokensInv'
<1> DEFINE x == proc[p]
           s == x.saving
           n == x.net
<1>1. /\ s # NoSave /\ UNCHANGED tokenContracts
      /\ tokens' = IF s.name = "token" THEN s.new ELSE tokens
      /\ lost' = IF (IF s.name = "state" THEN file ELSE tokens) = s.old
                 THEN lost ELSE lost \cup {s.name}
      /\ overtaken' = IF s.name = "token" /\ Overtakes(p, s.new)
                      THEN overtaken \cup {n} ELSE overtaken
      /\ Becomes(p, [x EXCEPT !.saving = NoSave])
  BY DEF Save, chainVars
<1>2. Shaped(x) BY DEF ScriptsInv, ProcessOK, Ready
<1>3. PICK y : y = [x EXCEPT !.saving = NoSave] OBVIOUS
<1>4. Keeps(x, y, {"saving"}) /\ y.saving = NoSave BY <1>2, <1>3, Rewritten, NewSaving
<1>5. /\ Becomes(p, y) /\ y.steps = x.steps /\ y.token = x.token /\ y.net = n
  BY <1>1, <1>3, <1>4 DEF Keeps
<1>6. proc'[p] = y /\ \A q \in Procs \ {p} : proc'[q] = proc[q]
  BY <1>5, NowProcess
<1>7. TokenOK(x) /\ Numbered(tokens) BY DEF TokensInv
<1>8. lost \subseteq lost' /\ overtaken \subseteq overtaken' BY <1>1
<1>9. TokensGrow BY <1>1, TokenCount DEF TokensGrow
<1>10. CASE s.name # "token"
  <2>1. tokens' = tokens /\ overtaken' = overtaken BY <1>1, <1>10
  <2>2. TokenSaved(y) BY <1>4 DEF TokenSaved, NoSave
  <2>3. TokenOK(y) BY <1>5, <1>7, <2>2 DEF TokenOK, MintsOnFile
  <2>4. TokenOK(y)' BY <1>1, <1>8, <2>1, <2>3, OthersMint
  <2>5. ASSUME NEW q \in Procs PROVE TokenOK(proc[q])'
    <3>1. CASE q = p BY <1>6, <2>4, <3>1 DEF TokenOK, TokenSaved, MintsOnFile
    <3>2. CASE q # p
      <4>1. PICK z : z = proc[q] OBVIOUS
      <4>2. TokenOK(z) /\ proc'[q] = z BY <1>6, <3>2, <4>1 DEF TokensInv
      <4>3. TokenOK(z)' BY <1>1, <1>8, <2>1, <4>2, OthersMint
      <4> QED BY <4>2, <4>3 DEF TokenOK, TokenSaved, MintsOnFile
    <3> QED BY <3>1, <3>2
  <2>6. Numbered(tokens)' BY <1>1, <1>7, <2>1 DEF Numbered
  <2> QED BY <1>1, <1>8, <2>1, <2>5, <2>6 DEF TokensInv
<1>11. CASE s.name = "token"
  <2>0. PICK o, w, c : o = s.old /\ w = s.new /\ c = x.token OBVIOUS
  <2>1. /\ Mintless(x.steps) /\ n \in Networks /\ Numbered(o)
        /\ c \in 0..Len(tokenContracts)
        /\ \/ w = WithToken(o, n, c)
           \/ /\ w = WithColor(o, n, c)
              /\ "token" \notin lost /\ n \notin overtaken =>
                   /\ c # NoContract /\ o[n].address = c
                   /\ tokenContracts[c].minted
    BY <1>7, <1>11, <2>0 DEF TokenOK, TokenSaved
  <2>2. /\ tokens' = w
        /\ lost' = IF tokens = o THEN lost ELSE lost \cup {"token"}
        /\ overtaken' = IF Overtakes(p, w) THEN overtaken \cup {n} ELSE overtaken
    BY <1>1, <1>11, <2>0
  <2>3. /\ Numbered(w) /\ \A m \in Networks \ {n} : w[m] = o[m]
        /\ w[n].color # NoContract =>
             /\ w = WithColor(o, n, c) /\ w[n].color = c
             /\ w[n].address = o[n].address
             /\ "token" \notin lost /\ n \notin overtaken =>
                  /\ o[n].address = c /\ tokenContracts[c].minted
    <3> HIDE DEF n, s, x
    <3>1. CASE w = WithToken(o, n, c) BY <2>1, <3>1, NewTokenFile
    <3>2. CASE w = WithColor(o, n, c) BY <2>1, <3>2, NewTokenFile
    <3> QED BY <2>1, <3>1, <3>2
  <2>4. ASSUME "token" \notin lost'
        PROVE  tokens = o /\ \A m \in Networks \ {n} : tokens'[m] = tokens[m]
    <3>1. tokens = o BY <2>2, <2>4
    <3> QED BY <2>2, <2>3, <3>1
  <2>5. ASSUME NEW q \in Procs PROVE TokenOK(proc[q])'
    <3>1. CASE q = p
      <4>1. TokenSaved(y)' BY <1>4 DEF TokenSaved, NoSave
      <4>2. MintsOnFile(y)' BY <1>5, <2>1 DEF MintsOnFile
      <4>3. y.token \in 0..Len(tokenContracts') BY <1>1, <1>5, <2>0, <2>1
      <4>4. TokenOK(y)' BY <4>1, <4>2, <4>3 DEF TokenOK
      <4> QED BY <1>6, <3>1, <4>4 DEF TokenOK, TokenSaved, MintsOnFile
    <3>2. CASE q # p
      <4>1. PICK z : z = proc[q] OBVIOUS
      <4>2. TokenOK(z) /\ proc'[q] = z BY <1>6, <3>2, <4>1 DEF TokensInv
      <4>3. ASSUME z.token # NoContract, z.net \in Networks \ overtaken',
                   "token" \notin lost'
            PROVE  tokens'[z.net].address = tokens[z.net].address
        <5>1. CASE z.net # n BY <2>4, <4>3, <5>1
        <5>2. CASE z.net = n
          <6>1. ~Overtakes(p, w) BY <2>2, <4>3, <5>2
          <6>2. \E r \in Procs \ {p} : proc[r].net = n /\ proc[r].token # NoContract
            BY <3>2, <4>1, <4>3, <5>2
          <6>3. w[n].address = tokens[n].address
            BY <6>1, <6>2 DEF Overtakes
          <6> QED BY <2>2, <5>2, <6>3
        <5> QED BY <5>1, <5>2
      <4>4. TokenOK(z)' BY <1>1, <1>8, <4>2, <4>3, OthersMint
      <4> QED BY <4>2, <4>4 DEF TokenOK, TokenSaved, MintsOnFile
    <3> QED BY <3>1, <3>2
  <2>6. Numbered(tokens)'
    <3>1. Numbered(w)' BY <1>9, <2>3, NumberedGrows
    <3> QED BY <2>2, <3>1 DEF Numbered
  <2>7. ASSUME "token" \notin lost', NEW m \in Networks \ overtaken',
               tokens'[m].color # NoContract
        PROVE  /\ tokens'[m].color = tokens'[m].address
               /\ tokenContracts'[tokens'[m].address].minted
    <3>1. "token" \notin lost /\ m \in Networks \ overtaken BY <1>8, <2>7
    <3>2. CASE m # n
      <4>1. tokens'[m] = tokens[m] BY <2>4, <2>7, <3>2
      <4> QED BY <1>1, <2>7, <3>1, <4>1 DEF TokensInv
    <3>3. CASE m = n
      <4>1. w[n].color # NoContract BY <2>2, <2>7, <3>3
      <4>2. /\ w[n].color = c /\ w[n].address = c /\ tokenContracts[c].minted
        BY <2>3, <3>1, <3>3, <4>1
      <4> QED BY <1>1, <2>2, <3>3, <4>2
    <3> QED BY <3>2, <3>3
  <2> QED BY <2>5, <2>6, <2>7 DEF TokensInv
<1> QED BY <1>10, <1>11

LEMMA StartMints ==
  ASSUME ScriptsInv, TokensInv, NEW p \in Procs, NEW y, Becomes(p, y),
         y = Idle \/ \E l \in Launches : y = Started(l),
         UNCHANGED <<tokens, lost, overtaken, tokenContracts>>
  PROVE  TokensInv'
<1>1. /\ Idle.token = NoContract /\ Idle.saving = NoSave /\ Idle.steps = <<>>
  BY DEF Idle
<1>2. TokensGrow BY TokenCount DEF TokensGrow
<1>3. /\ y.token = NoContract /\ y.saving = NoSave
      /\ Mintless(y.steps) \/ y.steps \in Searching
  <2>1. CASE y = Idle BY <1>1, <2>1 DEF Mintless
  <2>2. ASSUME NEW l \in Launches, y = Started(l)
        PROVE  /\ y.token = NoContract /\ y.saving = NoSave
               /\ Mintless(y.steps) \/ y.steps \in Searching
    <3> DEFINE s == Program[l.program]
    <3>1. y = [Idle EXCEPT !.launch = l, !.steps = s] BY <2>2 DEF Started
    <3>2. l.program \in ProgramNames BY DEF Launches
    <3>3. Mintless(s) \/ s \in Searching BY <3>2, ProgramsInOrder
    <3> HIDE DEF s
    <3>4. y.token = Idle.token /\ y.saving = Idle.saving /\ y.steps = s
      BY <3>1 DEF Idle
    <3> QED BY <1>1, <3>3, <3>4
  <2> QED BY <2>1, <2>2
<1>4. TokenSaved(y) BY <1>3 DEF TokenSaved, NoSave
<1>5. NoContract \in 0..Len(tokenContracts) BY TokenCount DEF NoContract
<1>6. TokenOK(y) BY <1>3, <1>4, <1>5 DEF TokenOK, MintsOnFile
<1>7. TokenOK(y)' BY <1>2, <1>6, TokenGrows
<1> QED BY <1>2, <1>7, OneMints

LEMMA ScriptStepMints ==
  ASSUME ScriptsInv, TokensInv, NEW p \in Procs, ScriptStep(p) PROVE TokensInv'
<1>1. CASE Plainly(p)
  <2>1. UNCHANGED <<tokens, lost, overtaken, tokenContracts>>
    BY <1>1 DEF Plainly, Wait, Forward, Activate, GetSecret, ReadDeployment, Synced,
       DeployExchange, InsertedAll, RecordDeployment, Administer, fileVars, chainVars,
       historyVars
  <2>2. PICK y : StepOf(p, y, {"saving", "launch"}) /\ y.saving.name # "token"
    BY <1>1, PlainSteps
  <2>3. Head(proc[p].steps) \notin {"mint", "recordColor", "token"}
    BY <1>1 DEF Plainly, Wait, Idles, Forward, Activate, GetSecret, ReadDeployment,
       Synced, DeployExchange, InsertedAll, RecordDeployment, Administer, AdminSteps,
       At
  <2> QED BY <2>1, <2>2, <2>3, StepMints
<1>2. CASE Resolve(p)
  <2>1. UNCHANGED <<tokens, lost, overtaken, tokenContracts>>
    BY <1>2 DEF Resolve, fileVars, chainVars, historyVars
  <2>2. PICK y : StepOf(p, y, {"net"}) /\ At(p, "network") BY <1>2, NetworkStep
  <2>3. Head(proc[p].steps) = "network" BY <2>2 DEF At
  <2>4. y.saving = NoSave BY <2>2 DEF StepOf, Keeps
  <2>5. y.saving.name # "token" BY <2>4 DEF NoSave
  <2> QED BY <2>1, <2>2, <2>3, <2>5, StepMints
<1>3. CASE GetSeed(p)
  <2>1. UNCHANGED <<tokens, lost, overtaken, tokenContracts>>
    BY <1>3 DEF GetSeed, fileVars, chainVars, historyVars
  <2>2. PICK y : /\ StepOf(p, y, {"seed", "saving"}) /\ At(p, "seed")
                 /\ y.saving.name # "token"
    BY <1>3, SeedStep
  <2>3. Head(proc[p].steps) = "seed" BY <2>2 DEF At
  <2> QED BY <2>1, <2>2, <2>3, StepMints
<1>4. CASE CreateWallet(p)
  <2>1. UNCHANGED <<tokens, lost, overtaken, tokenContracts>> /\ At(p, "wallet")
    BY <1>4 DEF CreateWallet, fileVars, chainVars
  <2>2. PICK w : Becomes(p, [Advanced(p) EXCEPT !.wallet = w])
    BY <1>4 DEF CreateWallet
  <2>3. PICK y : y = [Advanced(p) EXCEPT !.wallet = w] OBVIOUS
  <2>4. Keeps(Advanced(p), y, {"wallet"}) BY <2>1, <2>3, ShapedNext, Rewritten
  <2>5. StepOf(p, y, {"wallet"}) BY <2>1, <2>2, <2>3, <2>4, Stepping
  <2>6. y.saving = NoSave BY <2>5 DEF StepOf, Keeps
  <2>7. y.saving.name # "token" BY <2>6 DEF NoSave
  <2>8. Head(proc[p].steps) = "wallet" BY <2>1 DEF At
  <2> QED BY <2>1, <2>5, <2>7, <2>8, StepMints
<1>5. CASE Persist(p)
  <2>1. UNCHANGED <<tokens, lost, overtaken, tokenContracts>>
    BY <1>5 DEF Persist, fileVars, chainVars
  <2>2. PICK step \in {"persist", "checkpoints"} : At(p, step) BY <1>5 DEF Persist
  <2>3. PICK v : \/ Becomes(p, [Advanced(p) EXCEPT !.writes = v])
                 \/ Becomes(p, [proc[p] EXCEPT !.writes = v])
    BY <1>5 DEF Persist
  <2>4. CASE Becomes(p, [Advanced(p) EXCEPT !.writes = v])
    <3>1. PICK y : y = [Advanced(p) EXCEPT !.writes = v] OBVIOUS
    <3>2. Keeps(Advanced(p), y, {"writes"}) BY <2>2, <3>1, ShapedNext, Rewritten
    <3>3. StepOf(p, y, {"writes"}) BY <2>2, <2>4, <3>1, <3>2, Stepping
    <3>4. y.saving = NoSave BY <3>3 DEF StepOf, Keeps
    <3>5. y.saving.name # "token" BY <3>4 DEF NoSave
    <3>6. Head(proc[p].steps) \in {"persist", "checkpoints"} BY <2>2 DEF At
    <3> QED BY <2>1, <3>3, <3>5, <3>6, StepMints
  <2>5. CASE Becomes(p, [proc[p] EXCEPT !.writes = v])
    <3>1. PICK y : y = [proc[p] EXCEPT !.writes = v] OBVIOUS
    <3>2. Shaped(proc[p]) BY DEF ScriptsInv, ProcessOK, Ready
    <3>3. Keeps(proc[p], y, {"writes"}) BY <3>1, <3>2, Rewritten
    <3> QED BY <2>1, <2>5, <3>1, <3>3, StayMints
  <2> QED BY <2>3, <2>4, <2>5
<1>6. CASE WriteCacheFile(p)
  <2>1. UNCHANGED <<tokens, lost, overtaken, tokenContracts>>
    BY <1>6 DEF WriteCacheFile, chainVars
  <2>2. PICK v : Becomes(p, [proc[p] EXCEPT !.writes = v])
    BY <1>6 DEF WriteCacheFile
  <2>3. PICK y : y = [proc[p] EXCEPT !.writes = v] OBVIOUS
  <2>4. Shaped(proc[p]) BY DEF ScriptsInv, ProcessOK, Ready
  <2>5. Keeps(proc[p], y, {"writes"}) BY <2>3, <2>4, Rewritten
  <2> QED BY <2>1, <2>2, <2>3, <2>5, StayMints
<1>7. CASE InsertCircuit(p)
  BY <1>7 DEF InsertCircuit, fileVars, historyVars, TokensInv, Numbered, TokenOK,
     TokenSaved, MintsOnFile
<1> QED BY <1>1, <1>2, <1>3, <1>4, <1>5, <1>6, <1>7, SaveMints, ReadMints,
        DeployTokenMints, MintMints, RecordTokenMints, RecordColorMints
        DEF ScriptStep, Plainly

LEMMA LaunchMints ==
  ASSUME ScriptsInv, TokensInv, NEW p \in Procs, NEW l \in agenda, Launch(p, l)
  PROVE  TokensInv'
<1>1. l \in Launches BY DEF ScriptsInv, FilesOK
<1>2. /\ Becomes(p, Started(l))
      /\ UNCHANGED <<tokens, lost, overtaken, tokenContracts>>
  BY DEF Launch, fileVars, chainVars, historyVars
<1> QED BY <1>1, <1>2, StartMints

LEMMA StopMints ==
  ASSUME ScriptsInv, TokensInv, NEW p \in Procs, Stop(p) PROVE TokensInv'
<1>1. UNCHANGED <<tokens, lost, overtaken, tokenContracts>>
  BY DEF Stop, fileVars, chainVars
<1>2. CASE Becomes(p, Idle) BY <1>1, <1>2, StartMints
<1>3. CASE ~Becomes(p, Idle)
  <2> DEFINE l == proc[p].launch
             again == [l EXCEPT !.retries = @ - 1]
  <2>1. l.retries > 0 /\ proc[p].steps # <<>> /\ Becomes(p, Started(again))
    BY <1>3 DEF Stop
  <2>2. l \in Launches BY <2>1 DEF ScriptsInv, ProcessOK, Ready
  <2> HIDE DEF l
  <2>3. again \in Launches BY <2>1, <2>2 DEF Launches
  <2> HIDE DEF again
  <2> QED BY <1>1, <2>1, <2>3, StartMints
<1> QED BY <1>2, <1>3

LEMMA ProceedMints ==
  ASSUME ScriptsInv, TokensInv, NEW p \in Procs, NEW step, At(p, step), Proceeds(p),
         step \notin {"mint", "recordColor", "token"}
  PROVE  TokensInv'
<1>1. Becomes(p, Advanced(p)) /\ UNCHANGED <<tokens, lost, overtaken, tokenContracts>>
  BY DEF Proceeds, fileVars, chainVars, historyVars
<1>2. PICK y : y = Advanced(p) OBVIOUS
<1>3. StepOf(p, y, {}) BY <1>1, <1>2, JustGoesOn
<1>4. y.saving = NoSave BY <1>3 DEF StepOf, Keeps
<1>5. y.saving.name # "token" BY <1>4 DEF NoSave
<1>6. Head(proc[p].steps) = step BY DEF At
<1> QED BY <1>1, <1>3, <1>5, <1>6, StepMints

LEMMA UnchangedMints == ASSUME TokensInv, UNCHANGED scriptVars PROVE TokensInv'
BY DEF scriptVars, fileVars, chainVars, historyVars, TokensInv, Numbered, TokenOK,
   TokenSaved, MintsOnFile

LEMMA NextMints == ASSUME ScriptsInv, TokensInv, [Next]_vars PROVE TokensInv'
<1>1. CASE UNCHANGED vars BY <1>1, UnchangedMints DEF vars
<1>2. ASSUME NEW p \in Procs, NEW l \in agenda, Launch(p, l) PROVE TokensInv'
  BY <1>2, LaunchMints
<1>3. ASSUME NEW p \in Procs, ScriptStep(p) PROVE TokensInv'
  BY <1>3, ScriptStepMints
<1>4. ASSUME NEW p \in Procs, Serve(p) \/ Respond(p) PROVE TokensInv'
  BY <1>4, UnchangedMints DEF Serve, Respond
<1>5. ASSUME NEW p \in Procs, StopProcess(p) PROVE TokensInv'
  BY <1>5, StopMints DEF StopProcess
<1>6. ASSUME NEW p \in Procs, AskChallenge(p) \/ TakeAnswer(p) \/ Attend(p)
      PROVE  TokensInv'
  BY <1>6, ProceedMints DEF AskChallenge, TakeAnswer, Attend
<1>7. ASSUME \/ \E n \in Nonces : Transfer(n)
             \/ QuotePrice \/ DayWithoutTrade \/ QuoteDeals
      PROVE  TokensInv'
  BY <1>7, UnchangedMints DEF Transfer, QuotePrice, DayWithoutTrade, QuoteDeals
<1>8. ASSUME TradeMatched PROVE TokensInv'
  BY <1>8, UnchangedMints, ProceedMints DEF TradeMatched
<1> QED BY <1>1, <1>2, <1>3, <1>4, <1>5, <1>6, <1>7, <1>8 DEF Next

LEMMA InitMints == Init => TokensInv
<1> SUFFICES ASSUME NEW scene \in Scenes, ScriptsInit(scene) PROVE TokensInv
  BY DEF Init
<1>1. /\ proc = [p \in Procs |-> Idle] /\ lost = {} /\ overtaken = {}
      /\ scene.deployed \in Networks \cup {NoNetwork}
  BY ScriptsConstants DEF ScriptsInit
<1>2. /\ Idle.token = NoContract /\ Idle.saving = NoSave /\ Idle.steps = <<>>
  BY DEF Idle
<1>3. /\ Len(tokenContracts) \in Nat /\ Numbered(tokens)
      /\ \A n \in Networks : tokens[n].color # NoContract =>
           /\ tokens[n].color = tokens[n].address
           /\ tokenContracts[tokens[n].address].minted
  <2>1. CASE scene.deployed = NoNetwork
    <3>1. tokens = NoTokenFile /\ tokenContracts = <<>>
      BY <2>1 DEF ScriptsInit, Fresh
    <3>2. Len(tokenContracts) = 0 BY <3>1
    <3> QED BY <3>1, <3>2 DEF NoTokenFile, Numbered, NoContract
  <2>2. CASE scene.deployed # NoNetwork
    <3>1. PICK n \in Networks : n = scene.deployed BY <1>1, <2>2
    <3>2. PICK c : c = [net |-> n, owner |-> FirstKey + 1, deployer |-> FirstKey,
                        minted |-> TRUE]
      OBVIOUS
    <3>3. /\ tokens = WithColor(WithToken(NoTokenFile, n, 1), n, 1)
          /\ tokenContracts = <<c>>
      BY <2>2, <3>1, <3>2 DEF ScriptsInit, Deployed
    <3>4. Len(tokenContracts) = 1 /\ tokenContracts[1] = c BY <3>3
    <3>5. c.minted = TRUE BY <3>2
    <3>6. 1 \in 0..Len(tokenContracts) BY <3>4
    <3>7. Numbered(NoTokenFile) BY <3>4 DEF Numbered, NoTokenFile, NoContract
    <3>8. PICK o : o = WithToken(NoTokenFile, n, 1) OBVIOUS
    <3>9. /\ Numbered(o) /\ o[n].color = NoContract
          /\ \A m \in Networks \ {n} : o[m] = NoTokenFile[m]
      BY <3>6, <3>7, <3>8, NewTokenFile
    <3>10. o[n].address = 1 BY <3>8 DEF WithToken, NoTokenFile
    <3>11. /\ Numbered(tokens) /\ tokens[n].color = 1
           /\ tokens[n].address = o[n].address
           /\ \A m \in Networks \ {n} : tokens[m] = o[m]
      BY <3>3, <3>6, <3>8, <3>9, NewTokenFile
    <3>12. \A m \in Networks : NoTokenFile[m].color = NoContract
      BY DEF NoTokenFile
    <3> QED BY <3>4, <3>5, <3>9, <3>10, <3>11, <3>12
  <2> QED BY <2>1, <2>2
<1>4. ASSUME NEW p \in Procs PROVE TokenOK(proc[p])
  <2>1. PICK x : x = Idle OBVIOUS
  <2>2. proc[p] = x BY <1>1, <2>1
  <2>3. Mintless(x.steps) BY <1>2, <2>1 DEF Mintless
  <2>4. TokenSaved(x) BY <1>2, <2>1 DEF TokenSaved, NoSave
  <2>5. x.token \in 0..Len(tokenContracts) BY <1>2, <1>3, <2>1 DEF NoContract
  <2> QED BY <2>2, <2>3, <2>4, <2>5 DEF TokenOK, MintsOnFile
<1> QED BY <1>1, <1>3, <1>4 DEF TokensInv

\* The color on file is of the contract on file, which has minted, for any
\* programs redeploying and minting at the same time, until a save of the token
\* file undid another's or a token was deployed anew under its reader.
THEOREM ColorsMatch == Spec => []ColorMatchesAddress
<1>1. ScriptsInv /\ TokensInv /\ [Next]_vars => TokensInv' BY NextMints
<1>2. TokensInv => ColorMatchesAddress BY DEF TokensInv, ColorMatchesAddress
<1> QED BY <1>1, <1>2, InitMints, FilesInvariant, PTL DEF Spec
=============================================================================
