------------------------------ MODULE Scripts ------------------------------
(***************************************************************************)
(* The operator's programs at work: deployment, minting, funding and the   *)
(* start of the matcher, run by hand, by sync-retry.ts or by a platform    *)
(* that restarts them, one after another or at the same time, each liable  *)
(* to stop at any step.  They share the files of StateFiles.tla, which     *)
(* nothing locks, and the contracts on the chain.                          *)
(***************************************************************************)
EXTENDS StateFiles, Programs, FiniteSets

CONSTANTS
  Procs,     \* processes that may be alive at once
  Scenes,    \* what may be on disk and what an operator may still start;
             \* bounds the programs started in a run
  Failures   \* the sets of child wallets that may fail to save or restore

Launches ==
  [program: ProgramNames, flag: Networks \cup {NoNetwork},
   env: SUBSET {"seed", "secret"}, retries: Nat]

ASSUME ScriptsConstants ==
  \A scene \in Scenes :
    scene.agenda \subseteq Launches /\ scene.deployed \in Networks \cup {NoNetwork}

VARIABLES
  file, tokens,    \* .midnight-state.json and .midnight-tzkr.json
  caches,          \* [Networks -> Cache]
  proc,            \* the process in each slot
  exchanges,       \* exchange contracts on the chain, in order
  tokenContracts,  \* tZKR contracts on the chain, in order
  fresh,           \* the next generated key
  agenda,          \* the programs still to be started, each once
  lost,            \* "state" or "token" once a save undid another's
  torn,            \* networks with a cache save that was not whole
  overtaken        \* networks whose token was redeployed under a reader

fileVars == <<file, tokens, caches>>
chainVars == <<exchanges, tokenContracts>>
historyVars == <<lost, torn, overtaken>>
scriptVars == <<fileVars, proc, chainVars, fresh, agenda, historyVars>>

\* A process: the steps it has left, what it holds, and a rewrite it is in the
\* middle of: of the state file, of the token file, or of the cache.
NoLaunch ==
  [program |-> "none", flag |-> NoNetwork, env |-> {}, retries |-> 0]
NoSave == [name |-> "none"]
Idle ==
  [launch |-> NoLaunch, steps |-> <<>>, net |-> NoNetwork, seed |-> NoKey,
   secret |-> NoKey, contract |-> NoContract, token |-> NoContract,
   wallet |-> [k \in Children |-> NoKey], saving |-> NoSave, writes |-> <<>>]

\* A network nothing was run against, or one whose operator has deployed the
\* exchange and the token and minted it.
Fresh ==
  /\ file = NoStateFile /\ tokens = NoTokenFile
  /\ caches = [n \in Networks |-> NoCache]
  /\ exchanges = <<>> /\ tokenContracts = <<>>
  /\ fresh = FirstKey

Deployed(net) ==
  /\ file = WithDeployment(WithSecret(WithSeed(NoStateFile, net, FirstKey),
                                     net, FirstKey + 1), net, 1)
  /\ tokens = WithColor(WithToken(NoTokenFile, net, 1), net, 1)
  /\ caches = [[n \in Networks |-> NoCache] EXCEPT
                 ![net] = [f \in CacheFiles |-> FirstKey]]
  /\ exchanges = <<[net |-> net, admin |-> FirstKey + 1, deployer |-> FirstKey,
                    inserted |-> Circuits]>>
  /\ tokenContracts = <<[net |-> net, owner |-> FirstKey + 1,
                         deployer |-> FirstKey, minted |-> TRUE]>>
  /\ fresh = FirstKey + 2

ScriptsInit(scene) ==
  /\ agenda = scene.agenda
  /\ IF scene.deployed = NoNetwork THEN Fresh ELSE Deployed(scene.deployed)
  /\ proc = [p \in Procs |-> Idle]
  /\ lost = {} /\ torn = {} /\ overtaken = {}

Alive(p) == proc[p].launch # NoLaunch
At(p, step) ==
  /\ proc[p].saving = NoSave /\ proc[p].writes = <<>>
  /\ proc[p].steps # <<>> /\ Head(proc[p].steps) = step

\* The process after its present step.
Advanced(p) == [proc[p] EXCEPT !.steps = Tail(@)]
Becomes(p, process) == proc' = [proc EXCEPT ![p] = process]

\* A rewrite of a file: the contents it was read with, and the new ones.
Saving(name, old, new) == [name |-> name, old |-> old, new |-> new]

-----------------------------------------------------------------------------
(* Processes *)

Started(l) == [Idle EXCEPT !.launch = l, !.steps = Program[l.program]]

Launch(p, l) ==
  /\ ~Alive(p) /\ l \in agenda
  /\ agenda' = agenda \ {l}
  /\ Becomes(p, Started(l))
  /\ UNCHANGED <<fileVars, chainVars, fresh, historyVars>>

\* A save of the wallet's cache that is not whole is remembered.
TornIf(whole, p) == torn' = IF whole THEN torn ELSE torn \cup {proc[p].net}

\* The end of main(), process.exit, an exception or a kill.  sync-retry.ts, or
\* a platform, starts its command again unless it succeeded.
Stop(p) ==
  /\ Alive(p)
  /\ LET l == proc[p].launch IN
     \/ Becomes(p, Idle)
     \/ /\ l.retries > 0 /\ proc[p].steps # <<>>
        /\ Becomes(p, Started([l EXCEPT !.retries = @ - 1]))
  /\ TornIf(proc[p].writes = <<>>, p)
  /\ UNCHANGED <<fileVars, chainVars, fresh, agenda, lost, overtaken>>

\* Steps that only wait or read, and may end the program.
Idles == {"prepare", "menu", "order"}
Wait(p) ==
  /\ \E step \in Idles : At(p, step)
  /\ Becomes(p, Advanced(p))
  /\ UNCHANGED <<fileVars, chainVars, fresh, agenda, historyVars>>

\* setup.ts starts deploy.ts with the network it resolved, or with no flag.
Forward(p) ==
  /\ At(p, "forward")
  /\ Becomes(p, [Advanced(p) EXCEPT !.launch.flag =
                   IF proc[p].net = Undeployed THEN NoNetwork ELSE proc[p].net])
  /\ UNCHANGED <<fileVars, chainVars, fresh, agenda, historyVars>>

-----------------------------------------------------------------------------
(* The state file *)

\* Without a flag setup.ts leaves the active network alone.
Activate(p) ==
  /\ At(p, "activate")
  /\ LET net == proc[p].launch.flag IN
     Becomes(p, IF net \in {NoNetwork, file.active} THEN Advanced(p)
                ELSE [Advanced(p) EXCEPT
                        !.saving = Saving("state", file, WithActive(file, net))])
  /\ UNCHANGED <<fileVars, chainVars, fresh, agenda, historyVars>>

Resolve(p) ==
  /\ At(p, "network")
  /\ Becomes(p, [Advanced(p) EXCEPT
                   !.net = ResolveNetwork(proc[p].launch.flag, file)])
  /\ UNCHANGED <<fileVars, chainVars, fresh, agenda, historyVars>>

\* Slip: a key is generated even when the file has one.
Forgotten(key) == IF key > EnvKey THEN NoKey ELSE key

\* A key getOrCreateSeed or getOrCreateAdminSecret finds, or generates.
Found(key) == key

GetSeed(p) ==
  /\ At(p, "seed")
  /\ LET net == proc[p].net
         known == Found(KnownSeed(net, proc[p].launch.env, file)) IN
     IF known # NoKey
     THEN Becomes(p, [Advanced(p) EXCEPT !.seed = known]) /\ UNCHANGED fresh
     ELSE /\ Becomes(p, [Advanced(p) EXCEPT
                !.seed = fresh,
                !.saving = Saving("state", file, WithSeed(file, net, fresh))])
          /\ fresh' = fresh + 1
  /\ UNCHANGED <<fileVars, chainVars, agenda, historyVars>>

GetSecret(p) ==
  /\ At(p, "secret")
  /\ LET net == proc[p].net
         known == Found(KnownSecret(net, proc[p].launch.env, file)) IN
     IF known # NoKey
     THEN Becomes(p, [Advanced(p) EXCEPT !.secret = known]) /\ UNCHANGED fresh
     ELSE /\ Becomes(p, [Advanced(p) EXCEPT
                !.secret = fresh,
                !.saving = Saving("state", file, WithSecret(file, net, fresh))])
          /\ fresh' = fresh + 1
  /\ UNCHANGED <<fileVars, chainVars, agenda, historyVars>>

\* A token record is replaced while another program goes on with the old one.
Overtakes(p, new) ==
  LET net == proc[p].net IN
  /\ new[net].address # tokens[net].address
  /\ \E q \in Procs \ {p} : proc[q].net = net /\ proc[q].token # NoContract

\* The rename that ends a rewrite.
Save(p) ==
  /\ proc[p].saving # NoSave
  /\ LET s == proc[p].saving
         current == IF s.name = "state" THEN file ELSE tokens IN
     /\ file' = IF s.name = "state" THEN s.new ELSE file
     /\ tokens' = IF s.name = "token" THEN s.new ELSE tokens
     /\ lost' = IF current = s.old THEN lost ELSE lost \cup {s.name}
     /\ overtaken' = IF s.name = "token" /\ Overtakes(p, s.new)
                     THEN overtaken \cup {proc[p].net} ELSE overtaken
  /\ Becomes(p, [proc[p] EXCEPT !.saving = NoSave])
  /\ UNCHANGED <<caches, chainVars, fresh, agenda, torn>>

\* getDeployment, and getTzkrDeployment with and without a color; a program
\* that finds no record exits.
ReadDeployment(p) ==
  /\ At(p, "deployment") /\ file.deployment[proc[p].net] # NoContract
  /\ Becomes(p, [Advanced(p) EXCEPT !.contract = file.deployment[proc[p].net]])
  /\ UNCHANGED <<fileVars, chainVars, fresh, agenda, historyVars>>

ReadToken(p) ==
  /\ LET record == tokens[proc[p].net] IN
     \/ /\ At(p, "token") /\ record.address # NoContract
        /\ Becomes(p, [Advanced(p) EXCEPT !.token = record.address])
     \/ /\ At(p, "color") /\ record.color # NoContract
        /\ Becomes(p, [Advanced(p) EXCEPT !.token = record.color])
  /\ UNCHANGED <<fileVars, chainVars, fresh, agenda, historyVars>>

-----------------------------------------------------------------------------
(* The wallet *)

\* Another process of the network is in the middle of saving its wallet.
SavingElsewhere(p) ==
  \E q \in Procs \ {p} : proc[q].writes # <<>> /\ proc[q].net = proc[p].net

CreateWallet(p) ==
  /\ At(p, "wallet")
  /\ \E failing \in Failures :
       Becomes(p, [Advanced(p) EXCEPT
         !.wallet = RestoredFrom(caches[proc[p].net], proc[p].seed, failing)])
  /\ TornIf(~SavingElsewhere(p), p)
  /\ UNCHANGED <<fileVars, chainVars, fresh, agenda, lost, overtaken>>

\* persistWalletState: whichever children could be serialised are written.  At
\* its "checkpoints" a program may do so any number of times.
Persist(p) ==
  /\ At(p, "persist") \/ At(p, "checkpoints")
  /\ \E failing \in Failures :
       /\ Becomes(p, [(IF At(p, "persist") THEN Advanced(p) ELSE proc[p]) EXCEPT
                        !.writes = WriteOrder(Children \ failing)])
       /\ TornIf(failing = {}, p)
  /\ UNCHANGED <<fileVars, chainVars, fresh, agenda, lost, overtaken>>

Synced(p) ==
  /\ At(p, "checkpoints")
  /\ Becomes(p, Advanced(p))
  /\ UNCHANGED <<fileVars, chainVars, fresh, agenda, historyVars>>

WriteCacheFile(p) ==
  /\ proc[p].writes # <<>>
  /\ LET f == Head(proc[p].writes) IN
     caches' = [caches EXCEPT ![proc[p].net][f] =
                  IF f = Fingerprint THEN proc[p].seed ELSE proc[p].wallet[f]]
  /\ Becomes(p, [proc[p] EXCEPT !.writes = Tail(@)])
  /\ TornIf(~SavingElsewhere(p), p)
  /\ UNCHANGED <<file, tokens, chainVars, fresh, agenda, lost, overtaken>>

-----------------------------------------------------------------------------
(* The contracts *)

\* deployContract's transaction lands.  One that lands unseen is followed by
\* Stop; one that does not is tried again, or the program ends.
DeployExchange(p) ==
  /\ At(p, "deploy") \/ At(p, "deployStage1")
  /\ exchanges' = Append(exchanges,
       [net |-> proc[p].net, admin |-> proc[p].secret,
        deployer |-> proc[p].seed,
        inserted |-> IF At(p, "deploy") THEN Circuits ELSE {}])
  /\ Becomes(p, [Advanced(p) EXCEPT !.contract = Len(exchanges) + 1])
  /\ UNCHANGED <<fileVars, tokenContracts, fresh, agenda, historyVars>>

\* One of STAGE2_CIRCUITS; any failure stops the program.
InsertCircuit(p) ==
  /\ At(p, "insert")
  /\ \E c \in Circuits \ exchanges[proc[p].contract].inserted :
       exchanges' = [exchanges EXCEPT ![proc[p].contract].inserted = @ \cup {c}]
  /\ UNCHANGED <<fileVars, proc, tokenContracts, fresh, agenda, historyVars>>

InsertedAll(p) ==
  /\ At(p, "insert") /\ exchanges[proc[p].contract].inserted = Circuits
  /\ Becomes(p, Advanced(p))
  /\ UNCHANGED <<fileVars, chainVars, fresh, agenda, historyVars>>

RecordDeployment(p) ==
  /\ At(p, "record")
  /\ Becomes(p, [Advanced(p) EXCEPT
       !.saving = Saving("state", file,
                         WithDeployment(file, proc[p].net, proc[p].contract))])
  /\ UNCHANGED <<fileVars, chainVars, fresh, agenda, historyVars>>

DeployTokenContract(p) ==
  /\ At(p, "deployToken")
  /\ tokenContracts' = Append(tokenContracts,
       [net |-> proc[p].net, owner |-> proc[p].secret,
        deployer |-> proc[p].seed, minted |-> FALSE])
  /\ Becomes(p, [Advanced(p) EXCEPT !.token = Len(tokenContracts) + 1])
  /\ UNCHANGED <<fileVars, exchanges, fresh, agenda, historyVars>>

RecordToken(p) ==
  /\ At(p, "recordToken")
  /\ Becomes(p, [Advanced(p) EXCEPT
       !.saving = Saving("token", tokens,
                         WithToken(tokens, proc[p].net, proc[p].token))])
  /\ UNCHANGED <<fileVars, chainVars, fresh, agenda, historyVars>>

\* tzkr-token.compact's mint: only its owner's secret will do.
Mint(p) ==
  /\ At(p, "mint") /\ tokenContracts[proc[p].token].owner = proc[p].secret
  /\ tokenContracts' = [tokenContracts EXCEPT ![proc[p].token].minted = TRUE]
  /\ Becomes(p, Advanced(p))
  /\ UNCHANGED <<fileVars, exchanges, fresh, agenda, historyVars>>

\* The color is read back and recorded, or that is skipped with a message.
RecordColor(p) ==
  /\ At(p, "recordColor")
  /\ \/ Becomes(p, Advanced(p))
     \/ /\ tokens[proc[p].net].address # NoContract
        /\ Becomes(p, [Advanced(p) EXCEPT
             !.saving = Saving("token", tokens,
                               WithColor(tokens, proc[p].net, proc[p].token))])
  /\ UNCHANGED <<fileVars, chainVars, fresh, agenda, historyVars>>

\* An admin-gated circuit of the exchange; the contract refuses other secrets.
AdminSteps == {"depositNight", "depositToken", "administer", "withdraw"}
Administer(p) ==
  /\ \E step \in AdminSteps : At(p, step)
  /\ exchanges[proc[p].contract].admin = proc[p].secret
  /\ Becomes(p, Advanced(p))
  /\ UNCHANGED <<fileVars, chainVars, fresh, agenda, historyVars>>

ScriptStep(p) ==
  \/ Wait(p) \/ Forward(p)
  \/ Activate(p) \/ Resolve(p) \/ GetSeed(p) \/ GetSecret(p) \/ Save(p)
  \/ ReadDeployment(p) \/ ReadToken(p)
  \/ CreateWallet(p) \/ Persist(p) \/ Synced(p) \/ WriteCacheFile(p)
  \/ DeployExchange(p) \/ InsertCircuit(p) \/ InsertedAll(p)
  \/ RecordDeployment(p) \/ DeployTokenContract(p) \/ RecordToken(p)
  \/ Mint(p) \/ RecordColor(p) \/ Administer(p)

ScriptsNext ==
  \E p \in Procs :
    \/ \E l \in agenda : Launch(p, l)
    \/ Stop(p) \/ ScriptStep(p)

-----------------------------------------------------------------------------
(* Properties *)

Keys == 0..(fresh - 1)
Saves ==
  {NoSave} \cup [name: {"state"}, old: StateFile, new: StateFile]
          \cup [name: {"token"}, old: TokenFile, new: TokenFile]

\* A key the operator can sign with again.
Held(key, kept) == key \in {Genesis, EnvKey, kept}

\* A contract the file records is on its network and has all its circuits,
\* also when a staged deployment stops half way or two programs overwrite each
\* other's records (deploy-staged.ts records last).
RecordedIsComplete ==
  \A n \in Networks :
    LET c == file.deployment[n] IN
    c # NoContract =>
      /\ c <= Len(exchanges)
      /\ exchanges[c].net = n /\ exchanges[c].inserted = Circuits

\* Whatever stops, and whichever contract was left unrecorded, the wallet that
\* paid for a contract and the secret that administers it are on file or came
\* from the environment (deploy.ts: "your seed is preserved"), until a save
\* has undone another program's.
KeysKept ==
  "state" \notin lost =>
    /\ \A c \in 1..Len(exchanges) : LET x == exchanges[c] IN
         Held(x.admin, file.secret[x.net]) /\ Held(x.deployer, file.seed[x.net])
    /\ \A c \in 1..Len(tokenContracts) : LET x == tokenContracts[c] IN
         Held(x.owner, file.secret[x.net]) /\ Held(x.deployer, file.seed[x.net])

\* The color on file is that of the contract on file, which has minted, unless
\* the token was deployed anew under a program that had read the old record.
ColorMatchesAddress ==
  \A n \in Networks \ overtaken :
    "token" \notin lost /\ tokens[n].color # NoContract =>
      tokens[n].color = tokens[n].address /\ tokenContracts[tokens[n].address].minted

\* The administrator a program acts as is the one the contract it read knows,
\* though the two were read at different moments, except for a contract
\* deployed with a secret from the environment.
AdministratorKnown ==
  "state" \notin lost =>
    \A p \in Procs :
      /\ proc[p].contract # NoContract /\ proc[p].secret \notin {NoKey, EnvKey}
      /\ proc[p].saving = NoSave
      => exchanges[proc[p].contract].admin \in {EnvKey, proc[p].secret}

\* No child wallet starts from another seed's state, whichever seeds took turns
\* on the network, unless a save of the cache was cut short, skipped a child,
\* or met another save or a load (wallet.ts: a cache of another seed is ignored).
RestoredIsOurs ==
  \A p \in Procs : proc[p].net \notin torn =>
    \A k \in Children : proc[p].wallet[k] \in {NoKey, proc[p].seed}
=============================================================================
