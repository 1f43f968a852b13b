----------------------------- MODULE StateFiles ----------------------------
(***************************************************************************)
(* What the operator's programs keep on disk: .midnight-state.json         *)
(* (network.ts), .midnight-tzkr.json (tzkr-state.ts), and the wallet cache *)
(* of each network (wallet-state.ts), with the functions that read and     *)
(* rewrite them.  Every rewrite takes the contents read before it.         *)
(***************************************************************************)
EXTENDS Integers, Sequences

CONSTANTS
  Networks,     \* the networks programs are run against
  Circuits      \* the circuits a staged deployment inserts after the first

\* "undeployed" is the local devnet, whose wallet has a fixed seed.
Undeployed == "undeployed"
NoNetwork == "none"

\* Seeds and secrets are numbered: none, the devnet's GENESIS_SEED, the one an
\* operator passes in the environment, and then those programs generate.
NoKey == 0
Genesis == 1
EnvKey == 2
FirstKey == 3

\* Contracts are numbered in the order they were deployed.
NoContract == 0

ASSUME StateFileConstants ==
  Undeployed \in Networks /\ NoNetwork \notin Networks

-----------------------------------------------------------------------------
(* .midnight-state.json.  A missing file is one without an active network. *)

StateFile ==
  [active: Networks \cup {NoNetwork}, seed: [Networks -> Nat],
   secret: [Networks -> Nat], deployment: [Networks -> Nat]]

NoStateFile ==
  [active |-> NoNetwork, seed |-> [n \in Networks |-> NoKey],
   secret |-> [n \in Networks |-> NoKey],
   deployment |-> [n \in Networks |-> NoContract]]

\* Every function that creates the file makes its own network the active one.
Existing(file, net) ==
  IF file.active = NoNetwork THEN [file EXCEPT !.active = net] ELSE file

\* resolveNetwork: the --network flag, the file, or the local devnet.
ResolveNetwork(flag, file) ==
  IF flag # NoNetwork THEN flag
  ELSE IF file.active # NoNetwork THEN file.active ELSE Undeployed

\* getOrCreateSeed and getOrCreateAdminSecret, up to the generation of a key.
KnownSeed(net, env, file) ==
  IF net = Undeployed THEN Genesis
  ELSE IF "seed" \in env THEN EnvKey ELSE file.seed[net]
KnownSecret(net, env, file) ==
  IF "secret" \in env THEN EnvKey ELSE file.secret[net]

\* The file after a generated seed: the network becomes the active one too.
WithSeed(file, net, key) ==
  [file EXCEPT !.active = net, !.seed[net] = key]

WithSecret(file, net, key) ==
  [Existing(file, net) EXCEPT !.secret[net] = key]

\* recordDeployment.
WithDeployment(file, net, contract) ==
  [Existing(file, net) EXCEPT !.deployment[net] = contract]

\* setActiveNetwork.
WithActive(file, net) == [file EXCEPT !.active = net]

-----------------------------------------------------------------------------
(* .midnight-tzkr.json.  A token's color is a function of its contract's   *)
(* address, and stands for it here.                                        *)

TokenFile == [Networks -> [address: Nat, color: Nat]]
NoTokenFile == [n \in Networks |-> [address |-> NoContract, color |-> NoContract]]

\* Slip: the color of the previous contract is kept.
WithTokenKeepingColor(tokens, net, contract) ==
  [tokens EXCEPT ![net].address = contract]

\* recordTzkrDeployment: a new record has no color yet.
WithToken(tokens, net, contract) ==
  [tokens EXCEPT ![net] = [address |-> contract, color |-> NoContract]]

\* recordTzkrColor: merged into whatever record the file has by then.
WithColor(tokens, net, color) == [tokens EXCEPT ![net].color = color]

-----------------------------------------------------------------------------
(* .midnight-wallet-state/<network>: one file for each child wallet and    *)
(* one for the fingerprint, each described by the seed it was made from.   *)

Children == {"shielded", "unshielded", "dust"}
Fingerprint == "fingerprint"
CacheFiles == Children \cup {Fingerprint}
Cache == [CacheFiles -> Nat]
NoCache == [f \in CacheFiles |-> NoKey]

\* Slip: a cache is trusted whatever its fingerprint says.
UsableAnyway(cache, seed) == TRUE

\* createWallet's seedFingerprint check: the cache is this seed's, or ignored.
Usable(cache, seed) == cache[Fingerprint] = seed

\* Whose state each child starts from: the cache's, or the seed's own when the
\* cache has none or its restore fails.
RestoredFrom(cache, seed, failing) ==
  [k \in Children |->
     IF Usable(cache, seed) /\ cache[k] # NoKey /\ k \notin failing
     THEN cache[k] ELSE seed]

\* saveWalletState's order: the children it could serialise, then the
\* fingerprint.
WriteOrder(kinds) ==
  LET Written(k) == IF k \in kinds THEN <<k>> ELSE <<>>
  IN  Written("shielded") \o Written("unshielded") \o Written("dust")
        \o <<Fingerprint>>
=============================================================================
