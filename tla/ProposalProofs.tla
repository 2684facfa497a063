----------------------------- MODULE ProposalProofs -----------------------------
(***************************************************************************)
(* Theorems about the commands, for any number of commands, networks and   *)
(* actions and every edit of the script.  The commands of a project share  *)
(* one file, which nothing protects: the theorems are about behaviours in  *)
(* which no two commands wait for Forge at once.                           *)
(***************************************************************************)
EXTENDS Proposal, SelectionProofs

(* No command calls Forge before another one has read what Forge found.    *)
Alone ==
    \A c, d \in Commands :
        command[c].pc \in {"forge", "read"} /\ command[d].pc \in {"forge", "read"} => c = d

NoRepetition(seq) == \A j, k \in DOMAIN seq : seq[j] = seq[k] => j = k

(* Two names of foundry.toml are of different chains, and no network is    *)
(* listed twice; the command line rejects repetitions, sphinxConfig and    *)
(* foundry.toml do not.                                                    *)
DistinctChains ==
    /\ \A n, m \in DOMAIN RpcEndpoints : RpcEndpoints[n] = RpcEndpoints[m] => n = m
    /\ \A networks \in CliNetworks : NoRepetition(networks)
    /\ \A config \in Configs : NoRepetition(config.mainnets) /\ NoRepetition(config.testnets)

-----------------------------------------------------------------------------
(* The invariant *)

Chains == {RpcEndpoints[n] : n \in DOMAIN RpcEndpoints}

Info == [by : Nat, chainId : Chains, newConfig : Configs, actions : Nat]

Places ==
    {"idle", "configure", "validate", "remove", "forge", "read", "build", "prompt", "confirmed",
     "relay", "failed", "nothing to execute", "dry run succeeded", "proposed", "deployed"}

CommandType ==
    [pc : Places, id : Nat, mode : Modes, confirm : BOOLEAN, networks : Seq(STRING),
     config : Configs \cup {<<>>}, rpcUrls : Seq(Chains), isTestnet : BOOLEAN,
     collected : Seq(Info), edited : BOOLEAN]

(* What a command has collected is its own. *)
CommandOK(cmd) ==
    /\ cmd.pc \in {"idle", "configure", "validate"} =>
          cmd.collected = <<>> /\ cmd.rpcUrls = <<>>
    /\ cmd.pc \in {"configure", "validate", "relay"} => cmd.mode # "deploy"
    /\ cmd.pc = "validate" => cmd.config \in Configs /\ cmd.networks \in CliNetworks
    /\ cmd.pc = "configure" => cmd.networks \in CliNetworks
    /\ cmd.pc \in {"remove", "forge", "read"} => Len(cmd.collected) < Len(cmd.rpcUrls)
    /\ cmd.pc \in {"build", "prompt", "confirmed", "relay"} => cmd.collected # <<>>
    /\ \A k \in DOMAIN cmd.collected :
          /\ k \in DOMAIN cmd.rpcUrls
          /\ cmd.collected[k].by = cmd.id /\ cmd.collected[k].chainId = cmd.rpcUrls[k]
    /\ cmd.mode # "deploy" =>
          \A k \in DOMAIN cmd.rpcUrls :
             (NetworkType[cmd.rpcUrls[k]] = "Testnet") = cmd.isTestnet
    /\ DistinctChains => NoRepetition(cmd.rpcUrls)

(* Unless the script is edited before its first run, this run is of what   *)
(* was configured.                                                         *)
UpToDate(cmd, config) ==
    cmd.mode # "deploy" /\ ~cmd.edited /\ cmd.pc \notin {"idle", "configure"} =>
        /\ BeforeFirstRun(cmd) => cmd.config = config
        /\ cmd.collected # <<>> => cmd.collected[1].newConfig = cmd.config

(* The file that a command waits for is its own. *)
OwnFile(cmd, file) ==
    /\ cmd.pc = "forge" => file = NoFile
    /\ cmd.pc = "read" /\ file # NoFile =>
          /\ file.by = cmd.id /\ file.chainId = cmd.rpcUrls[Len(cmd.collected) + 1]
          /\ cmd.mode # "deploy" /\ ~cmd.edited /\ cmd.collected = <<>> =>
                file.newConfig = cmd.config

MayRelay(cmd, configs) ==
    cmd.pc = "relay" =>
        elementsEqual(cmd.collected) /\ makeDeploymentConfig(cmd.collected) \in configs

Sound(cmd, config, file, configs) ==
    /\ CommandOK(cmd) /\ UpToDate(cmd, config)
    /\ OwnFile(cmd, file) /\ MayRelay(cmd, configs)

Inv ==
    /\ script \in Configs /\ starts \in Nat /\ infoFile \in Info \cup {NoFile}
    /\ command \in [Commands -> CommandType]
    /\ \A c \in Commands : Sound(command[c], script, infoFile, stored)

(* What a step of the command c does to it and to the others. *)
Becomes(c, new) ==
    /\ command' = [command EXCEPT ![c] = new]
    /\ new \in CommandType
    /\ Sound(new, script', infoFile', stored')
    /\ script' = script /\ starts' \in Nat /\ infoFile' \in Info \cup {NoFile}
    /\ stored \subseteq stored'

-----------------------------------------------------------------------------
(* The steps of a command *)

(* What the invariant says of one command.                                 *)
LEMMA SoundCommand ==
    ASSUME Inv, NEW c \in Commands
    PROVE  /\ command[c] \in CommandType
           /\ CommandOK(command[c]) /\ UpToDate(command[c], script)
           /\ OwnFile(command[c], infoFile) /\ MayRelay(command[c], stored)
BY DEF Inv, Sound

(* A command that only changes its place may go anywhere but into the loop.*)
LEMMA GotoKeeps ==
    ASSUME Inv, NEW c \in Commands, NEW pc \in Places, Goto(c, pc),
           command[c].pc \notin {"idle", "configure", "validate"} \/ pc = "failed",
           pc \notin {"idle", "configure", "validate", "remove", "forge", "read", "relay"},
           pc \in {"build", "prompt", "confirmed"} =>
              command[c].pc \in {"build", "prompt", "confirmed", "relay"},
           command[c].pc # "idle",
           command[c].pc = "configure" => pc \notin {"failed"},
           UNCHANGED <<script, starts, infoFile>>, stored \subseteq stored'
    PROVE  \E new : Becomes(c, new)
<1>1. PICK new : new = [command[c] EXCEPT !.pc = pc]
  OBVIOUS
<1>2. command[c] \in CommandType
  BY SoundCommand
<1>3. /\ new \in CommandType /\ new.pc = pc /\ new.id = command[c].id
      /\ new.mode = command[c].mode /\ new.config = command[c].config
      /\ new.rpcUrls = command[c].rpcUrls /\ new.isTestnet = command[c].isTestnet
      /\ new.collected = command[c].collected /\ new.edited = command[c].edited
  BY <1>1, <1>2 DEF CommandType
<1>4. CommandOK(new)
  BY <1>3, SoundCommand DEF CommandOK
<1>5. UpToDate(new, script)
  BY <1>3, SoundCommand DEF UpToDate, BeforeFirstRun
<1>6. OwnFile(new, infoFile) /\ MayRelay(new, stored')
  BY <1>3 DEF OwnFile, MayRelay
<1>7. command' = [command EXCEPT ![c] = new]
  BY <1>1 DEF Goto
<1> QED
  BY <1>3, <1>4, <1>5, <1>6, <1>7 DEF Becomes, Sound, Inv

(* A command that ends forgets everything.                                 *)
LEMMA ExitKeeps ==
    ASSUME Inv, NEW c \in Commands, Exit(c)
    PROVE  \E new : Becomes(c, new)
<1>1. Idle \in CommandType
  <2>1. <<>> \in Seq(STRING) /\ <<>> \in Seq(Chains) /\ <<>> \in Seq(Info)
    OBVIOUS
  <2>2. "propose" \in Modes /\ "idle" \in Places /\ 0 \in Nat
    BY DEF Modes, Places
  <2>3. <<>> \in Configs \cup {<<>>}
    OBVIOUS
  <2> QED
    BY <2>1, <2>2, <2>3, Zenon DEF Idle, CommandType
<1>2. Sound(Idle, script, infoFile, stored)
  BY DEF Sound, Idle, CommandOK, UpToDate, BeforeFirstRun, OwnFile, MayRelay, NoRepetition
<1> QED
  BY <1>1, <1>2 DEF Becomes, Exit, Files, Inv

(* A command starts with nothing collected.                                *)
LEMMA StartKeeps ==
    ASSUME Inv, NEW c \in Commands, NEW mode \in Modes, NEW confirm \in BOOLEAN,
           NEW networks \in CliNetworks, NEW sig,
           StartPropose(c, mode, confirm, networks, sig)
           \/ StartDeploy(c, confirm, networks, sig)
    PROVE  \E new : Becomes(c, new)
<1>1. PICK n \in Nat : n = starts + 1
  BY DEF Inv
<1>2. networks \in Seq(STRING)
  BY ProposalAssumption
<1>3. CASE StartPropose(c, mode, confirm, networks, sig)
  <2>1. PICK new : new = [Idle EXCEPT !.pc = "configure", !.id = n, !.mode = mode,
                             !.confirm = confirm, !.networks = networks]
    OBVIOUS
  <2>2. new = [pc |-> "configure", id |-> n, mode |-> mode, confirm |-> confirm,
               networks |-> networks, config |-> <<>>, rpcUrls |-> <<>>,
               isTestnet |-> FALSE, collected |-> <<>>, edited |-> FALSE]
    BY <2>1 DEF Idle
  <2>3. new \in CommandType
    <3>1. <<>> \in Seq(Chains) /\ <<>> \in Seq(Info) /\ "configure" \in Places
      BY DEF Places
    <3>2. <<>> \in Configs \cup {<<>>}
      OBVIOUS
    <3>3. n \in Nat /\ mode \in Modes /\ confirm \in BOOLEAN
      OBVIOUS
    <3> QED
      BY <1>2, <2>2, <3>1, <3>2, <3>3, Zenon DEF CommandType
  <2>4. Sound(new, script, infoFile, stored)
    BY <1>3, <2>2 DEF StartPropose, Sound, CommandOK, UpToDate, BeforeFirstRun, OwnFile, MayRelay, NoRepetition
  <2>5. command' = [command EXCEPT ![c] = new] /\ starts' = n
    BY <1>1, <1>3, <2>1 DEF StartPropose
  <2> QED
    BY <1>3, <2>3, <2>4, <2>5 DEF Becomes, StartPropose, Files, Inv
<1>4. CASE StartDeploy(c, confirm, networks, sig)
  <2>1. PICK urls : urls = <<RpcEndpoints[networks[1]]>>
    OBVIOUS
  <2>2. urls \in Seq(Chains) /\ Len(urls) = 1 /\ NoRepetition(urls)
    BY <1>4, <2>1 DEF StartDeploy, Chains, NoRepetition
  <2>3. PICK new : new = [Idle EXCEPT !.pc = "remove", !.id = n, !.mode = "deploy",
                             !.confirm = confirm, !.networks = networks, !.rpcUrls = urls]
    OBVIOUS
  <2>4. new = [pc |-> "remove", id |-> n, mode |-> "deploy", confirm |-> confirm,
               networks |-> networks, config |-> <<>>, rpcUrls |-> urls,
               isTestnet |-> FALSE, collected |-> <<>>, edited |-> FALSE]
    BY <2>3 DEF Idle
  <2>5. new \in CommandType
    <3>1. <<>> \in Seq(Info)
      OBVIOUS
    <3>4. "deploy" \in Modes /\ "remove" \in Places
      BY DEF Modes, Places
    <3>2. <<>> \in Configs \cup {<<>>}
      OBVIOUS
    <3>3. n \in Nat /\ confirm \in BOOLEAN /\ urls \in Seq(Chains)
      BY <2>2
    <3> QED
      BY <1>2, <2>4, <3>1, <3>2, <3>3, <3>4, Zenon DEF CommandType
  <2>6. Sound(new, script, infoFile, stored)
    <3>1. /\ new.pc = "remove" /\ new.mode = "deploy" /\ new.collected = <<>>
          /\ new.rpcUrls = urls
      BY <2>4
    <3>2. CommandOK(new)
      BY <2>2, <3>1 DEF CommandOK
    <3> QED
      BY <3>1, <3>2 DEF Sound, UpToDate, BeforeFirstRun, OwnFile, MayRelay
  <2>7. command' = [command EXCEPT ![c] = new] /\ starts' = n
    BY <1>1, <1>4, <2>1, <2>3 DEF StartDeploy
  <2> QED
    BY <1>4, <2>5, <2>6, <2>7 DEF Becomes, StartDeploy, Files, Inv
<1> QED
  BY <1>3, <1>4

(* The configuration that a command takes is the script's.                 *)
LEMMA ConfigureKeeps ==
    ASSUME Inv, NEW c \in Commands, Configure(c)
    PROVE  \E new : Becomes(c, new)
<1>1. PICK new : new = [command[c] EXCEPT !.pc = "validate", !.config = script, !.edited = FALSE]
  OBVIOUS
<1>2. command[c] \in CommandType /\ command[c].pc = "configure" /\ script \in Configs
  BY SoundCommand DEF Configure, Inv
<1>3. /\ new.pc = "validate" /\ new.id = command[c].id
      /\ new.mode = command[c].mode /\ new.config = script
      /\ new.rpcUrls = command[c].rpcUrls /\ new.isTestnet = command[c].isTestnet
      /\ new.collected = command[c].collected /\ new.networks = command[c].networks
  BY <1>1, <1>2 DEF CommandType
<1>7. new \in CommandType
  <2>1. PICK old : old = command[c]
    OBVIOUS
  <2>2. /\ old \in CommandType /\ "validate" \in Places /\ script \in Configs \cup {<<>>}
        /\ FALSE \in BOOLEAN
    BY <1>2, <2>1 DEF Places
  <2>3. new = [old EXCEPT !.pc = "validate", !.config = script, !.edited = FALSE]
    BY <1>1, <2>1
  <2> QED
    BY <2>2, <2>3, Zenon DEF CommandType
<1>4. CommandOK(new)
  BY <1>2, <1>3, SoundCommand DEF CommandOK
<1>5. UpToDate(new, script) /\ OwnFile(new, infoFile) /\ MayRelay(new, stored)
  BY <1>2, <1>3, <1>4 DEF UpToDate, BeforeFirstRun, OwnFile, MayRelay, CommandOK
<1>6. command' = [command EXCEPT ![c] = new]
  BY <1>1 DEF Configure
<1> QED
  BY <1>3, <1>4, <1>5, <1>6, <1>7 DEF Becomes, Sound, Inv, Configure, Files

(* The names that a command resolves are names, and listed once if the     *)
(* script lists them once.                                                 *)
LEMMA ResolvedNames ==
    ASSUME NEW config \in Configs, NEW networks \in CliNetworks
    PROVE  /\ ResolvedNetworks(networks, config) \in Seq(STRING)
           /\ DistinctChains => NoRepetition(ResolvedNetworks(networks, config))
<1>1. /\ networks \in Seq(STRING)
      /\ config.mainnets \in Seq(STRING) /\ config.testnets \in Seq(STRING)
  BY ProposalAssumption
<1>2. DistinctChains => /\ NoRepetition(networks)
                        /\ NoRepetition(config.mainnets) /\ NoRepetition(config.testnets)
  BY Zenon DEF DistinctChains
<1> QED
  BY <1>1, <1>2, Zenon DEF ResolvedNetworks

(* Networks that are not mixed are of one type.                            *)
LEMMA OneType ==
    ASSUME NEW chains, chains \subseteq DOMAIN NetworkType, ~isArrayMixed(chains),
           NEW a \in chains, NEW b \in chains, NetworkType[a] # NetworkType[b]
    PROVE  FALSE
<1>1. \A t \in chains : NetworkType[t] \in {"Testnet", "Mainnet"}
  BY ProposalAssumption
<1>2. PICK types : types = {NetworkType[chain] : chain \in chains}
  OBVIOUS
<1>3. types \subseteq {"Testnet", "Mainnet"}
  BY <1>1, <1>2
<1>4. NetworkType[a] \in types /\ NetworkType[b] \in types
  BY <1>2
<1>5. types = {NetworkType[a], NetworkType[b]}
  BY <1>3, <1>4
<1>6. IsFiniteSet({NetworkType[a]}) /\ Cardinality({NetworkType[a]}) = 1
  BY FS_Singleton
<1>7. types = {NetworkType[a]} \cup {NetworkType[b]} /\ NetworkType[b] \notin {NetworkType[a]}
  BY <1>5
<1>8. Cardinality(types) = Cardinality({NetworkType[a]}) + 1
  BY <1>6, <1>7, FS_AddElement
<1>9. Cardinality(types) = 2
  BY <1>6, <1>8
<1> QED
  BY <1>2, <1>9 DEF isArrayMixed

(* The endpoints of names that pass the validation.                        *)
LEMMA ValidEndpoints ==
    ASSUME NEW names \in Seq(STRING), names # <<>>, ToSet(names) \subseteq DOMAIN RpcEndpoints,
           {RpcEndpoints[n] : n \in ToSet(names)} \subseteq DOMAIN NetworkType,
           ~isArrayMixed({RpcEndpoints[n] : n \in ToSet(names)})
    PROVE  LET urls == [k \in DOMAIN names |-> RpcEndpoints[names[k]]]
           IN /\ urls \in Seq(Chains) /\ 0 < Len(urls)
              /\ \A k \in DOMAIN urls :
                    (NetworkType[urls[k]] = "Testnet") =
                        \A j \in DOMAIN urls : NetworkType[urls[j]] = "Testnet"
              /\ DistinctChains /\ NoRepetition(names) => NoRepetition(urls)
<1> DEFINE urls == [k \in DOMAIN names |-> RpcEndpoints[names[k]]]
<1>1. PICK chains : chains = {RpcEndpoints[n] : n \in ToSet(names)}
  OBVIOUS
<1>2. /\ DOMAIN urls = DOMAIN names /\ DOMAIN names = 1 .. Len(names) /\ 0 < Len(names)
      /\ \A k \in DOMAIN urls : urls[k] = RpcEndpoints[names[k]]
  OBVIOUS
<1> HIDE DEF urls
<1>3. \A k \in DOMAIN names : names[k] \in ToSet(names)
  BY DEF ToSet
<1>4. \A k \in DOMAIN urls : urls[k] \in chains /\ urls[k] \in Chains
  BY <1>1, <1>2, <1>3, Zenon DEF Chains
<1>5. urls \in Seq(Chains) /\ Len(urls) = Len(names)
  <2>1. urls = [k \in DOMAIN names |-> urls[k]]
    BY DEF urls
  <2> QED
    BY <1>2, <1>4, <2>1
<1>6. ASSUME NEW k \in DOMAIN urls
      PROVE  (NetworkType[urls[k]] = "Testnet") =
                 \A j \in DOMAIN urls : NetworkType[urls[j]] = "Testnet"
  <2>1. chains \subseteq DOMAIN NetworkType /\ ~isArrayMixed(chains)
    BY <1>1
  <2>2. \A j \in DOMAIN urls : NetworkType[urls[j]] = NetworkType[urls[k]]
    BY <1>4, <2>1, OneType
  <2>3. CASE NetworkType[urls[k]] = "Testnet"
    BY <2>2, <2>3
  <2>4. CASE NetworkType[urls[k]] # "Testnet"
    BY <2>4
  <2> QED
    BY <2>3, <2>4
<1>7. DistinctChains /\ NoRepetition(names) => NoRepetition(urls)
  <2>1. \A k \in DOMAIN names : names[k] \in DOMAIN RpcEndpoints
    BY <1>3
  <2> QED
    BY <1>2, <2>1 DEF DistinctChains, NoRepetition
<1> QED
  BY <1>2, <1>5, <1>6, <1>7 DEF urls

(* A command goes into the loop with networks of one type.                 *)
LEMMA ValidateKeeps ==
    ASSUME Inv, NEW c \in Commands, Validate(c)
    PROVE  \E new : Becomes(c, new)
<1>1. PICK cmd : cmd = command[c]
  OBVIOUS
<1>2. /\ cmd \in CommandType /\ cmd.pc = "validate" /\ CommandOK(cmd)
      /\ UpToDate(cmd, script) /\ MayRelay(cmd, stored)
  BY <1>1, SoundCommand DEF Validate
<1>3. cmd.config \in Configs /\ cmd.networks \in CliNetworks /\ cmd.collected = <<>>
  BY <1>2 DEF CommandOK
<1>4. PICK names : names = ResolvedNetworks(cmd.networks, cmd.config)
  OBVIOUS
<1>5. names \in Seq(STRING) /\ (DistinctChains => NoRepetition(names))
  BY <1>3, <1>4, ResolvedNames
<1>6. CASE validateProposalNetworks(cmd.networks, cmd.config)
  <2>1. /\ names # <<>> /\ ToSet(names) \subseteq DOMAIN RpcEndpoints
        /\ {RpcEndpoints[n] : n \in ToSet(names)} \subseteq DOMAIN NetworkType
        /\ ~isArrayMixed({RpcEndpoints[n] : n \in ToSet(names)})
    BY <1>4, <1>6, Zenon DEF validateProposalNetworks
  <2>2. PICK urls : urls = [k \in DOMAIN names |-> RpcEndpoints[names[k]]]
    OBVIOUS
  <2> DEFINE test == \A k \in DOMAIN urls : NetworkType[urls[k]] = "Testnet"
  <2>3. test \in BOOLEAN
    OBVIOUS
  <2>13. command' = [command EXCEPT
                     ![c] = [command[c] EXCEPT !.pc = "remove", !.rpcUrls = urls, !.isTestnet = test]]
    <3>1. LET chains == [k \in DOMAIN names |-> RpcEndpoints[names[k]]]
          IN command' = [command EXCEPT
                ![c] = [command[c] EXCEPT !.pc = "remove", !.rpcUrls = chains,
                           !.isTestnet = \A k \in DOMAIN chains : NetworkType[chains[k]] = "Testnet"]]
      BY <1>1, <1>4, <1>6, Zenon DEF Validate
    <3> QED
      BY <2>2, <3>1
  <2>4. /\ urls \in Seq(Chains) /\ 0 < Len(urls)
        /\ \A k \in DOMAIN urls : (NetworkType[urls[k]] = "Testnet") = test
        /\ DistinctChains => NoRepetition(urls)
    <3>1. LET chains == [k \in DOMAIN names |-> RpcEndpoints[names[k]]]
          IN /\ chains \in Seq(Chains) /\ 0 < Len(chains)
             /\ \A k \in DOMAIN chains :
                   (NetworkType[chains[k]] = "Testnet") =
                       \A j \in DOMAIN chains : NetworkType[chains[j]] = "Testnet"
             /\ DistinctChains /\ NoRepetition(names) => NoRepetition(chains)
      BY <1>5, <2>1, ValidEndpoints
    <3> QED
      BY <1>5, <2>2, <3>1
  <2> HIDE DEF test
  <2>5. PICK new : new = [cmd EXCEPT !.pc = "remove", !.rpcUrls = urls, !.isTestnet = test]
    OBVIOUS
  <2>6. new \in CommandType
    <3>1. "remove" \in Places
      BY DEF Places
    <3> QED
      BY <1>2, <2>3, <2>4, <2>5, <3>1, Zenon DEF CommandType
  <2>7. /\ new.pc = "remove" /\ new.id = cmd.id /\ new.mode = cmd.mode
        /\ new.config = cmd.config /\ new.rpcUrls = urls
        /\ new.collected = <<>> /\ new.edited = cmd.edited
    BY <1>2, <1>3, <2>5 DEF CommandType
  <2>12. new.isTestnet = test
    BY <1>2, <2>5, Zenon DEF CommandType
  <2>8. CommandOK(new)
    <3>1. Len(new.collected) < Len(new.rpcUrls) /\ DOMAIN new.collected = {}
      BY <2>4, <2>7
    <3> QED
      BY <2>4, <2>7, <2>12, <3>1 DEF CommandOK
  <2>9. UpToDate(new, script)
    BY <1>2, <1>3, <2>7 DEF UpToDate, BeforeFirstRun
  <2>10. OwnFile(new, infoFile) /\ MayRelay(new, stored')
    BY <2>7 DEF OwnFile, MayRelay
  <2>11. command' = [command EXCEPT ![c] = new]
    BY <1>1, <2>5, <2>13
  <2> QED
    BY <2>6, <2>8, <2>9, <2>10, <2>11 DEF Becomes, Sound, Validate, Files, Inv
<1>7. CASE ~validateProposalNetworks(cmd.networks, cmd.config)
  <2>1. Goto(c, "failed") /\ UNCHANGED <<script, starts, infoFile>> /\ stored' = stored
    BY <1>1, <1>7, Zenon DEF Validate, Files
  <2> QED
    BY <1>1, <1>2, <2>1, GotoKeeps DEF Places
<1> QED
  BY <1>6, <1>7

-----------------------------------------------------------------------------
(* The loop over the networks *)

(* The step of one command, when the others' files are left alone.         *)
LEMMA OthersKeep ==
    ASSUME Inv, NEW c \in Commands, NEW new, Becomes(c, new),
           \A d \in Commands \ {c} : OwnFile(command[d], infoFile')
    PROVE  Inv'
<1>1. /\ script' \in Configs /\ starts' \in Nat /\ infoFile' \in Info \cup {NoFile}
      /\ command' \in [Commands -> CommandType]
  BY DEF Inv, Becomes
<1>2. Sound(command'[c], script', infoFile', stored')
  BY DEF Becomes, Inv
<1>3. ASSUME NEW d \in Commands, d # c
      PROVE  Sound(command'[d], script', infoFile', stored')
  <2>1. command'[d] = command[d] /\ script' = script /\ stored \subseteq stored'
    BY <1>3 DEF Becomes, Inv
  <2>2. /\ CommandOK(command[d]) /\ UpToDate(command[d], script)
        /\ MayRelay(command[d], stored)
    BY SoundCommand
  <2>3. MayRelay(command[d], stored')
    BY <2>1, <2>2 DEF MayRelay
  <2>4. OwnFile(command[d], infoFile')
    BY <1>3
  <2> QED
    BY <2>1, <2>2, <2>3, <2>4, Zenon DEF Sound
<1> QED
  BY <1>1, <1>2, <1>3 DEF Inv

(* A step that leaves the file alone.                                      *)
LEMMA FileUnchangedKeeps ==
    ASSUME Inv, NEW c \in Commands, NEW new, Becomes(c, new), infoFile' = infoFile
    PROVE  Inv'
<1>1. \A d \in Commands : OwnFile(command[d], infoFile')
  BY SoundCommand
<1> QED
  BY <1>1, OthersKeep

(* The parts of a command that go on in the loop.                          *)
LEMMA LoopKeeps ==
    ASSUME NEW cmd \in CommandType, NEW pc \in Places, CommandOK(cmd), NEW config,
           UpToDate(cmd, config), cmd.pc \in {"remove", "forge"},
           pc \in {"forge", "read"}, NEW new, new = [cmd EXCEPT !.pc = pc]
    PROVE  /\ new \in CommandType /\ CommandOK(new) /\ UpToDate(new, config)
           /\ new.pc = pc /\ new.id = cmd.id /\ new.mode = cmd.mode
           /\ new.config = cmd.config /\ new.rpcUrls = cmd.rpcUrls
           /\ new.collected = cmd.collected
           /\ new.edited = cmd.edited
<1>1. new \in CommandType
  BY Zenon DEF CommandType
<1>2. /\ new.pc = pc /\ new.id = cmd.id /\ new.mode = cmd.mode
      /\ new.config = cmd.config /\ new.rpcUrls = cmd.rpcUrls
      /\ new.collected = cmd.collected /\ new.isTestnet = cmd.isTestnet
      /\ new.edited = cmd.edited
  BY DEF CommandType
<1>3. CommandOK(new)
  BY <1>2 DEF CommandOK
<1>4. UpToDate(new, config)
  BY <1>2 DEF UpToDate, BeforeFirstRun
<1> QED
  BY <1>1, <1>2, <1>3, <1>4

(* Removing the file hurts nobody: who looks for one finds none.           *)
LEMMA RemoveInfoKeeps ==
    ASSUME Inv, NEW c \in Commands, RemoveInfo(c)
    PROVE  Inv'
<1>1. PICK cmd : cmd = command[c]
  OBVIOUS
<1>2. cmd \in CommandType /\ CommandOK(cmd) /\ UpToDate(cmd, script) /\ cmd.pc = "remove"
  BY <1>1, SoundCommand DEF RemoveInfo
<1>3. PICK new : new = [cmd EXCEPT !.pc = "forge"]
  OBVIOUS
<1>4. /\ new \in CommandType /\ CommandOK(new) /\ UpToDate(new, script) /\ new.pc = "forge"
  BY <1>2, <1>3, LoopKeeps DEF Places
<1>5. infoFile' = NoFile
  BY DEF RemoveInfo, RemovedFile
<1>6. OwnFile(new, infoFile') /\ MayRelay(new, stored')
  BY <1>4, <1>5 DEF OwnFile, MayRelay
<1>7. command' = [command EXCEPT ![c] = new]
  BY <1>1, <1>3 DEF RemoveInfo, Goto
<1>8. Becomes(c, new)
  BY <1>4, <1>5, <1>6, <1>7 DEF Becomes, Sound, RemoveInfo, Inv
<1>9. \A d \in Commands : OwnFile(command[d], infoFile')
  BY <1>5, SoundCommand DEF OwnFile
<1> QED
  BY <1>8, <1>9, OthersKeep

(* What Forge writes is for the command that called it, if it is alone.    *)
LEMMA ForgeKeeps ==
    ASSUME Inv, Alone, NEW c \in Commands, Forge(c)
    PROVE  Inv'
<1>1. PICK cmd : cmd = command[c]
  OBVIOUS
<1>2. /\ cmd \in CommandType /\ CommandOK(cmd) /\ UpToDate(cmd, script)
      /\ OwnFile(cmd, infoFile) /\ cmd.pc = "forge"
  BY <1>1, SoundCommand DEF Forge
<1>3. PICK new : new = [cmd EXCEPT !.pc = "read"]
  OBVIOUS
<1>4. /\ new \in CommandType /\ CommandOK(new) /\ UpToDate(new, script) /\ new.pc = "read"
      /\ new.id = cmd.id /\ new.rpcUrls = cmd.rpcUrls /\ new.collected = cmd.collected
      /\ new.mode = cmd.mode /\ new.edited = cmd.edited /\ new.config = cmd.config
  BY <1>2, <1>3, LoopKeeps DEF Places
<1>5. infoFile' \in Info \cup {NoFile} /\ OwnFile(new, infoFile')
  <2>1. CASE infoFile' = infoFile
    BY <1>2, <1>4, <2>1 DEF OwnFile, Inv
  <2>2. ASSUME NEW actions \in 0 .. MaxActions, infoFile' = DeploymentInfo(c, actions)
        PROVE  infoFile' \in Info \cup {NoFile} /\ OwnFile(new, infoFile')
    <3>1. PICK n \in Nat : n = Len(cmd.collected) + 1
      BY <1>2 DEF CommandType
    <3>2. n \in DOMAIN cmd.rpcUrls
      <4>1. Len(cmd.collected) < Len(cmd.rpcUrls)
        BY <1>2 DEF CommandOK
      <4> QED
        BY <1>2, <3>1, <4>1 DEF CommandType
    <3>3. PICK chain : chain = cmd.rpcUrls[n]
      OBVIOUS
    <3>4. chain \in Chains
      BY <1>2, <3>2, <3>3 DEF CommandType
    <3>5. infoFile' = [by |-> cmd.id, chainId |-> chain, newConfig |-> script,
                       actions |-> actions]
      BY <1>1, <2>2, <3>1, <3>3, Zenon DEF DeploymentInfo
    <3>6. cmd.id \in Nat /\ actions \in Nat /\ script \in Configs
      BY <1>2, ProposalAssumption DEF CommandType, Inv
    <3>7. infoFile' \in Info
      BY <3>4, <3>5, <3>6, Zenon DEF Info
    <3>8. /\ infoFile'.by = new.id /\ infoFile'.chainId = new.rpcUrls[n]
          /\ n = Len(new.collected) + 1 /\ infoFile'.newConfig = script
      BY <1>4, <3>1, <3>3, <3>5
    <3>9. new.mode # "deploy" /\ ~new.edited /\ new.collected = <<>> => new.config = script
      BY <1>2, <1>4 DEF UpToDate, BeforeFirstRun
    <3> QED
      BY <1>4, <3>7, <3>8, <3>9 DEF OwnFile
  <2> QED
    BY <2>1, <2>2 DEF Forge
<1>6. MayRelay(new, stored')
  BY <1>4 DEF MayRelay
<1>7. command' = [command EXCEPT ![c] = new]
  BY <1>1, <1>3 DEF Forge, Goto
<1>8. Becomes(c, new)
  BY <1>4, <1>5, <1>6, <1>7 DEF Becomes, Sound, Forge, Inv
<1>9. ASSUME NEW d \in Commands \ {c}
      PROVE  OwnFile(command[d], infoFile')
  <2>1. command[d].pc \notin {"forge", "read"}
    BY <1>1, <1>2 DEF Alone
  <2> QED
    BY <2>1 DEF OwnFile
<1> QED
  BY <1>8, <1>9, OthersKeep

(* What a command reads is about the network that it asked for.            *)
LEMMA ReadInfoKeeps ==
    ASSUME Inv, NEW c \in Commands, ReadInfo(c)
    PROVE  Inv'
<1>1. PICK cmd : cmd = command[c]
  OBVIOUS
<1>2. /\ cmd \in CommandType /\ CommandOK(cmd) /\ UpToDate(cmd, script)
      /\ OwnFile(cmd, infoFile) /\ cmd.pc = "read"
  BY <1>1, SoundCommand DEF ReadInfo
<1>3. UNCHANGED <<script, starts, infoFile, stored>>
  BY DEF ReadInfo, Files
<1>4. CASE infoFile = NoFile
  <2>1. Goto(c, "failed")
    BY <1>4 DEF ReadInfo
  <2>2. \E new : Becomes(c, new)
    BY <1>1, <1>2, <1>3, <2>1, GotoKeeps DEF Places
  <2> QED
    BY <1>3, <2>2, FileUnchangedKeeps
<1>5. CASE infoFile # NoFile
  <2>1. infoFile \in Info
    BY <1>5 DEF Inv
  <2>2. PICK collected : collected = Append(cmd.collected, infoFile)
    OBVIOUS
  <2>3. PICK pc : pc = IF Len(collected) < Len(cmd.rpcUrls) THEN "remove" ELSE "build"
    OBVIOUS
  <2>4. cmd.collected \in Seq(Info) /\ cmd.rpcUrls \in Seq(Chains)
    BY <1>2 DEF CommandType
  <2>5. /\ collected \in Seq(Info) /\ Len(collected) = Len(cmd.collected) + 1
        /\ collected[Len(cmd.collected) + 1] = infoFile
        /\ \A k \in DOMAIN cmd.collected : collected[k] = cmd.collected[k]
        /\ collected # <<>>
    BY <2>1, <2>2, <2>4
  <2>6. PICK new : new = [cmd EXCEPT !.collected = collected, !.pc = pc]
    OBVIOUS
  <2>7. pc \in {"remove", "build"} /\ pc \in Places
    BY <2>3 DEF Places
  <2>8. new \in CommandType
    BY <1>2, <2>5, <2>6, <2>7, Zenon DEF CommandType
  <2>9. /\ new.pc = pc /\ new.id = cmd.id /\ new.mode = cmd.mode
        /\ new.config = cmd.config /\ new.rpcUrls = cmd.rpcUrls
        /\ new.collected = collected /\ new.isTestnet = cmd.isTestnet
        /\ new.edited = cmd.edited
    BY <1>2, <2>6 DEF CommandType
  <2>10. /\ infoFile.by = cmd.id /\ infoFile.chainId = cmd.rpcUrls[Len(cmd.collected) + 1]
         /\ cmd.mode # "deploy" /\ ~cmd.edited /\ cmd.collected = <<>> =>
               infoFile.newConfig = cmd.config
    BY <1>2, <1>5 DEF OwnFile
  <2>11. Len(cmd.collected) < Len(cmd.rpcUrls)
    BY <1>2 DEF CommandOK
  <2>12. ASSUME NEW k \in DOMAIN collected
         PROVE  k \in DOMAIN cmd.collected \/ k = Len(cmd.collected) + 1
    BY <2>4, <2>5
  <2>13. ASSUME NEW k \in DOMAIN collected
         PROVE  /\ k \in DOMAIN cmd.rpcUrls
                /\ collected[k].by = cmd.id /\ collected[k].chainId = cmd.rpcUrls[k]
    <3>1. CASE k \in DOMAIN cmd.collected
      BY <1>2, <2>5, <3>1 DEF CommandOK
    <3>2. CASE k = Len(cmd.collected) + 1
      <4>1. k \in DOMAIN cmd.rpcUrls
        BY <2>4, <2>11, <3>2
      <4> QED
        BY <2>5, <2>10, <3>2, <4>1
    <3> QED
      BY <2>12, <3>1, <3>2
  <2>14. CommandOK(new)
    <3>1. /\ cmd.mode # "deploy" =>
                \A k \in DOMAIN cmd.rpcUrls :
                   (NetworkType[cmd.rpcUrls[k]] = "Testnet") = cmd.isTestnet
          /\ DistinctChains => NoRepetition(cmd.rpcUrls)
      BY <1>2 DEF CommandOK
    <3>2. new.pc = "remove" => Len(new.collected) < Len(new.rpcUrls)
      BY <2>3, <2>9
    <3>3. new.pc \in {"remove", "build"} /\ new.collected # <<>>
      BY <2>5, <2>7, <2>9
    <3>4. \A k \in DOMAIN new.collected :
             /\ k \in DOMAIN new.rpcUrls
             /\ new.collected[k].by = new.id /\ new.collected[k].chainId = new.rpcUrls[k]
      BY <2>9, <2>13
    <3>5. new.mode # "deploy" =>
                \A k \in DOMAIN new.rpcUrls :
                   (NetworkType[new.rpcUrls[k]] = "Testnet") = new.isTestnet
      BY <2>9, <3>1, Zenon
    <3> QED
      BY <2>9, <3>1, <3>2, <3>3, <3>4, <3>5 DEF CommandOK
  <2>15. UpToDate(new, script)
    <3>1. SUFFICES ASSUME cmd.mode # "deploy", ~cmd.edited
                   PROVE  collected[1].newConfig = cmd.config
      BY <2>5, <2>9 DEF UpToDate, BeforeFirstRun
    <3>2. CASE cmd.collected = <<>>
      BY <2>5, <2>10, <3>1, <3>2
    <3>3. CASE cmd.collected # <<>>
      <4>1. cmd.collected[1].newConfig = cmd.config /\ 1 \in DOMAIN cmd.collected
        BY <1>2, <2>4, <3>1, <3>3 DEF UpToDate
      <4> QED
        BY <2>5, <4>1
    <3> QED
      BY <3>2, <3>3
  <2>16. OwnFile(new, infoFile') /\ MayRelay(new, stored')
    BY <2>7, <2>9 DEF OwnFile, MayRelay
  <2>17. command' = [command EXCEPT ![c] = new]
    <3>1. command' = [command EXCEPT ![c] = [command[c] EXCEPT !.collected = collected,
                                                !.pc = pc]]
      BY <1>1, <1>5, <2>2, <2>3, Zenon DEF ReadInfo
    <3> QED
      BY <1>1, <2>6, <3>1
  <2>18. Becomes(c, new)
    BY <1>3, <2>8, <2>14, <2>15, <2>16, <2>17 DEF Becomes, Sound, Inv
  <2> QED
    BY <1>3, <2>18, FileUnchangedKeeps
<1> QED
  BY <1>4, <1>5

-----------------------------------------------------------------------------
(* After the loop *)

(* The user may agree, or there is nothing to execute.                     *)
LEMMA BuildKeeps ==
    ASSUME Inv, NEW c \in Commands, Build(c) \/ Agree(c) \/ Deploy(c)
    PROVE  Inv'
<1>1. /\ command[c].pc \in {"build", "prompt", "confirmed"}
      /\ UNCHANGED <<script, starts, infoFile, stored>>
      /\ \E pc \in {"nothing to execute", "confirmed", "prompt", "deployed", "failed"} :
            Goto(c, pc)
  BY DEF Build, Agree, Deploy, Files
<1>2. PICK pc \in {"nothing to execute", "confirmed", "prompt", "deployed", "failed"} : Goto(c, pc)
  BY <1>1
<1>3. pc \in Places
  BY DEF Places
<1>4. \E new : Becomes(c, new)
  BY <1>1, <1>2, <1>3, GotoKeeps
<1> QED
  BY <1>1, <1>4, FileUnchangedKeeps

(* What is uploaded is made of networks that agree on their configuration. *)
LEMMA StoreKeeps ==
    ASSUME Inv, NEW c \in Commands, Store(c)
    PROVE  Inv'
<1>1. PICK cmd : cmd = command[c]
  OBVIOUS
<1>2. /\ cmd \in CommandType /\ CommandOK(cmd) /\ UpToDate(cmd, script)
      /\ cmd.pc = "confirmed" /\ cmd.mode # "deploy"
  BY <1>1, SoundCommand DEF Store
<1>3. UNCHANGED <<script, starts, infoFile>> /\ stored \subseteq stored'
  BY DEF Store, storeDeploymentConfig
<1>4. CASE Goto(c, "failed") \/ Goto(c, "dry run succeeded")
  <2>1. \E new : Becomes(c, new)
    BY <1>1, <1>2, <1>3, <1>4, GotoKeeps DEF Places
  <2> QED
    BY <1>3, <2>1, FileUnchangedKeeps
<1>5. CASE /\ Goto(c, "relay") /\ elementsEqual(cmd.collected)
           /\ makeDeploymentConfig(cmd.collected) \in stored'
  <2>1. PICK new : new = [cmd EXCEPT !.pc = "relay"]
    OBVIOUS
  <2>2. /\ new.pc = "relay" /\ new.id = cmd.id
        /\ new.mode = cmd.mode /\ new.config = cmd.config
        /\ new.rpcUrls = cmd.rpcUrls /\ new.isTestnet = cmd.isTestnet
        /\ new.collected = cmd.collected /\ new.edited = cmd.edited
    BY <1>2, <2>1 DEF CommandType
  <2>3. new \in CommandType
    <3>1. "relay" \in Places
      BY DEF Places
    <3> QED
      BY <1>2, <2>1, <3>1, Zenon DEF CommandType
  <2>4. CommandOK(new)
    BY <1>2, <2>2 DEF CommandOK
  <2>5. UpToDate(new, script)
    BY <1>2, <2>2 DEF UpToDate, BeforeFirstRun
  <2>6. OwnFile(new, infoFile)
    BY <2>2 DEF OwnFile
  <2>7. MayRelay(new, stored')
    BY <1>5, <2>2, Zenon DEF MayRelay
  <2>8. command' = [command EXCEPT ![c] = new]
    BY <1>1, <1>5, <2>1 DEF Goto
  <2>9. Becomes(c, new)
    BY <1>3, <2>3, <2>4, <2>5, <2>6, <2>7, <2>8 DEF Becomes, Sound, Inv
  <2> QED
    BY <1>3, <2>9, FileUnchangedKeeps
<1> QED
  BY <1>1, <1>4, <1>5, Zenon DEF Store, storeDeploymentConfig

(* The answer of the website arrives, or is lost.                          *)
LEMMA RelayKeeps ==
    ASSUME Inv, NEW c \in Commands, relayProposal(c)
    PROVE  Inv'
<1>1. /\ command[c].pc = "relay" /\ UNCHANGED <<script, starts, infoFile, stored>>
  BY DEF relayProposal
<1>2. PICK pc \in {"proposed", "failed"} : Goto(c, pc)
  BY DEF relayProposal
<1>3. pc \in Places
  BY DEF Places
<1>4. \E new : Becomes(c, new)
  BY <1>1, <1>2, <1>3, GotoKeeps
<1> QED
  BY <1>1, <1>4, FileUnchangedKeeps

(* After an edit, what a command was told may be outdated; it says so.     *)
LEMMA EditScriptKeeps ==
    ASSUME Inv, NEW config \in Configs, EditScript(config)
    PROVE  Inv'
<1>1. UNCHANGED <<starts, infoFile, stored>> /\ script' = config
  BY DEF EditScript, Files
<1>2. ASSUME NEW c \in Commands
      PROVE  command'[c] \in CommandType /\ Sound(command'[c], script', infoFile', stored')
  <2>1. PICK cmd : cmd = command[c]
    OBVIOUS
  <2>2. /\ cmd \in CommandType /\ CommandOK(cmd) /\ OwnFile(cmd, infoFile)
        /\ MayRelay(cmd, stored)
    BY <2>1, SoundCommand
  <2> DEFINE edited == cmd.edited \/ BeforeFirstRun(cmd)
  <2>3. edited \in BOOLEAN
    BY DEF BeforeFirstRun
  <2>14. UpToDate(cmd, script)
    BY <2>1, SoundCommand
  <2>4. PICK new : new = [cmd EXCEPT !.edited = edited]
    OBVIOUS
  <2>5. command'[c] = new
    BY <2>1, <2>4, Zenon DEF EditScript
  <2>6. ~edited => ~cmd.edited /\ ~BeforeFirstRun(cmd)
    OBVIOUS
  <2> HIDE DEF edited
  <2>7. new \in CommandType
    BY <2>2, <2>3, <2>4, Zenon DEF CommandType
  <2>8. /\ new.pc = cmd.pc /\ new.id = cmd.id /\ new.mode = cmd.mode
        /\ new.config = cmd.config /\ new.rpcUrls = cmd.rpcUrls
        /\ new.collected = cmd.collected /\ new.networks = cmd.networks
        /\ new.isTestnet = cmd.isTestnet
    BY <2>2, <2>4 DEF CommandType
  <2>9. new.edited = edited
    BY <2>2, <2>4, Zenon DEF CommandType
  <2>10. CommandOK(new)
    BY <2>2, <2>8 DEF CommandOK
  <2>11. UpToDate(new, script')
    BY <2>6, <2>8, <2>9, <2>14, Zenon DEF UpToDate, BeforeFirstRun
  <2>12. OwnFile(new, infoFile')
    BY <1>1, <2>2, <2>6, <2>8, <2>9 DEF OwnFile
  <2>13. MayRelay(new, stored')
    BY <1>1, <2>2, <2>8 DEF MayRelay
  <2> QED
    BY <2>5, <2>7, <2>10, <2>11, <2>12, <2>13, Zenon DEF Sound
<1>3. command' \in [Commands -> CommandType]
  BY <1>2 DEF EditScript
<1> QED
  BY <1>1, <1>2, <1>3 DEF Inv

-----------------------------------------------------------------------------
(* The invariant holds of the first state and is kept.                     *)
LEMMA InitInv == Init => Inv
<1> SUFFICES ASSUME Init PROVE Inv
  OBVIOUS
<1>1. <<>> \in Seq(STRING) /\ <<>> \in Seq(Chains) /\ <<>> \in Seq(Info)
  OBVIOUS
<1>2. "propose" \in Modes /\ "idle" \in Places /\ 0 \in Nat
  BY DEF Modes, Places
<1>3. <<>> \in Configs \cup {<<>>}
  OBVIOUS
<1>4. Idle \in CommandType
  BY <1>1, <1>2, <1>3, Zenon DEF Idle, CommandType
<1>5. Sound(Idle, script, infoFile, stored)
  BY DEF Sound, Idle, CommandOK, UpToDate, BeforeFirstRun, OwnFile, MayRelay, NoRepetition
<1>6. \A c \in Commands : command[c] = Idle
  BY DEF Init
<1>7. command \in [Commands -> CommandType]
  BY <1>4 DEF Init
<1> QED
  BY <1>5, <1>6, <1>7 DEF Init, Inv

(* Every step keeps the invariant.                                         *)
LEMMA NextInv == Inv /\ Alone /\ [Next]_vars => Inv'
<1> SUFFICES ASSUME Inv, Alone, [Next]_vars PROVE Inv'
  OBVIOUS
<1>1. CASE UNCHANGED vars
  <2>1. UNCHANGED <<script, starts, infoFile, command, stored>>
    BY <1>1 DEF vars
  <2> QED
    BY <2>1 DEF Inv
<1>2. ASSUME NEW config \in Configs, EditScript(config) PROVE Inv'
  BY <1>2, EditScriptKeeps
<1>3. ASSUME NEW c \in Commands, NEW mode \in Modes, NEW confirm \in BOOLEAN,
             NEW networks \in CliNetworks, NEW sig \in Sigs,
             StartPropose(c, mode, confirm, networks, sig)
             \/ StartDeploy(c, confirm, networks, sig)
      PROVE  Inv'
  <2>1. \E new : Becomes(c, new)
    BY <1>3, StartKeeps
  <2>2. infoFile' = infoFile
    BY <1>3 DEF StartPropose, StartDeploy, Files
  <2> QED
    BY <2>1, <2>2, FileUnchangedKeeps
<1>4. ASSUME NEW c \in Commands, Configure(c) \/ Validate(c) \/ Exit(c) PROVE Inv'
  <2>1. \E new : Becomes(c, new)
    BY <1>4, ConfigureKeeps, ValidateKeeps, ExitKeeps
  <2>2. infoFile' = infoFile
    BY <1>4 DEF Configure, Validate, Exit, Files
  <2> QED
    BY <2>1, <2>2, FileUnchangedKeeps
<1>5. ASSUME NEW c \in Commands, RemoveInfo(c) \/ Forge(c) \/ ReadInfo(c) PROVE Inv'
  BY <1>5, RemoveInfoKeeps, ForgeKeeps, ReadInfoKeeps
<1>6. ASSUME NEW c \in Commands,
             Build(c) \/ Agree(c) \/ Store(c) \/ relayProposal(c) \/ Deploy(c)
      PROVE  Inv'
  BY <1>6, BuildKeeps, StoreKeeps, RelayKeeps
<1> QED
  BY <1>1, <1>2, <1>3, <1>4, <1>5, <1>6, Zenon DEF Next

(* A command of which no other one waits for Forge at the same time works  *)
(* on what Forge found for it: the deployment infos that `propose` and     *)
(* `deploy` read from sphinx-deployment-info.txt.                          *)
THEOREM CollectsItsOwn == Spec /\ []Alone => []OwnTransactions
<1>1. Inv => OwnTransactions
  BY SoundCommand DEF OwnTransactions, CommandOK
<1> QED
  BY <1>1, InitInv, NextInv, PTL DEF Spec

-----------------------------------------------------------------------------
(* What is proposed *)

TruthfulRequest(p) ==
    \A n \in ToSet(p.deploymentConfigId.networkConfigs) :
        /\ n.newConfig = p.newConfig
        /\ p.safeAddress = n.newConfig.safe \/ p.edited
        /\ (NetworkType[n.chainId] = "Testnet") = p.isTestnet

CompleteTree(p) ==
    LET tree == p.deploymentConfigId.merkleTree
    IN /\ {p.chainStatus[k].chainId : k \in DOMAIN p.chainStatus} =
             {leaf.chainId : leaf \in tree}
       /\ \A k \in DOMAIN p.chainStatus :
             p.chainStatus[k].numLeaves =
                 Cardinality({leaf \in tree : leaf.chainId = p.chainStatus[k].chainId})
       /\ Cardinality(p.projectDeployments) = Len(p.chainStatus)
       /\ \A n \in ToSet(p.deploymentConfigId.networkConfigs) :
             {g \in p.diff : n.chainId \in g.networks /\ g.actions = n.actions} # {}

(* What a command is, when it sends its request.                           *)
LEMMA RelayingCommand ==
    ASSUME Inv, NEW c \in Commands, command[c].pc = "relay", NEW cmd, cmd = command[c]
    PROVE  /\ cmd.collected \in Seq(Info) /\ cmd.collected # <<>>
           /\ cmd.rpcUrls \in Seq(Chains) /\ cmd.mode # "deploy"
           /\ elementsEqual(cmd.collected)
           /\ makeDeploymentConfig(cmd.collected) \in stored
           /\ CommandOK(cmd) /\ UpToDate(cmd, script)
BY SoundCommand DEF CommandType, CommandOK, MayRelay

(* The parts of a request.                                                 *)
LEMMA RequestParts ==
    ASSUME NEW c \in Commands
    PROVE  LET configs == command[c].collected
               tree == makeSphinxMerkleTree(makeDeploymentData(configs))
               p == ProposalRequest(c)
           IN /\ p.newConfig = configs[1].newConfig
              /\ p.safeAddress = command[c].config.safe
              /\ p.deploymentConfigId = makeDeploymentConfig(configs)
              /\ p.deploymentConfigId.networkConfigs = configs
              /\ p.deploymentConfigId.merkleTree = tree
              /\ p.diff = getPreview(configs)
              /\ p.chainStatus = [k \in DOMAIN WithActions(configs) |->
                    [chainId |-> WithActions(configs)[k].chainId,
                     numLeaves |-> WithActions(configs)[k].actions + 1]]
              /\ p.projectDeployments = {n \in ToSet(WithActions(configs)) :
                    getProjectDeploymentForChain(tree, n.chainId)}
<1> DEFINE configs == command[c].collected
<1>1. makeDeploymentConfig(configs).networkConfigs = configs
  BY DEF makeDeploymentConfig
<1>2. makeDeploymentConfig(configs).merkleTree =
          makeSphinxMerkleTree(makeDeploymentData(configs))
  BY DEF makeDeploymentConfig
<1> QED
  BY <1>1, <1>2, Zenon DEF ProposalRequest

(* And those that Zenon cannot tell from formulas.                         *)
LEMMA RequestFlags ==
    ASSUME NEW c \in Commands, NEW p, p = ProposalRequest(c)
    PROVE  p.isTestnet = command[c].isTestnet /\ p.edited = command[c].edited
BY Zenon DEF ProposalRequest

(* A request says what its networks have in common.                        *)
LEMMA RequestIsTruthful ==
    ASSUME Inv, NEW c \in Commands, command[c].pc = "relay", NEW p, p = ProposalRequest(c)
    PROVE  TruthfulRequest(p)
<1>1. PICK cmd : cmd = command[c]
  OBVIOUS
<1>2. PICK configs : configs = cmd.collected
  OBVIOUS
<1>3. /\ configs \in Seq(Info) /\ configs # <<>> /\ cmd.mode # "deploy" /\ cmd.pc = "relay"
      /\ elementsEqual(configs) /\ CommandOK(cmd) /\ UpToDate(cmd, script)
  BY <1>1, <1>2, RelayingCommand
<1>4. p.newConfig = configs[1].newConfig /\ p.safeAddress = cmd.config.safe
  BY <1>1, <1>2, RequestParts, Zenon
<1>8. p.deploymentConfigId.networkConfigs = configs
  BY <1>1, <1>2, RequestParts, Zenon
<1>5. p.isTestnet = cmd.isTestnet /\ p.edited = cmd.edited
  BY <1>1, RequestFlags
<1>6. ASSUME NEW n \in ToSet(configs)
      PROVE  /\ n.newConfig = p.newConfig
             /\ p.safeAddress = n.newConfig.safe \/ p.edited
             /\ (NetworkType[n.chainId] = "Testnet") = p.isTestnet
  <2>1. PICK k \in DOMAIN configs : n = configs[k]
    BY DEF ToSet
  <2>2. 1 \in DOMAIN configs
    BY <1>3
  <2>3. n.newConfig = p.newConfig
    BY <1>3, <1>4, <2>1, <2>2 DEF elementsEqual
  <2>4. ~cmd.edited => cmd.config = n.newConfig
    <3>1. ~cmd.edited => cmd.config = configs[1].newConfig
      BY <1>2, <1>3 DEF UpToDate
    <3> QED
      BY <1>3, <2>1, <2>2, <3>1 DEF elementsEqual
  <2>5. (NetworkType[n.chainId] = "Testnet") = cmd.isTestnet
    <3>1. k \in DOMAIN cmd.rpcUrls /\ n.chainId = cmd.rpcUrls[k]
      BY <1>2, <1>3, <2>1 DEF CommandOK
    <3>2. (NetworkType[cmd.rpcUrls[k]] = "Testnet") = cmd.isTestnet
      BY <1>3, <3>1 DEF CommandOK
    <3> QED
      BY <3>1, <3>2
  <2>6. p.safeAddress = n.newConfig.safe \/ p.edited
    BY <1>4, <1>5, <2>4, Zenon
  <2>7. (NetworkType[n.chainId] = "Testnet") = p.isTestnet
    BY <1>5, <2>5, Zenon
  <2> QED
    BY <2>3, <2>6, <2>7
<1> QED
  BY <1>6, <1>8, Zenon DEF TruthfulRequest

-----------------------------------------------------------------------------
(* The tree of networks of different chains *)

ChainsDiffer(configs) == \A j, k \in DOMAIN configs : configs[j].chainId = configs[k].chainId => j = k

(* Those with actions are of different chains, too.                        *)
LEMMA WithActionsOfChains ==
    ASSUME NEW configs \in Seq(Info), ChainsDiffer(configs),
           NEW proposed, proposed = WithActions(configs)
    PROVE  proposed \in Seq(Info) /\ NoRepetition(proposed) /\ ChainsDiffer(proposed)
<1> DEFINE S == {n \in ToSet(configs) : n.actions > 0}
<1>1. proposed = SelectIn(configs, S)
  BY DEF WithActions
<1>2. NoRepetition(configs)
  BY DEF NoRepetition, ChainsDiffer
<1>3. ToSet(proposed) = ToSet(configs) \cap S
  BY <1>1, SelectInElements
<1>4. \A i, j \in DOMAIN proposed : proposed[i] = proposed[j] => i = j
  BY <1>1, <1>2, SelectInElements DEF NoRepetition
<1>5. proposed \in Seq(S)
  BY <1>1, SelectInType
<1>6. S \subseteq Info
  BY DEF ToSet
<1> HIDE DEF S
<1>7. proposed \in Seq(Info)
  BY <1>5, <1>6
<1>8. ASSUME NEW j \in DOMAIN proposed, NEW k \in DOMAIN proposed,
             proposed[j].chainId = proposed[k].chainId
      PROVE  j = k
  <2>1. proposed[j] \in ToSet(configs) /\ proposed[k] \in ToSet(configs)
    BY <1>3 DEF ToSet
  <2>2. PICK x \in DOMAIN configs : proposed[j] = configs[x]
    BY <2>1 DEF ToSet
  <2>3. PICK y \in DOMAIN configs : proposed[k] = configs[y]
    BY <2>1 DEF ToSet
  <2>4. x = y
    BY <1>8, <2>2, <2>3 DEF ChainsDiffer
  <2> QED
    BY <1>4, <2>2, <2>3, <2>4
<1> QED
  BY <1>4, <1>7, <1>8 DEF NoRepetition, ChainsDiffer

(* The data of a chain are those of its only network with actions.         *)
LEMMA DataOfChains ==
    ASSUME NEW configs \in Seq(Info), ChainsDiffer(configs)
    PROVE  LET data == makeDeploymentData(configs)
               proposed == WithActions(configs)
           IN /\ DOMAIN data = {proposed[k].chainId : k \in DOMAIN proposed}
              /\ \A k \in DOMAIN proposed : data[proposed[k].chainId].txs = proposed[k].actions
<1>6. PICK data : data = makeDeploymentData(configs)
  OBVIOUS
<1>7. PICK proposed : proposed = WithActions(configs)
  OBVIOUS
<1>1. proposed \in Seq(Info) /\ ChainsDiffer(proposed)
  BY <1>7, WithActionsOfChains
<1> DEFINE last(chain) == CHOOSE k \in DOMAIN proposed :
               /\ proposed[k].chainId = chain
               /\ \A j \in DOMAIN proposed : proposed[j].chainId = chain => j <= k
<1>2. data = [chain \in {proposed[k].chainId : k \in DOMAIN proposed} |->
                 [txs |-> proposed[last(chain)].actions,
                  safeProxy |-> proposed[last(chain)].newConfig.safe]]
  BY <1>6, <1>7 DEF makeDeploymentData, WithActions
<1>3. ASSUME NEW k \in DOMAIN proposed
      PROVE  last(proposed[k].chainId) = k
  <2>1. \A j \in DOMAIN proposed : proposed[j].chainId = proposed[k].chainId => j = k
    BY <1>1 DEF ChainsDiffer
  <2>2. k <= k
    BY <1>1
  <2>3. \A j \in DOMAIN proposed : proposed[j].chainId = proposed[k].chainId => j <= k
    BY <2>1, <2>2
  <2> QED
    BY <2>1, <2>3
<1> HIDE DEF last
<1>4. ASSUME NEW k \in DOMAIN proposed
      PROVE  data[proposed[k].chainId].txs = proposed[k].actions
  <2>1. PICK chain : chain = proposed[k].chainId
    OBVIOUS
  <2>2. chain \in {proposed[j].chainId : j \in DOMAIN proposed}
    BY <2>1
  <2>3. data[chain] = [txs |-> proposed[last(chain)].actions,
                       safeProxy |-> proposed[last(chain)].newConfig.safe]
    BY <1>2, <2>2
  <2>4. data[chain].txs = proposed[last(chain)].actions
    BY <2>3
  <2> QED
    BY <1>3, <2>1, <2>4
<1>5. DOMAIN data = {proposed[k].chainId : k \in DOMAIN proposed}
  BY <1>2
<1> QED
  BY <1>4, <1>5, <1>6, <1>7

(* A chain has a leaf per transaction and one for the approval.            *)
LEMMA LeavesOfChain ==
    ASSUME NEW data, NEW chain \in DOMAIN data, data[chain].txs \in Nat,
           NEW tree, tree = makeSphinxMerkleTree(data)
    PROVE  Cardinality({leaf \in tree : leaf.chainId = chain}) = data[chain].txs + 1
<1>1. PICK n \in Nat : n = data[chain].txs
  OBVIOUS
<1> DEFINE leaves == {leaf \in tree : leaf.chainId = chain}
           Leaf(i) == [chainId |-> chain, index |-> i]
<1>2. leaves = {Leaf(i) : i \in 0 .. n}
  <2>1. ASSUME NEW leaf \in leaves PROVE leaf \in {Leaf(i) : i \in 0 .. n}
    <3>1. PICK other \in DOMAIN data : leaf \in {[chainId |-> other, index |-> i] :
                                                    i \in 0 .. data[other].txs}
      BY DEF makeSphinxMerkleTree
    <3>2. PICK i \in 0 .. data[other].txs : leaf = [chainId |-> other, index |-> i]
      BY <3>1
    <3>3. other = chain
      BY <3>2
    <3> QED
      BY <1>1, <3>2, <3>3
  <2>2. ASSUME NEW i \in 0 .. n PROVE Leaf(i) \in leaves
    <3>1. Leaf(i) \in {[chainId |-> chain, index |-> j] : j \in 0 .. data[chain].txs}
      BY <1>1
    <3>2. Leaf(i) \in tree
      BY <3>1, Zenon DEF makeSphinxMerkleTree
    <3> QED
      BY <3>2
  <2> QED
    BY <2>1, <2>2
<1>3. PICK seq : seq = [i \in 1 .. n + 1 |-> Leaf(i - 1)]
  OBVIOUS
<1>4. /\ seq \in Seq(leaves) /\ Len(seq) = n + 1 /\ DOMAIN seq = 1 .. n + 1
      /\ \A i \in 1 .. n + 1 : seq[i] = Leaf(i - 1)
  <2>1. \A i \in 1 .. n + 1 : Leaf(i - 1) \in leaves
    BY <1>2
  <2> HIDE DEF leaves, Leaf
  <2> QED
    BY <1>3, <2>1
<1>5. ToSet(seq) = leaves
  <2>1. \A i \in 0 .. n : i + 1 \in 1 .. n + 1 /\ (i + 1) - 1 = i
    OBVIOUS
  <2>2. \A i \in 0 .. n : seq[i + 1] = Leaf(i)
    <3> HIDE DEF Leaf
    <3> QED
      BY <1>4, <2>1
  <2>3. ASSUME NEW leaf \in leaves PROVE leaf \in ToSet(seq)
    <3>1. PICK i \in 0 .. n : leaf = Leaf(i)
      BY <1>2
    <3>2. leaf = seq[i + 1] /\ i + 1 \in DOMAIN seq
      BY <1>4, <2>1, <2>2, <3>1
    <3> QED
      BY <3>2 DEF ToSet
  <2> QED
    BY <1>4, <2>3 DEF ToSet
<1>6. \A i, j \in DOMAIN seq : seq[i] = seq[j] => i = j
  <2>1. \A i \in DOMAIN seq : seq[i].index = i - 1
    BY <1>4
  <2>2. ASSUME NEW i \in DOMAIN seq, NEW j \in DOMAIN seq, seq[i] = seq[j]
        PROVE  i = j
    <3>1. i - 1 = j - 1
      BY <2>1, <2>2
    <3>2. i \in Nat /\ j \in Nat
      BY <1>4
    <3> HIDE DEF leaves, Leaf
    <3> QED
      BY <3>1, <3>2
  <2> QED
    BY <2>2
<1> QED
  BY <1>1, <1>4, <1>5, <1>6, DistinctCardinality

(* The preview of networks of different chains shows every network.        *)
LEMMA PreviewShowsAll ==
    ASSUME NEW configs \in Seq(Info), ChainsDiffer(configs), NEW n \in ToSet(configs),
           NEW diff, diff = getPreview(configs)
    PROVE  {g \in diff : n.chainId \in g.networks /\ g.actions = n.actions} # {}
<1>1. PICK shown : shown = {k \in DOMAIN configs :
          \A j \in k + 1 .. Len(configs) : configs[j].chainId # configs[k].chainId}
  OBVIOUS
<1>2. PICK k \in DOMAIN configs : n = configs[k]
  BY DEF ToSet
<1>3. k \in shown
  <2>1. ASSUME NEW j \in k + 1 .. Len(configs), configs[j].chainId = configs[k].chainId
        PROVE  FALSE
    <3>1. j \in DOMAIN configs /\ j # k
      BY <1>2
    <3> QED
      BY <1>2, <2>1, <3>1 DEF ChainsDiffer
  <2> QED
    BY <1>1, <1>2, <2>1
<1>4. PICK networks : networks = {configs[j].chainId : j \in {i \in shown :
                                             configs[i].actions = configs[k].actions}}
  OBVIOUS
<1>5. n.chainId \in networks
  BY <1>2, <1>3, <1>4
<1>6. diff = {[actions |-> configs[x].actions,
               networks |-> {configs[j].chainId : j \in {i \in shown :
                                             configs[i].actions = configs[x].actions}}] :
                 x \in shown}
  BY <1>1, Zenon DEF getPreview
<1>7. [actions |-> configs[k].actions, networks |-> networks] \in diff
  BY <1>3, <1>4, <1>6, Zenon
<1>8. PICK g : g = [actions |-> configs[k].actions, networks |-> networks]
  OBVIOUS
<1>9. g \in diff /\ n.chainId \in g.networks /\ g.actions = n.actions
  BY <1>2, <1>5, <1>7, <1>8
<1> QED
  BY <1>9

(* The tree has leaves for a chain exactly if data has it.                 *)
LEMMA ChainsOfTree ==
    ASSUME NEW data, \A chain \in DOMAIN data : data[chain].txs \in Nat,
           NEW tree, tree = makeSphinxMerkleTree(data)
    PROVE  /\ {leaf.chainId : leaf \in tree} = DOMAIN data
           /\ \A chain \in DOMAIN data : getProjectDeploymentForChain(tree, chain)
<1>1. ASSUME NEW chain \in DOMAIN data
      PROVE  [chainId |-> chain, index |-> 0] \in tree
  <2>1. 0 \in 0 .. data[chain].txs
    OBVIOUS
  <2>2. [chainId |-> chain, index |-> 0] \in
            {[chainId |-> chain, index |-> i] : i \in 0 .. data[chain].txs}
    BY <2>1, Zenon
  <2> QED
    BY <2>2, Zenon DEF makeSphinxMerkleTree
<1>2. ASSUME NEW leaf \in tree
      PROVE  leaf.chainId \in DOMAIN data
  <2>1. PICK chain \in DOMAIN data :
            leaf \in {[chainId |-> chain, index |-> i] : i \in 0 .. data[chain].txs}
    BY DEF makeSphinxMerkleTree
  <2>2. leaf.chainId = chain
    BY <2>1
  <2> QED
    BY <2>2
<1>3. ASSUME NEW chain \in DOMAIN data
      PROVE  \E leaf \in tree : leaf.chainId = chain
  <2>1. PICK leaf : leaf = [chainId |-> chain, index |-> 0]
    OBVIOUS
  <2>2. leaf \in tree /\ leaf.chainId = chain
    BY <1>1, <2>1
  <2> QED
    BY <2>2
<1> QED
  BY <1>1, <1>2, <1>3 DEF getProjectDeploymentForChain

(* A request on networks of different chains is complete.                  *)
LEMMA RequestIsComplete ==
    ASSUME DistinctChains, Inv, NEW c \in Commands, command[c].pc = "relay",
           NEW p, p = ProposalRequest(c)
    PROVE  CompleteTree(p)
<1>1. PICK cmd : cmd = command[c]
  OBVIOUS
<1>2. PICK configs : configs = cmd.collected
  OBVIOUS
<1>3. PICK proposed : proposed = WithActions(configs)
  OBVIOUS
<1>4. PICK data : data = makeDeploymentData(configs)
  OBVIOUS
<1>5. PICK tree : tree = makeSphinxMerkleTree(data)
  OBVIOUS
<1>6. configs \in Seq(Info) /\ CommandOK(cmd)
  BY <1>1, <1>2, RelayingCommand
<1>7. ChainsDiffer(configs)
  BY <1>2, <1>6 DEF CommandOK, NoRepetition, ChainsDiffer
<1>8. /\ p.deploymentConfigId.networkConfigs = configs
      /\ p.deploymentConfigId.merkleTree = tree
      /\ p.diff = getPreview(configs)
  BY <1>1, <1>2, <1>4, <1>5, RequestParts, Zenon
<1>9. p.chainStatus = [k \in DOMAIN proposed |->
          [chainId |-> proposed[k].chainId, numLeaves |-> proposed[k].actions + 1]]
  <2>1. proposed = WithActions(command[c].collected)
    BY <1>1, <1>2, <1>3
  <2> QED
    BY <2>1, RequestParts
<1>10. p.projectDeployments =
           {n \in ToSet(proposed) : getProjectDeploymentForChain(tree, n.chainId)}
  BY <1>1, <1>2, <1>3, <1>4, <1>5, RequestParts, Zenon
<1>11. proposed \in Seq(Info) /\ NoRepetition(proposed)
  BY <1>3, <1>6, <1>7, WithActionsOfChains
<1>12. /\ DOMAIN data = {proposed[k].chainId : k \in DOMAIN proposed}
       /\ \A k \in DOMAIN proposed : data[proposed[k].chainId].txs = proposed[k].actions
  BY <1>3, <1>4, <1>6, <1>7, DataOfChains
<1>13. ASSUME NEW k \in DOMAIN proposed PROVE proposed[k].actions \in Nat
  <2>1. proposed[k] \in Info
    BY <1>11
  <2> QED
    BY <2>1 DEF Info
<1>14. \A chain \in DOMAIN data : data[chain].txs \in Nat
  BY <1>12, <1>13
<1>15. /\ {leaf.chainId : leaf \in tree} = DOMAIN data
       /\ \A chain \in DOMAIN data : getProjectDeploymentForChain(tree, chain)
  BY <1>5, <1>14, ChainsOfTree
<1>16. PICK status : status = p.chainStatus
  OBVIOUS
<1>17. /\ DOMAIN status = DOMAIN proposed
       /\ \A k \in DOMAIN proposed : /\ status[k].chainId = proposed[k].chainId
                                      /\ status[k].numLeaves = proposed[k].actions + 1
  BY <1>9, <1>16
<1>18. {status[k].chainId : k \in DOMAIN status} = {leaf.chainId : leaf \in tree}
  <2>1. {status[k].chainId : k \in DOMAIN status} = {proposed[k].chainId : k \in DOMAIN proposed}
    BY <1>17
  <2> QED
    BY <1>12, <1>15, <2>1, Zenon
<1>19. ASSUME NEW k \in DOMAIN status
       PROVE  status[k].numLeaves =
                  Cardinality({leaf \in tree : leaf.chainId = status[k].chainId})
  <2>1. PICK chain : chain = status[k].chainId
    OBVIOUS
  <2>2. chain \in DOMAIN data /\ data[chain].txs = proposed[k].actions
    BY <1>12, <1>17, <2>1
  <2>3. Cardinality({leaf \in tree : leaf.chainId = chain}) = data[chain].txs + 1
    BY <1>5, <1>14, <2>2, LeavesOfChain
  <2> QED
    BY <1>17, <2>1, <2>2, <2>3, Zenon
<1>20. Cardinality(p.projectDeployments) = Len(status)
  <2>1. \A n \in ToSet(proposed) : getProjectDeploymentForChain(tree, n.chainId)
    BY <1>12, <1>15 DEF ToSet
  <2>2. p.projectDeployments = ToSet(proposed)
    BY <1>10, <2>1
  <2>3. Cardinality(ToSet(proposed)) = Len(proposed)
    BY <1>11, DistinctCardinality DEF NoRepetition
  <2>4. Len(status) = Len(proposed)
    BY <1>9, <1>11, <1>16
  <2> QED
    BY <2>2, <2>3, <2>4
<1>21. \A n \in ToSet(configs) :
           {g \in p.diff : n.chainId \in g.networks /\ g.actions = n.actions} # {}
  BY <1>6, <1>7, <1>8, PreviewShowsAll
<1>22. PICK entry : entry = p.deploymentConfigId
  OBVIOUS
<1>23. entry.merkleTree = tree /\ entry.networkConfigs = configs
  BY <1>8, <1>22
<1>24. CompleteTree(p) =
          (/\ {status[k].chainId : k \in DOMAIN status} = {leaf.chainId : leaf \in tree}
           /\ \A k \in DOMAIN status :
                status[k].numLeaves =
                    Cardinality({leaf \in tree : leaf.chainId = status[k].chainId})
           /\ Cardinality(p.projectDeployments) = Len(status)
           /\ \A n \in ToSet(configs) :
                {g \in p.diff : n.chainId \in g.networks /\ g.actions = n.actions} # {})
  BY <1>16, <1>22, <1>23 DEF CompleteTree
<1> QED
  BY <1>18, <1>19, <1>20, <1>21, <1>24, Zenon

-----------------------------------------------------------------------------
(* Who sends a request has uploaded the deployment config before.          *)
LEMMA RequestIsStored ==
    ASSUME Inv, NEW c \in Commands, command[c].pc = "relay", NEW p, p = ProposalRequest(c)
    PROVE  p.deploymentConfigId \in stored
<1>1. PICK cmd : cmd = command[c]
  OBVIOUS
<1>2. makeDeploymentConfig(cmd.collected) \in stored
  BY <1>1, RelayingCommand
<1>3. p.deploymentConfigId = makeDeploymentConfig(cmd.collected)
  BY <1>1, RequestParts, Zenon
<1> QED
  BY <1>2, <1>3

(* A step adds at most the request of a command that relays one, and the   *)
(* website forgets nothing.                                                *)
LEMMA NewRequests ==
    ASSUME [Next]_vars
    PROVE  /\ stored \subseteq stored'
           /\ \A p \in proposals' : \/ p \in proposals
                                   \/ \E c \in Commands : /\ command[c].pc = "relay"
                                                          /\ p = ProposalRequest(c)
<1>1. CASE stored \subseteq stored' /\ proposals' = proposals
  BY <1>1
<1>2. ASSUME NEW c \in Commands, relayProposal(c)
      PROVE  /\ stored \subseteq stored'
             /\ \A p \in proposals' : p \in proposals \/ p = ProposalRequest(c)
             /\ command[c].pc = "relay"
  BY <1>2 DEF relayProposal
<1>3. \A config \in Configs : EditScript(config) => UNCHANGED <<stored, proposals>>
  BY DEF EditScript, Files
<1>4. ASSUME NEW c \in Commands, NEW mode, NEW confirm, NEW networks, NEW sig,
             StartPropose(c, mode, confirm, networks, sig)
             \/ StartDeploy(c, confirm, networks, sig)
      PROVE  UNCHANGED <<stored, proposals>>
  <2>1. UNCHANGED Files
    BY <1>4, Zenon DEF StartPropose, StartDeploy
  <2> QED
    BY <2>1 DEF Files
<1>5. ASSUME NEW c \in Commands,
             \/ Configure(c) \/ Validate(c) \/ ReadInfo(c) \/ Build(c) \/ Agree(c) \/ Exit(c)
      PROVE  UNCHANGED <<stored, proposals>>
  <2>1. UNCHANGED Files
    BY <1>5, Zenon DEF Configure, Validate, ReadInfo, Build, Agree, Exit
  <2> QED
    BY <2>1 DEF Files
<1>6. ASSUME NEW c \in Commands, RemoveInfo(c) \/ Forge(c)
      PROVE  UNCHANGED <<stored, proposals>>
  BY <1>6 DEF RemoveInfo, Forge
<1>7. ASSUME NEW c \in Commands, Store(c) \/ Deploy(c)
      PROVE  stored \subseteq stored' /\ proposals' = proposals
  <2>1. Deploy(c) => UNCHANGED <<stored, proposals>>
    BY DEF Deploy
  <2>2. Store(c) => proposals' = proposals /\ (storeDeploymentConfig(c) \/ stored' = stored)
    BY DEF Store
  <2> QED
    BY <1>7, <2>1, <2>2 DEF storeDeploymentConfig
<1>8. UNCHANGED vars => UNCHANGED <<stored, proposals>>
  BY DEF vars
<1>9. ASSUME UNCHANGED <<stored, proposals>>
      PROVE  stored \subseteq stored' /\ proposals' = proposals
  BY <1>9
<1>10. [Next]_vars => \/ UNCHANGED <<stored, proposals>>
                      \/ stored \subseteq stored' /\ proposals' = proposals
                      \/ \E c \in Commands : relayProposal(c)
  BY <1>3, <1>4, <1>5, <1>6, <1>7, <1>8, Zenon DEF Next
<1> QED
  BY <1>1, <1>2, <1>9, <1>10

(* As long as no other command of the project calls Forge at the same      *)
(* time, a proposal is about one project, Safe and module on all its       *)
(* networks, and they are of the type it says, however the script was      *)
(* edited; and the Safe it names is theirs, unless the script was edited   *)
(* between propose/index.ts:300 and the first run at 124.                  *)
THEOREM ProposesAsConfigured == Spec /\ []Alone => []ProposedAsConfigured
<1>1. ProposedAsConfigured = \A p \in proposals : TruthfulRequest(p)
  BY Zenon DEF ProposedAsConfigured, TruthfulRequest
<1>2. Init => ProposedAsConfigured
  BY DEF Init, ProposedAsConfigured
<1>3. Inv /\ ProposedAsConfigured /\ [Next]_vars => ProposedAsConfigured'
  <2> SUFFICES ASSUME Inv, ProposedAsConfigured, [Next]_vars PROVE ProposedAsConfigured'
    OBVIOUS
  <2>1. ASSUME NEW p \in proposals' PROVE TruthfulRequest(p)
    BY <1>1, NewRequests, RequestIsTruthful
  <2> QED
    BY <2>1, Zenon DEF ProposedAsConfigured, TruthfulRequest
<1> QED
  BY <1>2, <1>3, InitInv, NextInv, PTL DEF Spec

(* Under the same condition, and if no two networks are the same chain,    *)
(* the website gets all that it needs to execute a proposal: the stored    *)
(* deployment config, and a request that names every chain of its tree     *)
(* with all its leaves, with a preview that shows every network.           *)
THEOREM ProposesCompleteTrees ==
    ASSUME DistinctChains PROVE Spec /\ []Alone => []ProposedTreeIsComplete
<1>1. ASSUME NEW p, p.deploymentConfigId \in stored', CompleteTree(p)
      PROVE  LET tree == p.deploymentConfigId.merkleTree
             IN /\ p.deploymentConfigId \in stored'
                /\ {p.chainStatus[k].chainId : k \in DOMAIN p.chainStatus} =
                       {leaf.chainId : leaf \in tree}
                /\ \A k \in DOMAIN p.chainStatus :
                       p.chainStatus[k].numLeaves =
                           Cardinality({leaf \in tree : leaf.chainId = p.chainStatus[k].chainId})
                /\ Cardinality(p.projectDeployments) = Len(p.chainStatus)
                /\ \A n \in ToSet(p.deploymentConfigId.networkConfigs) :
                       {g \in p.diff : n.chainId \in g.networks /\ g.actions = n.actions} # {}
  BY <1>1, Zenon DEF CompleteTree
<1>2. Init => ProposedTreeIsComplete
  BY DEF Init, ProposedTreeIsComplete
<1>3. Inv /\ ProposedTreeIsComplete /\ [Next]_vars => ProposedTreeIsComplete'
  <2> SUFFICES ASSUME Inv, ProposedTreeIsComplete, [Next]_vars PROVE ProposedTreeIsComplete'
    OBVIOUS
  <2>1. ASSUME NEW p \in proposals PROVE p.deploymentConfigId \in stored /\ CompleteTree(p)
    BY Zenon DEF ProposedTreeIsComplete, CompleteTree
  <2>2. ASSUME NEW p \in proposals' PROVE p.deploymentConfigId \in stored' /\ CompleteTree(p)
    <3>1. p.deploymentConfigId \in stored /\ CompleteTree(p)
      BY <2>1, NewRequests, RequestIsComplete, RequestIsStored
    <3> QED
      BY <3>1, NewRequests
  <2> QED
    BY <1>1, <2>2, Zenon DEF ProposedTreeIsComplete
<1> QED
  BY <1>2, <1>3, InitInv, NextInv, PTL DEF Spec
=============================================================================
