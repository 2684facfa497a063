------------------------- MODULE CollectionProofs -------------------------
(***************************************************************************)
(* Theorems about the way from a script to the leaves that are signed, for *)
(* any project, script and networks: the search for artifacts, the actions *)
(* of a network, the Merkle tree.                                          *)
(***************************************************************************)
EXTENDS BuildInfoCache, Collection, MerkleTreeLoop, SelectionProofs, SequenceTheorems

-----------------------------------------------------------------------------
(* The commands *)

Fields == {"pc", "inits", "cache", "resolved", "configArtifacts", "raced"}

IsCommand(c) == c = [x \in Fields |-> c[x]]

CommandsOK ==
    /\ command = [p \in Commands |-> command[p]]
    /\ \A p \in Commands :
          /\ IsCommand(command[p])
          /\ command[p].raced \in BOOLEAN
          /\ command[p].inits \in Seq(InitCode)

(* An idle command.                                                        *)
LEMMA IdleCommand ==
    /\ IsCommand(Idle) /\ Idle.pc = "idle" /\ Idle.raced = FALSE
    /\ Idle.inits = <<>> /\ Idle.inits \in Seq(InitCode)
<1>1. <<>> \in Seq(InitCode)
  OBVIOUS
<1>2. Idle.pc = "idle" /\ Idle.raced = FALSE /\ Idle.inits = <<>>
  BY DEF Idle
<1>3. IsCommand(Idle)
  BY DEF Idle, IsCommand, Fields
<1> QED
  BY <1>1, <1>2, <1>3

(* One command goes on.                                                    *)
LEMMA OneCommand ==
    ASSUME CommandsOK, NEW p \in Commands, NEW c, IsCommand(c),
           command' = [command EXCEPT ![p] = c]
    PROVE  /\ command'[p] = c /\ \A q \in Commands : q # p => command'[q] = command[q]
           /\ c.raced \in BOOLEAN /\ c.inits \in Seq(InitCode) => CommandsOK'
<1>1. command'[p] = c /\ \A q \in Commands : q # p => command'[q] = command[q]
  BY DEF CommandsOK
<1>2. command' = [q \in Commands |-> command'[q]]
  BY DEF CommandsOK
<1>3. ASSUME c.raced \in BOOLEAN, c.inits \in Seq(InitCode), NEW q \in Commands
      PROVE  /\ IsCommand(command'[q])
             /\ command'[q].raced \in BOOLEAN
             /\ command'[q].inits \in Seq(InitCode)
  <2>1. CASE q = p
    BY <1>1, <1>3, <2>1
  <2>2. CASE q # p
    BY <1>1, <2>2 DEF CommandsOK
  <2> QED
    BY <2>1, <2>2
<1>4. c.raced \in BOOLEAN /\ c.inits \in Seq(InitCode) => CommandsOK'
  BY <1>2, <1>3 DEF CommandsOK
<1> QED
  BY <1>1, <1>4

(* It is disturbed, or not.                                                *)
LEMMA SetRaced ==
    ASSUME NEW c, IsCommand(c), NEW b
    PROVE  LET d == [c EXCEPT !.raced = b]
           IN IsCommand(d) /\ d.raced = b /\ d.pc = c.pc /\ d.inits = c.inits
  BY DEF IsCommand, Fields

(* Every command that runs is disturbed.                                   *)
LEMMA RacedCommands ==
    ASSUME CommandsOK
    PROVE  /\ Raced = [p \in Commands |-> Raced[p]]
           /\ \A p \in Commands :
                 /\ IsCommand(Raced[p]) /\ Raced[p].pc = command[p].pc
                 /\ Raced[p].raced = (command[p].pc # "idle")
                 /\ Raced[p].inits \in Seq(InitCode)
<1>1. ASSUME NEW p \in Commands
      PROVE  /\ IsCommand(Raced[p]) /\ Raced[p].pc = command[p].pc
             /\ Raced[p].raced = (command[p].pc # "idle")
             /\ Raced[p].inits \in Seq(InitCode)
  <2>1. PICK c, b : c = command[p] /\ b = (command[p].pc # "idle")
    OBVIOUS
  <2>2. IsCommand(c) /\ c.inits \in Seq(InitCode)
    BY <2>1 DEF CommandsOK
  <2>3. Raced[p] = [c EXCEPT !.raced = b]
    BY <2>1 DEF Raced
  <2>4. /\ IsCommand([c EXCEPT !.raced = b]) /\ [c EXCEPT !.raced = b].raced = b
        /\ [c EXCEPT !.raced = b].pc = c.pc /\ [c EXCEPT !.raced = b].inits = c.inits
    BY <2>2, SetRaced
  <2> QED
    BY <2>1, <2>2, <2>3, <2>4, Zenon
<1>2. Raced = [p \in Commands |-> Raced[p]]
  BY DEF Raced
<1> QED
  BY <1>1, <1>2

-----------------------------------------------------------------------------
(* The index and the folder *)

(* Files have a time, at most the clock; what they tell of a name is code  *)
(* that it compiles to, and it has an artifact since.                      *)
FolderOK ==
    /\ clock \in Nat
    /\ buildInfos = [f \in DOMAIN buildInfos |-> buildInfos[f]]
    /\ \A f \in DOMAIN buildInfos :
          /\ buildInfos[f] \in Nat /\ buildInfos[f] <= clock
          /\ DOMAIN f \subseteq Names
          /\ \A n \in DOMAIN f : f[n] \in Versions[n] /\ artifact[n] # None

SourcesOK ==
    /\ source = [n \in Names |-> source[n]] /\ artifact = [n \in Names |-> artifact[n]]
    /\ \A n \in Names : /\ source[n] \in Versions[n]
                        /\ artifact[n] # None => artifact[n] \in Versions[n]

(* After the look at the folder the index is the folder.                   *)
LEMMA IndexIsFolder ==
    ASSUME NEW cached, NEW files, files = [f \in DOMAIN files |-> files[f]]
    PROVE  UpdateCache(cached, files) = files
<1> DEFINE kept == IF Cardinality(DOMAIN files) = 1 /\ DOMAIN files \cap DOMAIN cached = {}
                   THEN <<>>
                   ELSE RestrictTo(cached, DOMAIN files)
<1>1. DOMAIN kept \subseteq DOMAIN files
  <2>1. DOMAIN <<>> = {}
    OBVIOUS
  <2>2. DOMAIN RestrictTo(cached, DOMAIN files) \subseteq DOMAIN files
    BY DEF RestrictTo
  <2> QED
    BY <2>1, <2>2
<1> HIDE DEF kept
<1>2. DOMAIN kept \cup DOMAIN files = DOMAIN files
  BY <1>1
<1>3. UpdateCache(cached, files) = [f \in DOMAIN kept \cup DOMAIN files |-> files[f]]
  BY DEF UpdateCache, kept
<1> QED
  BY <1>2, <1>3

(* The most recent file with an init code.                                 *)
LEMMA LookupResult ==
    ASSUME NEW cache, NEW bound \in Nat, NEW init,
           \A f \in DOMAIN cache : cache[f] \in Nat /\ cache[f] <= bound,
           FilesWith(cache, init) # {}
    PROVE  /\ Lookup(cache, init).file \in DOMAIN cache
           /\ Lookup(cache, init).name \in DOMAIN Lookup(cache, init).file
           /\ isInitCodeMatch(init, Lookup(cache, init).file[Lookup(cache, init).name])
<1>1. PICK F : F = FilesWith(cache, init)
  OBVIOUS
<1>2. F # {} /\ F \subseteq DOMAIN cache
  BY <1>1 DEF FilesWith
<1> DEFINE T == {bound - cache[f] : f \in F}
<1>3. T \subseteq Nat /\ T # {}
  <2>1. \A f \in F : bound - cache[f] \in Nat
    BY <1>2
  <2> QED
    BY <1>2, <2>1
<1>4. PICK m \in T : \A n \in T : m <= n
  BY <1>3, LeastNumber
<1>5. PICK f \in F : m = bound - cache[f]
  BY <1>4
<1>6. \A g \in F : cache[f] >= cache[g]
  <2>1. ASSUME NEW g \in F PROVE cache[f] >= cache[g]
    <3>1. bound - cache[g] \in T
      OBVIOUS
    <3>2. bound - cache[f] <= bound - cache[g]
      BY <1>4, <1>5, <3>1
    <3>3. cache[f] \in Nat /\ cache[g] \in Nat
      BY <1>2
    <3> HIDE DEF T
    <3> QED
      BY <3>2, <3>3
  <2> QED
    BY <2>1
<1>7. PICK file : file = CHOOSE x \in F : \A g \in F : cache[x] >= cache[g]
  OBVIOUS
<1>8. file \in F
  BY <1>6, <1>7
<1>9. \E n \in DOMAIN file : isInitCodeMatch(init, file[n])
  BY <1>1, <1>8 DEF FilesWith
<1>10. PICK name : name = CHOOSE n \in DOMAIN file : isInitCodeMatch(init, file[n])
  OBVIOUS
<1>11. name \in DOMAIN file /\ isInitCodeMatch(init, file[name])
  BY <1>9, <1>10
<1>12. Lookup(cache, init) = [file |-> file, name |-> name]
  BY <1>1, <1>7, <1>10 DEF Lookup
<1>13. Lookup(cache, init).file = file /\ Lookup(cache, init).name = name
  BY <1>12
<1> QED
  BY <1>2, <1>8, <1>11, <1>13

(* A name that has an artifact has its own.                                *)
LEMMA OwnArtifact ==
    ASSUME NEW n \in Names, artifact[n] # None
    PROVE  readContractArtifact(n) = n
<1>1. /\ \A m \in Names : Len(Place[m]) \in Nat
      /\ IsSuffix(Place[n], Path[n])
      /\ \A m \in Names : n # m /\ IsSuffix(Place[m], Path[n]) => Len(Place[m]) < Len(Place[n])
  BY BuildInfoCacheAssumption
<1> DEFINE Candidate(m) == artifact[m] # None /\ IsSuffix(Place[m], Path[n])
           Deepest(m) == \A o \in Names : Candidate(o) => Len(Place[m]) >= Len(Place[o])
<1>2. Candidate(n)
  BY <1>1
<1>3. Deepest(n)
  <2>1. ASSUME NEW o \in Names, Candidate(o) PROVE Len(Place[n]) >= Len(Place[o])
    <3>1. o = n \/ Len(Place[o]) < Len(Place[n])
      BY <1>1, <2>1
    <3> QED
      BY <1>1, <3>1
  <2> QED
    BY <2>1
<1>4. ASSUME NEW m \in Names, Candidate(m), Deepest(m) PROVE m = n
  <2>1. Len(Place[m]) >= Len(Place[n])
    BY <1>2, <1>4
  <2>2. m = n \/ Len(Place[m]) < Len(Place[n])
    BY <1>1, <1>4
  <2> QED
    BY <1>1, <2>1, <2>2
<1>5. readContractArtifact(n) = CHOOSE m \in Names : Candidate(m) /\ Deepest(m)
  BY DEF readContractArtifact
<1> HIDE DEF Candidate, Deepest
<1> QED
  BY <1>2, <1>3, <1>4, <1>5

(* A compilation keeps the folder and the artifacts in order.              *)
LEMMA WriteResult ==
    ASSUME FolderOK, SourcesOK, NEW dirty \in SUBSET Names, NEW files,
           files = <<>> \/ files = buildInfos, Write(dirty, files), source' = source
    PROVE  /\ FolderOK' /\ SourcesOK'
           /\ \A n \in Names : artifact'[n] = IF n \in dirty THEN source[n] ELSE artifact[n]
<1>1. PICK file : file = [n \in dirty |-> source[n]]
  OBVIOUS
<1>2. /\ clock' = clock + 1 /\ clock \in Nat /\ clock' \in Nat
      /\ artifact' = [n \in Names |-> IF n \in dirty THEN source[n] ELSE artifact[n]]
  BY DEF Write, FolderOK
<1>3. /\ DOMAIN files \subseteq DOMAIN buildInfos
      /\ \A f \in DOMAIN files : files[f] = buildInfos[f]
  <2>1. DOMAIN <<>> = {}
    OBVIOUS
  <2> QED
    BY <2>1
<1>4. buildInfos' = [f \in {file} \cup DOMAIN files |-> IF f = file THEN clock' ELSE files[f]]
  BY <1>1 DEF Write
<1>5. DOMAIN buildInfos' = {file} \cup DOMAIN files
  BY <1>4
<1>6. \A n \in Names : source[n] \in Versions[n] /\ source[n] # None
  BY BuildInfoCacheAssumption DEF SourcesOK
<1>7. \A n \in Names : artifact'[n] = IF n \in dirty THEN source[n] ELSE artifact[n]
  BY <1>2
<1>8. \A n \in Names : artifact[n] # None => artifact'[n] # None
  BY <1>6, <1>7
<1>9. ASSUME NEW f \in DOMAIN buildInfos'
      PROVE  /\ buildInfos'[f] \in Nat /\ buildInfos'[f] <= clock'
             /\ DOMAIN f \subseteq Names
             /\ \A n \in DOMAIN f : f[n] \in Versions[n] /\ artifact'[n] # None
  <2>1. CASE f = file
    <3>1. buildInfos'[f] = clock'
      BY <1>4, <1>5, <2>1
    <3>2. DOMAIN f = dirty /\ \A n \in dirty : f[n] = source[n]
      BY <1>1, <2>1
    <3>3. \A n \in DOMAIN f : f[n] \in Versions[n] /\ artifact'[n] # None
      BY <1>6, <1>7, <3>2
    <3> QED
      BY <1>2, <3>1, <3>2, <3>3
  <2>2. CASE f # file
    <3>1. f \in DOMAIN buildInfos /\ buildInfos'[f] = buildInfos[f]
      BY <1>3, <1>4, <1>5, <2>2
    <3>2. /\ buildInfos[f] \in Nat /\ buildInfos[f] <= clock /\ DOMAIN f \subseteq Names
          /\ \A n \in DOMAIN f : f[n] \in Versions[n] /\ artifact[n] # None
      BY <3>1 DEF FolderOK
    <3>3. buildInfos'[f] \in Nat /\ buildInfos'[f] <= clock'
      BY <1>2, <3>1, <3>2
    <3>4. \A n \in DOMAIN f : f[n] \in Versions[n] /\ artifact'[n] # None
      BY <1>8, <3>2
    <3> QED
      BY <3>2, <3>3, <3>4
  <2> QED
    BY <2>1, <2>2
<1>10. FolderOK'
  <2>1. buildInfos' = [f \in DOMAIN buildInfos' |-> buildInfos'[f]]
    BY <1>4
  <2> QED
    BY <1>2, <1>9, <2>1 DEF FolderOK
<1>11. SourcesOK'
  <2>1. artifact' = [n \in Names |-> artifact'[n]]
    BY <1>2
  <2>2. \A n \in Names : artifact'[n] # None => artifact'[n] \in Versions[n]
    BY <1>7 DEF SourcesOK
  <2> QED
    BY <2>1, <2>2 DEF SourcesOK
<1> QED
  BY <1>7, <1>10, <1>11

-----------------------------------------------------------------------------
(* The invariant *)

(* What an undisturbed command has seen of the folder is still so.         *)
Sees(c, folder) ==
    /\ c.pc = "outdated" => c.raced
    /\ ~c.raced =>
          /\ c.pc = "resolve" => c.cache = folder
          /\ c.pc = "read" => \A k \in DOMAIN c.resolved : c.resolved[k].file \in DOMAIN folder

LookOK == \A p \in Commands : Sees(command[p], buildInfos)

Inv == CommandsOK /\ FolderOK /\ SourcesOK /\ LookOK

(* The first state.                                                        *)
LEMMA InitInv == Init => Inv
<1> SUFFICES ASSUME Init PROVE Inv
  OBVIOUS
<1>1. CommandsOK
  BY IdleCommand DEF Init, CommandsOK
<1>2. DOMAIN buildInfos = {} /\ buildInfos = [f \in DOMAIN buildInfos |-> buildInfos[f]]
  BY DEF Init
<1>3. FolderOK
  BY <1>2 DEF Init, FolderOK
<1>4. SourcesOK
  <2>1. /\ source \in [Names -> Codes] /\ \A n \in Names : source[n] \in Versions[n]
        /\ artifact = [n \in Names |-> None]
    BY DEF Init
  <2> QED
    BY <2>1 DEF SourcesOK
<1>5. LookOK
  BY IdleCommand DEF Init, LookOK, Sees
<1> QED
  BY <1>1, <1>3, <1>4, <1>5 DEF Inv

(* Who sees files change is disturbed.                                     *)
LEMMA DisturbedCommands ==
    ASSUME CommandsOK, command' = Raced
    PROVE  /\ CommandsOK'
           /\ \A p \in Commands : /\ command'[p].pc = command[p].pc
                                  /\ command'[p].raced <=> command[p].pc # "idle"
<1>1. /\ Raced = [p \in Commands |-> Raced[p]]
      /\ \A p \in Commands :
            /\ IsCommand(Raced[p]) /\ Raced[p].pc = command[p].pc
            /\ Raced[p].raced = (command[p].pc # "idle")
            /\ Raced[p].inits \in Seq(InitCode)
  BY RacedCommands
<1>2. \A p \in Commands : Raced[p].raced \in BOOLEAN
  BY <1>1
<1>3. CommandsOK'
  BY <1>1, <1>2, Zenon DEF CommandsOK
<1> QED
  BY <1>1, <1>3, Zenon

-----------------------------------------------------------------------------
(* The steps *)

(* The user edits.                                                         *)
LEMMA EditKeepsInv ==
    ASSUME Inv, NEW n \in Names, NEW code \in Codes, Edit(n, code) PROVE Inv'
<1>1. /\ UNCHANGED <<artifact, buildInfos, clock, command>>
      /\ source' = [source EXCEPT ![n] = code] /\ code \in Versions[n]
  BY DEF Edit
<1>2. CommandsOK' /\ LookOK'
  BY <1>1 DEF Inv, CommandsOK, LookOK
<1>3. FolderOK'
  BY <1>1 DEF Inv, FolderOK
<1>4. SourcesOK'
  <2>1. source' = [m \in Names |-> source'[m]] /\ artifact' = [m \in Names |-> artifact'[m]]
    BY <1>1 DEF Inv, SourcesOK
  <2>2. \A m \in Names : source'[m] \in Versions[m]
    BY <1>1 DEF Inv, SourcesOK
  <2> QED
    BY <1>1, <2>1, <2>2 DEF Inv, SourcesOK
<1> QED
  BY <1>2, <1>3, <1>4 DEF Inv

(* A command that runs when files change has nothing left to keep.         *)
LEMMA DisturbedLook ==
    ASSUME CommandsOK, LookOK, command' = Raced PROVE LookOK'
<1>1. \A p \in Commands : /\ command'[p].pc = command[p].pc
                          /\ command'[p].raced <=> command[p].pc # "idle"
  BY DisturbedCommands
<1> QED
  BY <1>1 DEF LookOK, Sees

(* The user compiles everything.                                           *)
LEMMA ForceCompileKeepsInv == ASSUME Inv, ForceCompile PROVE Inv'
<1>1. Write(Names, <<>>) /\ command' = Raced /\ source' = source
  BY DEF ForceCompile
<1>2. FolderOK' /\ SourcesOK'
  BY <1>1, WriteResult DEF Inv
<1>3. CommandsOK' /\ LookOK'
  BY <1>1, DisturbedCommands, DisturbedLook DEF Inv
<1> QED
  BY <1>2, <1>3 DEF Inv

(* The user deletes a build info.                                          *)
LEMMA DeleteKeepsInv ==
    ASSUME Inv, NEW file \in DOMAIN buildInfos, DeleteBuildInfo(file) PROVE Inv'
<1>1. /\ buildInfos' = RestrictTo(buildInfos, DOMAIN buildInfos \ {file})
      /\ command' = Raced /\ UNCHANGED <<source, artifact, clock>>
  BY DEF DeleteBuildInfo
<1>2. CommandsOK' /\ LookOK'
  BY <1>1, DisturbedCommands, DisturbedLook DEF Inv
<1>3. /\ buildInfos' = [f \in DOMAIN buildInfos \ {file} |-> buildInfos[f]]
      /\ DOMAIN buildInfos' = DOMAIN buildInfos \ {file}
      /\ \A f \in DOMAIN buildInfos' : buildInfos'[f] = buildInfos[f]
  <2>1. buildInfos' = [f \in DOMAIN buildInfos \cap (DOMAIN buildInfos \ {file}) |->
                          buildInfos[f]]
    BY <1>1 DEF RestrictTo
  <2>2. DOMAIN buildInfos \cap (DOMAIN buildInfos \ {file}) = DOMAIN buildInfos \ {file}
    OBVIOUS
  <2> QED
    BY <2>1, <2>2
<1>4. FolderOK'
  <2>1. buildInfos' = [f \in DOMAIN buildInfos' |-> buildInfos'[f]]
    BY <1>3
  <2>2. ASSUME NEW f \in DOMAIN buildInfos'
        PROVE  /\ buildInfos'[f] \in Nat /\ buildInfos'[f] <= clock'
               /\ DOMAIN f \subseteq Names
               /\ \A n \in DOMAIN f : f[n] \in Versions[n] /\ artifact'[n] # None
    <3>1. f \in DOMAIN buildInfos /\ buildInfos'[f] = buildInfos[f]
      BY <1>3, <2>2
    <3>2. clock' = clock /\ artifact' = artifact
      BY <1>1
    <3> QED
      BY <3>1, <3>2 DEF Inv, FolderOK
  <2>3. clock' \in Nat
    BY <1>1 DEF Inv, FolderOK
  <2> QED
    BY <2>1, <2>2, <2>3 DEF FolderOK
<1>5. SourcesOK'
  BY <1>1 DEF Inv, SourcesOK
<1> QED
  BY <1>2, <1>4, <1>5 DEF Inv

(* What a command looks up in the folder is in the folder.                 *)
LEMMA FolderLookup ==
    ASSUME Inv, NEW init, FilesWith(buildInfos, init) # {}
    PROVE  LET entry == Lookup(buildInfos, init)
           IN /\ entry.file \in DOMAIN buildInfos /\ entry.name \in DOMAIN entry.file
              /\ entry.name \in Names /\ artifact[entry.name] # None
              /\ isInitCodeMatch(init, entry.file[entry.name])
<1>1. clock \in Nat /\ \A f \in DOMAIN buildInfos : buildInfos[f] \in Nat /\ buildInfos[f] <= clock
  BY DEF Inv, FolderOK
<1>2. PICK entry : entry = Lookup(buildInfos, init)
  OBVIOUS
<1>3. /\ entry.file \in DOMAIN buildInfos /\ entry.name \in DOMAIN entry.file
      /\ isInitCodeMatch(init, entry.file[entry.name])
  BY <1>1, <1>2, LookupResult
<1>4. entry.name \in Names /\ artifact[entry.name] # None
  BY <1>3 DEF Inv, FolderOK
<1> QED
  BY <1>2, <1>3, <1>4

(* A command goes on, and nothing else changes.                            *)
LEMMA OneKeepsInv ==
    ASSUME Inv, NEW p \in Commands, NEW c, IsCommand(c), c.raced \in BOOLEAN,
           c.inits \in Seq(InitCode), command' = [command EXCEPT ![p] = c],
           Sees(c, buildInfos), UNCHANGED <<source, artifact, buildInfos, clock>>
    PROVE  Inv'
<1>1. /\ CommandsOK' /\ command'[p] = c
      /\ \A q \in Commands : q # p => command'[q] = command[q]
  BY OneCommand DEF Inv
<1>2. FolderOK' /\ SourcesOK'
  BY DEF Inv, FolderOK, SourcesOK
<1>3. LookOK'
  BY <1>1 DEF Inv, LookOK
<1> QED
  BY <1>1, <1>2, <1>3 DEF Inv

(* A command compiles.                                                     *)
LEMMA CompileKeepsInv ==
    ASSUME Inv, NEW p \in Commands, Compile(p) PROVE Inv'
<1> DEFINE dirty == {n \in Names : artifact[n] # source[n]}
           before == IF dirty = {} THEN command ELSE Raced
<1>1. PICK inits \in Scripts :
        command' = [before EXCEPT ![p] = [Idle EXCEPT !.pc = "index", !.inits = inits]]
  BY DEF Compile
<1>2. PICK c : c = [Idle EXCEPT !.pc = "index", !.inits = inits]
  OBVIOUS
<1>3. /\ IsCommand(c) /\ c.pc = "index" /\ c.inits \in Seq(InitCode) /\ c.raced = FALSE
  <2>1. inits \in Seq(InitCode)
    BY BuildInfoCacheAssumption
  <2> QED
    BY <1>2, <2>1, IdleCommand DEF IsCommand, Fields
<1>4. /\ source' = source
      /\ IF dirty = {} THEN UNCHANGED <<artifact, buildInfos, clock>>
         ELSE Write(dirty, buildInfos)
  BY DEF Compile
<1>5. Sees(c, buildInfos')
  BY <1>3 DEF Sees
<1>6. CASE dirty = {}
  <2>1. command' = [command EXCEPT ![p] = c]
    BY <1>1, <1>2, <1>6
  <2>2. Sees(c, buildInfos)
    BY <1>4, <1>5, <1>6
  <2> QED
    BY <1>3, <1>4, <1>6, <2>1, <2>2, OneKeepsInv
<1>7. CASE dirty # {}
  <2>1. Write(dirty, buildInfos)
    BY <1>4, <1>7
  <2>2. FolderOK' /\ SourcesOK'
    <3>1. dirty \in SUBSET Names
      OBVIOUS
    <3> HIDE DEF dirty
    <3> QED
      BY <1>4, <2>1, <3>1, WriteResult DEF Inv
  <2>3. /\ Raced = [q \in Commands |-> Raced[q]]
        /\ \A q \in Commands :
              /\ IsCommand(Raced[q]) /\ Raced[q].pc = command[q].pc
              /\ Raced[q].raced = (command[q].pc # "idle")
              /\ Raced[q].inits \in Seq(InitCode)
    BY RacedCommands DEF Inv
  <2>4. command' = [Raced EXCEPT ![p] = c]
    BY <1>1, <1>2, <1>7
  <2>5. /\ command' = [q \in Commands |-> command'[q]] /\ command'[p] = c
        /\ \A q \in Commands : q # p => command'[q] = Raced[q]
    BY <2>3, <2>4, Zenon
  <2>6. ASSUME NEW q \in Commands
        PROVE  /\ IsCommand(command'[q]) /\ command'[q].raced \in BOOLEAN
               /\ command'[q].inits \in Seq(InitCode) /\ Sees(command'[q], buildInfos')
    <3>1. CASE q = p
      BY <1>3, <1>5, <2>5, <3>1
    <3>2. CASE q # p
      <4>1. command'[q] = Raced[q]
        BY <2>5, <3>2
      <4>2. /\ command[q].pc = "outdated" => Raced[q].raced
            /\ Raced[q].raced \in BOOLEAN
        BY <2>3
      <4>3. Sees(Raced[q], buildInfos')
        BY <2>3, <4>2 DEF Sees
      <4> QED
        BY <2>3, <4>1, <4>2, <4>3
    <3> QED
      BY <3>1, <3>2
  <2>7. CommandsOK' /\ LookOK'
    BY <2>5, <2>6 DEF CommandsOK, LookOK
  <2> QED
    BY <2>2, <2>7 DEF Inv
<1> QED
  BY <1>6, <1>7

(* What a command is.                                                      *)
LEMMA CommandType ==
    ASSUME Inv, NEW p \in Commands
    PROVE  /\ IsCommand(command[p]) /\ command[p].raced \in BOOLEAN
           /\ command[p].inits \in Seq(InitCode)
  BY DEF Inv, CommandsOK

(* It looks at the folder.                                                 *)
LEMMA IndexKeepsInv ==
    ASSUME Inv, NEW p \in Commands, Index(p) PROVE Inv'
<1>1. PICK cache : cache = UpdateCache(cacheFile, buildInfos)
  OBVIOUS
<1>2. cache = buildInfos
  BY <1>1, IndexIsFolder DEF Inv, FolderOK
<1>3. PICK c : c = [command[p] EXCEPT !.pc = "resolve", !.cache = cache]
  OBVIOUS
<1>4. /\ command' = [command EXCEPT ![p] = c]
      /\ UNCHANGED <<source, artifact, buildInfos, clock>>
  BY <1>1, <1>3 DEF Index
<1>5. /\ IsCommand(c) /\ c.pc = "resolve" /\ c.cache = cache
      /\ c.raced = command[p].raced /\ c.inits = command[p].inits
  <2>1. PICK b : b = command[p]
    OBVIOUS
  <2>2. IsCommand(b)
    BY <2>1, CommandType
  <2> QED
    BY <1>3, <2>1, <2>2 DEF IsCommand, Fields
<1>6. Sees(c, buildInfos)
  BY <1>2, <1>5 DEF Sees
<1> QED
  BY <1>4, <1>5, <1>6, CommandType, OneKeepsInv

(* What a command looks up, and what it finds.                             *)
Known(c) == SelectIn(c.inits, {init \in InitCode : FilesWith(c.cache, init) # {}})
Entry(c, init) == [name |-> Lookup(c.cache, init).name, file |-> Lookup(c.cache, init).file,
                   code |-> artifact[readContractArtifact(Lookup(c.cache, init).name)]]
LookedUp(c) == [k \in DOMAIN Known(c) |-> Entry(c, Known(c)[k])]

(* It selects what some build info has.                                    *)
LEMMA KnownInits ==
    ASSUME NEW c, c.inits \in Seq(InitCode)
    PROVE  /\ ToSet(Known(c)) =
                {init \in InitCode : init \in ToSet(c.inits) /\ FilesWith(c.cache, init) # {}}
           /\ \A k \in DOMAIN Known(c) : Known(c)[k] \in ToSet(Known(c))
           /\ Known(c) \in Seq(InitCode)
<1>1. PICK S : S = {init \in InitCode : FilesWith(c.cache, init) # {}}
  OBVIOUS
<1>2. Known(c) = SelectIn(c.inits, S)
  BY <1>1 DEF Known
<1>3. ToSet(Known(c)) = ToSet(c.inits) \cap S
  BY <1>2, SelectInElements
<1>4. Known(c) \in Seq(InitCode)
  <2>1. Known(c) \in Seq(S) /\ S \subseteq InitCode
    BY <1>1, <1>2, SelectInType
  <2> HIDE DEF Known
  <2> QED
    BY <2>1
<1>5. \A k \in DOMAIN Known(c) : Known(c)[k] \in ToSet(Known(c))
  BY DEF ToSet
<1> QED
  BY <1>1, <1>3, <1>4, <1>5

(* It looks up its init codes.                                             *)
LEMMA ResolveKeepsInv ==
    ASSUME Inv, NEW p \in Commands, Resolve(p) PROVE Inv'
<1>1. PICK found : found = LookedUp(command[p])
  OBVIOUS
<1>2. PICK c : c = [command[p] EXCEPT !.pc = "read", !.resolved = found]
  OBVIOUS
<1>3. /\ command' = [command EXCEPT ![p] = c]
      /\ UNCHANGED <<source, artifact, buildInfos, clock>>
  BY <1>1, <1>2 DEF Resolve, LookedUp, Known, Entry
<1>4. /\ IsCommand(c) /\ c.pc = "read" /\ c.resolved = found
      /\ c.raced = command[p].raced /\ c.inits = command[p].inits
  <2>1. PICK b : b = command[p]
    OBVIOUS
  <2>2. IsCommand(b)
    BY <2>1, CommandType
  <2> QED
    BY <1>2, <2>1, <2>2 DEF IsCommand, Fields
<1>5. ASSUME ~c.raced, NEW k \in DOMAIN found PROVE found[k].file \in DOMAIN buildInfos
  <2>1. command[p].cache = buildInfos
    BY <1>4, <1>5 DEF Inv, LookOK, Sees, Resolve
  <2>2. k \in DOMAIN Known(command[p])
    BY <1>1 DEF LookedUp
  <2>3. PICK init : init = Known(command[p])[k]
    OBVIOUS
  <2>4. FilesWith(buildInfos, init) # {}
    BY <2>1, <2>2, <2>3, CommandType, KnownInits
  <2>5. Lookup(buildInfos, init).file \in DOMAIN buildInfos
    BY <2>4, FolderLookup
  <2>6. found[k].file = Lookup(buildInfos, init).file
    BY <1>1, <2>1, <2>2, <2>3 DEF LookedUp, Entry
  <2> QED
    BY <2>5, <2>6
<1>6. Sees(c, buildInfos)
  BY <1>4, <1>5 DEF Sees
<1> QED
  BY <1>3, <1>4, <1>6, CommandType, OneKeepsInv

(* It reads the build infos.                                               *)
LEMMA ReadKeepsInv ==
    ASSUME Inv, NEW p \in Commands, ReadBuildInfos(p) PROVE Inv'
<1>1. PICK missing : missing = {k \in DOMAIN command[p].resolved :
                                   command[p].resolved[k].file \notin DOMAIN buildInfos}
  OBVIOUS
<1>2. PICK pc : pc = IF missing # {} THEN "outdated" ELSE "write"
  OBVIOUS
<1>3. PICK c : c = [command[p] EXCEPT !.pc = pc]
  OBVIOUS
<1>4. /\ command' = [command EXCEPT ![p] = c]
      /\ UNCHANGED <<source, artifact, buildInfos, clock>>
  BY <1>1, <1>2, <1>3 DEF ReadBuildInfos
<1>5. /\ IsCommand(c) /\ c.pc = pc /\ c.raced = command[p].raced /\ c.inits = command[p].inits
  <2>1. PICK b : b = command[p]
    OBVIOUS
  <2>2. IsCommand(b)
    BY <2>1, CommandType
  <2> QED
    BY <1>3, <2>1, <2>2 DEF IsCommand, Fields
<1>6. missing # {} => command[p].raced
  BY <1>1 DEF Inv, LookOK, Sees, ReadBuildInfos
<1>7. Sees(c, buildInfos)
  BY <1>2, <1>5, <1>6 DEF Sees
<1> QED
  BY <1>4, <1>5, <1>7, CommandType, OneKeepsInv

(* What it returns.                                                        *)
Returned(r) ==
    LET names == {r[k].name : k \in DOMAIN r}
        last(n) == CHOOSE k \in DOMAIN r :
                       /\ r[k].name = n
                       /\ \A j \in DOMAIN r : r[j].name = n => j <= k
    IN [n \in names |-> r[last(n)]]

(* It saves the index and returns.                                         *)
LEMMA SaveKeepsInv ==
    ASSUME Inv, NEW p \in Commands, Save(p) PROVE Inv'
<1>1. PICK found : found = Returned(command[p].resolved)
  OBVIOUS
<1>2. PICK c : c = [command[p] EXCEPT !.pc = "done", !.cache = <<>>, !.resolved = <<>>,
                                      !.configArtifacts = found]
  OBVIOUS
<1>3. /\ command' = [command EXCEPT ![p] = c]
      /\ UNCHANGED <<source, artifact, buildInfos, clock>>
  BY <1>1, <1>2 DEF Save, Returned
<1>4. /\ IsCommand(c) /\ c.pc = "done"
      /\ c.raced = command[p].raced /\ c.inits = command[p].inits
  <2>1. PICK b : b = command[p]
    OBVIOUS
  <2>2. IsCommand(b)
    BY <2>1, CommandType
  <2> QED
    BY <1>2, <2>1, <2>2 DEF IsCommand, Fields
<1>5. Sees(c, buildInfos)
  BY <1>4 DEF Sees
<1> QED
  BY <1>3, <1>4, <1>5, CommandType, OneKeepsInv

(* It checks that the script links no library.                             *)
LEMMA CheckKeepsInv ==
    ASSUME Inv, NEW p \in Commands, CheckLibraries(p) PROVE Inv'
<1>1. PICK pc \in {"accepted", "refused"} :
        command' = [command EXCEPT ![p] = [command[p] EXCEPT !.pc = pc]]
  BY DEF CheckLibraries
<1>2. UNCHANGED <<source, artifact, buildInfos, clock>>
  BY DEF CheckLibraries
<1>3. PICK c : c = [command[p] EXCEPT !.pc = pc]
  OBVIOUS
<1>4. /\ IsCommand(c) /\ c.pc = pc /\ c.raced = command[p].raced /\ c.inits = command[p].inits
  <2>1. PICK b : b = command[p]
    OBVIOUS
  <2>2. IsCommand(b)
    BY <2>1, CommandType
  <2> QED
    BY <1>3, <2>1, <2>2 DEF IsCommand, Fields
<1>5. Sees(c, buildInfos)
  BY <1>4 DEF Sees
<1> QED
  BY <1>1, <1>2, <1>3, <1>4, <1>5, CommandType, OneKeepsInv

(* It ends.                                                                *)
LEMMA ExitKeepsInv ==
    ASSUME Inv, NEW p \in Commands, Exit(p) PROVE Inv'
<1>1. Sees(Idle, buildInfos) /\ Idle.raced \in BOOLEAN
  BY IdleCommand DEF Sees
<1>2. /\ command' = [command EXCEPT ![p] = Idle]
      /\ UNCHANGED <<source, artifact, buildInfos, clock>>
  BY DEF Exit
<1> QED
  BY <1>1, <1>2, IdleCommand, OneKeepsInv

(* Every step keeps the invariant.                                         *)
LEMMA NextKeepsInv == ASSUME Inv, [Next]_vars PROVE Inv'
<1>1. CASE UNCHANGED vars
  BY <1>1 DEF Inv, CommandsOK, FolderOK, SourcesOK, LookOK, vars
<1>2. CASE Next
  BY <1>2, EditKeepsInv, ForceCompileKeepsInv, DeleteKeepsInv, CompileKeepsInv,
     IndexKeepsInv, ResolveKeepsInv, ReadKeepsInv, SaveKeepsInv, CheckKeepsInv,
     ExitKeepsInv DEF Next
<1> QED
  BY <1>1, <1>2

(* A command fails because its build infos are outdated only if somebody   *)
(* deleted or rebuilt files while it ran (makeGetConfigArtifacts): an index*)
(* of an earlier command, of any age, is never the reason.                 *)
THEOREM OutdatedByOthers == Spec => []OutdatedOnlyIfRaced
<1>1. Inv => OutdatedOnlyIfRaced
  BY DEF Inv, LookOK, Sees, OutdatedOnlyIfRaced
<1> QED
  BY <1>1, InitInv, NextKeepsInv, PTL DEF Spec

-----------------------------------------------------------------------------
(* The artifacts are those of the script *)

(* What a script deploys is, at any time, the code of one contract only:   *)
(* Solidity hashes the sources and the name into it.                       *)
CodesTellNames ==
    \A inits \in Scripts : \A k \in DOMAIN inits : \A n, m \in Names :
        inits[k].code \in Versions[n] \cap Versions[m] => n = m

(* A command has, for contract n, a build info and the artifact, and both  *)
(* have the same code.                                                     *)
Explains(e, n, arts, folder) ==
    /\ n \in Names /\ e.file \in DOMAIN folder /\ n \in DOMAIN e.file
    /\ e.file[n] = e.code /\ e.code = arts[n]

(* It was found for each init code that a build info has.                  *)
FoundFor(found, inits, folder) ==
    \A k \in DOMAIN inits :
        FilesWith(folder, inits[k]) # {} => \E x \in DOMAIN found : found[x].code = inits[k].code

ResolvedOK(c, arts, folder) ==
    /\ Len(c.resolved) \in Nat /\ DOMAIN c.resolved = 1 .. Len(c.resolved)
    /\ \A k \in DOMAIN c.resolved : Explains(c.resolved[k], c.resolved[k].name, arts, folder)
    /\ FoundFor(c.resolved, c.inits, folder)

ReturnedOK(c, arts, folder) ==
    /\ IsFiniteSet(DOMAIN c.configArtifacts)
    /\ \A n \in DOMAIN c.configArtifacts : Explains(c.configArtifacts[n], n, arts, folder)
    /\ FoundFor(c.configArtifacts, c.inits, folder)

(* What the script deploys is what the artifacts have, or data.            *)
DeployedOwn(inits, arts) ==
    /\ inits \in Scripts
    /\ \A k \in DOMAIN inits : \/ \E n \in Names : arts[n] = inits[k].code
                               \/ inits[k].code \in Inline

Right(c, arts, folder) ==
    c.pc # "idle" /\ ~c.raced =>
        /\ DeployedOwn(c.inits, arts)
        /\ c.pc \in {"read", "write"} => ResolvedOK(c, arts, folder)
        /\ c.pc \in {"done", "accepted"} => ReturnedOK(c, arts, folder)

RightOK == \A p \in Commands : Right(command[p], artifact, buildInfos)

Truth == Inv /\ RightOK

(* A command goes on, and the files stay.                                  *)
LEMMA OneKeepsRight ==
    ASSUME Inv, RightOK, NEW p \in Commands, NEW c, IsCommand(c),
           command' = [command EXCEPT ![p] = c], Right(c, artifact, buildInfos),
           UNCHANGED <<artifact, buildInfos>>
    PROVE  RightOK'
<1>1. command'[p] = c /\ \A q \in Commands : q # p => command'[q] = command[q]
  BY OneCommand DEF Inv
<1> QED
  BY <1>1 DEF RightOK

(* Who is disturbed is promised nothing.                                   *)
LEMMA DisturbedRight ==
    ASSUME Inv, command' = Raced PROVE RightOK'
<1>1. \A p \in Commands : /\ command'[p].pc = command[p].pc
                          /\ command'[p].raced <=> command[p].pc # "idle"
  BY DisturbedCommands DEF Inv
<1> QED
  BY <1>1 DEF RightOK, Right

(* A command compiles: what the script deploys is in the artifacts.        *)
LEMMA CompileKeepsRight ==
    ASSUME Inv, RightOK, NEW p \in Commands, Compile(p) PROVE RightOK'
<1> DEFINE dirty == {n \in Names : artifact[n] # source[n]}
           before == IF dirty = {} THEN command ELSE Raced
<1>1. PICK inits \in Scripts :
        /\ \A k \in DOMAIN inits : \/ \E n \in Names : source[n] = inits[k].code
                                   \/ inits[k].code \in Inline
        /\ command' = [before EXCEPT ![p] = [Idle EXCEPT !.pc = "index", !.inits = inits]]
  BY DEF Compile
<1>2. PICK c : c = [Idle EXCEPT !.pc = "index", !.inits = inits]
  OBVIOUS
<1>3. IsCommand(c) /\ c.pc = "index" /\ c.inits = inits
  BY <1>2, IdleCommand DEF IsCommand, Fields
<1>4. /\ source' = source
      /\ IF dirty = {} THEN UNCHANGED <<artifact, buildInfos>> ELSE Write(dirty, buildInfos)
  BY DEF Compile
<1>5. \A n \in Names : artifact'[n] = source[n]
  <2>1. CASE dirty = {}
    BY <1>4, <2>1
  <2>2. CASE dirty # {}
    <3>1. artifact' = [n \in Names |-> IF n \in dirty THEN source[n] ELSE artifact[n]]
      BY <1>4, <2>2 DEF Write
    <3> QED
      BY <3>1
  <2> QED
    BY <2>1, <2>2
<1>6. DeployedOwn(c.inits, artifact')
  BY <1>1, <1>3, <1>5 DEF DeployedOwn
<1>7. Right(c, artifact', buildInfos')
  BY <1>3, <1>6 DEF Right
<1>8. CASE dirty = {}
  <2>1. command' = [command EXCEPT ![p] = c] /\ UNCHANGED <<artifact, buildInfos>>
    BY <1>1, <1>2, <1>4, <1>8
  <2>2. Right(c, artifact, buildInfos)
    BY <1>7, <2>1
  <2> QED
    BY <1>3, <2>1, <2>2, OneKeepsRight
<1>9. CASE dirty # {}
  <2>1. /\ Raced = [q \in Commands |-> Raced[q]]
        /\ \A q \in Commands : /\ Raced[q].pc = command[q].pc
                               /\ Raced[q].raced = (command[q].pc # "idle")
    BY RacedCommands DEF Inv
  <2>2. command' = [Raced EXCEPT ![p] = c]
    BY <1>1, <1>2, <1>9
  <2>3. command'[p] = c /\ \A q \in Commands : q # p => command'[q] = Raced[q]
    BY <2>1, <2>2, Zenon
  <2>4. ASSUME NEW q \in Commands PROVE Right(command'[q], artifact', buildInfos')
    <3>1. CASE q = p
      BY <1>7, <2>3, <3>1
    <3>2. CASE q # p
      <4>1. Raced[q].pc # "idle" => Raced[q].raced
        <5>1. Raced[q].pc = command[q].pc /\ Raced[q].raced = (command[q].pc # "idle")
          BY <2>1
        <5> QED
          BY <5>1, Zenon
      <4>2. Right(Raced[q], artifact', buildInfos')
        BY <4>1 DEF Right
      <4> QED
        BY <2>3, <3>2, <4>2
    <3> QED
      BY <3>1, <3>2
  <2> QED
    BY <2>4 DEF RightOK
<1> QED
  BY <1>8, <1>9

(* The build info that a quiet command takes for an init code, and the     *)
(* artifact next to it, have this code.                                    *)
LEMMA EntryExplains ==
    ASSUME CodesTellNames, Inv, NEW c, c.cache = buildInfos, DeployedOwn(c.inits, artifact),
           NEW k \in DOMAIN c.inits, c.inits[k] \in InitCode,
           FilesWith(buildInfos, c.inits[k]) # {}
    PROVE  LET e == Entry(c, c.inits[k])
           IN Explains(e, e.name, artifact, buildInfos) /\ e.code = c.inits[k].code
<1>1. PICK init : init = c.inits[k]
  OBVIOUS
<1>2. PICK file, n : file = Lookup(buildInfos, init).file /\ n = Lookup(buildInfos, init).name
  OBVIOUS
<1>3. /\ file \in DOMAIN buildInfos /\ n \in DOMAIN file /\ n \in Names
      /\ artifact[n] # None /\ isInitCodeMatch(init, file[n])
  BY <1>1, <1>2, FolderLookup
<1>4. file[n] = init.code /\ file[n] \in Versions[n]
  BY <1>3 DEF isInitCodeMatch, Inv, FolderOK
<1>5. init.code \in Codes /\ init.code \notin Inline
  BY <1>3, <1>4, BuildInfoCacheAssumption DEF Inline
<1>6. PICK m \in Names : artifact[m] = init.code
  BY <1>1, <1>5 DEF DeployedOwn
<1>7. init.code \in Versions[m]
  <2>1. init.code # None
    BY <1>5, BuildInfoCacheAssumption
  <2> QED
    BY <1>6, <2>1 DEF Inv, SourcesOK
<1>8. m = n
  BY <1>1, <1>3, <1>4, <1>7 DEF CodesTellNames, DeployedOwn
<1>9. readContractArtifact(n) = n
  BY <1>3, OwnArtifact
<1>10. Entry(c, init) = [name |-> n, file |-> file, code |-> artifact[n]]
  BY <1>2, <1>9 DEF Entry
<1>11. /\ Entry(c, init).name = n /\ Entry(c, init).file = file
       /\ Entry(c, init).code = artifact[n]
  BY <1>10
<1>12. Explains(Entry(c, init), n, artifact, buildInfos)
  BY <1>3, <1>4, <1>6, <1>8, <1>11 DEF Explains
<1> QED
  BY <1>1, <1>6, <1>8, <1>11, <1>12

(* It looks up its init codes.                                             *)
LEMMA ResolveKeepsRight ==
    ASSUME CodesTellNames, Inv, RightOK, NEW p \in Commands, Resolve(p) PROVE RightOK'
<1>1. PICK b : b = command[p]
  OBVIOUS
<1>2. PICK found : found = LookedUp(b)
  OBVIOUS
<1>3. PICK c : c = [b EXCEPT !.pc = "read", !.resolved = found]
  OBVIOUS
<1>4. command' = [command EXCEPT ![p] = c] /\ UNCHANGED <<artifact, buildInfos>>
  BY <1>1, <1>2, <1>3 DEF Resolve, LookedUp, Known, Entry
<1>5. IsCommand(b) /\ b.inits \in Seq(InitCode) /\ b.pc = "resolve"
  BY <1>1, CommandType DEF Resolve
<1>6. /\ IsCommand(c) /\ c.pc = "read" /\ c.resolved = found
      /\ c.raced = b.raced /\ c.inits = b.inits
  BY <1>3, <1>5 DEF IsCommand, Fields
<1>7. ASSUME ~b.raced
      PROVE  DeployedOwn(b.inits, artifact) /\ ResolvedOK(c, artifact, buildInfos)
  <2>1. DeployedOwn(b.inits, artifact) /\ b.cache = buildInfos
    BY <1>1, <1>5, <1>7 DEF RightOK, Right, Inv, LookOK, Sees
  <2>2. /\ ToSet(Known(b)) = {init \in InitCode : init \in ToSet(b.inits)
                                                   /\ FilesWith(b.cache, init) # {}}
        /\ \A k \in DOMAIN Known(b) : Known(b)[k] \in ToSet(Known(b))
        /\ Known(b) \in Seq(InitCode)
    BY <1>5, KnownInits
  <2>3. PICK known : known = Known(b)
    OBVIOUS
  <2>4. /\ DOMAIN found = DOMAIN known /\ \A j \in DOMAIN found : found[j] = Entry(b, known[j])
    BY <1>2, <2>3 DEF LookedUp
  <2>5. /\ found = [j \in 1 .. Len(known) |-> Entry(b, known[j])]
        /\ Len(known) \in Nat /\ DOMAIN known = 1 .. Len(known)
    BY <1>2, <2>2, <2>3 DEF LookedUp
  <2>6. Len(found) \in Nat /\ DOMAIN found = 1 .. Len(found)
    BY <2>5
  <2>7. ASSUME NEW k \in DOMAIN b.inits, FilesWith(buildInfos, b.inits[k]) # {}
        PROVE  LET e == Entry(b, b.inits[k])
               IN Explains(e, e.name, artifact, buildInfos) /\ e.code = b.inits[k].code
    <3>1. b.inits[k] \in InitCode
      BY <1>5
    <3> QED
      BY <2>1, <2>7, <3>1, EntryExplains
  <2>8. ASSUME NEW j \in DOMAIN found
        PROVE  Explains(found[j], found[j].name, artifact, buildInfos)
    <3>1. PICK k \in DOMAIN b.inits : known[j] = b.inits[k]
      BY <2>2, <2>3, <2>4 DEF ToSet
    <3>2. FilesWith(buildInfos, b.inits[k]) # {}
      BY <2>1, <2>2, <2>3, <2>4, <3>1
    <3>3. found[j] = Entry(b, b.inits[k])
      BY <2>4, <3>1
    <3> QED
      BY <2>7, <3>2, <3>3
  <2>9. FoundFor(found, b.inits, buildInfos)
    <3>1. ASSUME NEW k \in DOMAIN b.inits, FilesWith(buildInfos, b.inits[k]) # {}
          PROVE  \E j \in DOMAIN found : found[j].code = b.inits[k].code
      <4>1. b.inits[k] \in InitCode /\ b.inits[k] \in ToSet(b.inits)
        BY <1>5 DEF ToSet
      <4>2. PICK j \in DOMAIN known : known[j] = b.inits[k]
        BY <2>1, <2>2, <2>3, <3>1, <4>1 DEF ToSet
      <4>3. found[j] = Entry(b, b.inits[k])
        BY <2>4, <4>2
      <4> QED
        BY <2>4, <2>7, <3>1, <4>2, <4>3
    <3> QED
      BY <3>1 DEF FoundFor
  <2> QED
    BY <1>6, <2>1, <2>6, <2>8, <2>9 DEF ResolvedOK
<1>8. Right(c, artifact, buildInfos)
  BY <1>6, <1>7 DEF Right
<1> QED
  BY <1>4, <1>6, <1>8, OneKeepsRight

(* It reads the build infos.                                               *)
LEMMA ReadKeepsRight ==
    ASSUME Inv, RightOK, NEW p \in Commands, ReadBuildInfos(p) PROVE RightOK'
<1>1. PICK b : b = command[p]
  OBVIOUS
<1>2. PICK pc \in {"write", "outdated"} : command' = [command EXCEPT ![p] = [b EXCEPT !.pc = pc]]
  BY <1>1 DEF ReadBuildInfos
<1>3. PICK c : c = [b EXCEPT !.pc = pc]
  OBVIOUS
<1>4. IsCommand(b) /\ b.pc = "read" /\ UNCHANGED <<artifact, buildInfos>>
  BY <1>1, CommandType DEF ReadBuildInfos
<1>5. /\ IsCommand(c) /\ c.pc = pc /\ c.resolved = b.resolved
      /\ c.raced = b.raced /\ c.inits = b.inits
  BY <1>3, <1>4 DEF IsCommand, Fields
<1>6. Right(b, artifact, buildInfos)
  BY <1>1 DEF RightOK
<1>7. ResolvedOK(b, artifact, buildInfos) => ResolvedOK(c, artifact, buildInfos)
  BY <1>5 DEF ResolvedOK
<1>8. Right(c, artifact, buildInfos)
  BY <1>4, <1>5, <1>6, <1>7 DEF Right
<1> QED
  BY <1>2, <1>3, <1>4, <1>5, <1>8, OneKeepsRight

(* Of several entries of one name it returns one, and they agree.          *)
LEMMA ReturnedIsFound ==
    ASSUME NEW c, NEW d, NEW arts, NEW folder, ResolvedOK(c, arts, folder),
           d.configArtifacts = Returned(c.resolved), d.inits = c.inits
    PROVE  ReturnedOK(d, arts, folder)
<1>1. PICK r, m : r = c.resolved /\ m = Len(r)
  OBVIOUS
<1>2. m \in Nat /\ DOMAIN r = 1 .. m
  BY <1>1 DEF ResolvedOK
<1>3. \A k \in DOMAIN r : Explains(r[k], r[k].name, arts, folder)
  BY <1>1 DEF ResolvedOK
<1> DEFINE names == {r[k].name : k \in DOMAIN r}
           last(n) == CHOOSE k \in DOMAIN r :
                          /\ r[k].name = n
                          /\ \A j \in DOMAIN r : r[j].name = n => j <= k
<1>4. PICK found : found = d.configArtifacts
  OBVIOUS
<1>5. found = [n \in names |-> r[last(n)]]
  <2>1. found = Returned(r)
    BY <1>1, <1>4
  <2> QED
    BY <2>1 DEF Returned
<1>6. ASSUME NEW n \in names PROVE last(n) \in DOMAIN r /\ r[last(n)].name = n
  <2> DEFINE K == {k \in DOMAIN r : r[k].name = n}
  <2>1. K \subseteq 1 .. m /\ K # {}
    BY <1>2
  <2>2. PICK k \in K : \A j \in K : j <= k
    <3> HIDE DEF K
    <3> QED
      BY <1>2, <2>1, GreatestIndex
  <2>3. k \in DOMAIN r /\ r[k].name = n /\ \A j \in DOMAIN r : r[j].name = n => j <= k
    BY <2>2
  <2> QED
    BY <2>3
<1> HIDE DEF last
<1>7. DOMAIN found = names /\ \A n \in names : found[n] = r[last(n)]
  BY <1>5
<1>8. \A n \in names : Explains(found[n], n, arts, folder)
  BY <1>3, <1>6, <1>7
<1>9. IsFiniteSet(names)
  <2>1. PICK S : S = 1 .. m
    OBVIOUS
  <2>2. IsFiniteSet(S)
    BY <1>2, <2>1, FS_Interval
  <2>3. PICK T : T = names
    OBVIOUS
  <2>4. PICK f : f = [k \in S |-> r[k].name]
    OBVIOUS
  <2>5. f \in [S -> T] /\ \A y \in T : \E x \in S : f[x] = y
    BY <1>2, <2>1, <2>3, <2>4
  <2>6. IsFiniteSet(T)
    BY <2>2, <2>5, FiniteRange
  <2> QED
    BY <2>3, <2>6
<1>10. FoundFor(found, d.inits, folder)
  <2>1. ASSUME NEW k \in DOMAIN c.inits, FilesWith(folder, c.inits[k]) # {}
        PROVE  \E n \in names : found[n].code = c.inits[k].code
    <3>1. PICK j \in DOMAIN r : r[j].code = c.inits[k].code
      BY <1>1, <2>1 DEF ResolvedOK, FoundFor
    <3>2. PICK n : n = r[j].name
      OBVIOUS
    <3>3. n \in names
      BY <3>2
    <3>4. r[j].code = arts[n] /\ found[n].code = arts[n]
      BY <1>3, <1>8, <3>2, <3>3 DEF Explains
    <3> QED
      BY <3>1, <3>3, <3>4
  <2> QED
    BY <1>7, <2>1 DEF FoundFor
<1> QED
  BY <1>4, <1>7, <1>8, <1>9, <1>10 DEF ReturnedOK

(* It saves the index and returns.                                         *)
LEMMA SaveKeepsRight ==
    ASSUME Inv, RightOK, NEW p \in Commands, Save(p) PROVE RightOK'
<1>1. PICK b : b = command[p]
  OBVIOUS
<1>2. PICK found : found = Returned(b.resolved)
  OBVIOUS
<1>3. PICK c : c = [b EXCEPT !.pc = "done", !.cache = <<>>, !.resolved = <<>>,
                             !.configArtifacts = found]
  OBVIOUS
<1>4. command' = [command EXCEPT ![p] = c] /\ UNCHANGED <<artifact, buildInfos>>
  <2>1. command' = [command EXCEPT ![p] = [command[p] EXCEPT !.pc = "done", !.cache = <<>>,
                       !.resolved = <<>>, !.configArtifacts = Returned(command[p].resolved)]]
    BY DEF Save, Returned
  <2>2. UNCHANGED <<artifact, buildInfos>>
    BY DEF Save
  <2> QED
    BY <1>1, <1>2, <1>3, <2>1, <2>2
<1>5. IsCommand(b) /\ b.pc = "write"
  BY <1>1, CommandType DEF Save
<1>6. /\ IsCommand(c) /\ c.pc = "done" /\ c.configArtifacts = found
      /\ c.raced = b.raced /\ c.inits = b.inits
  BY <1>3, <1>5 DEF IsCommand, Fields
<1>7. Right(b, artifact, buildInfos)
  BY <1>1 DEF RightOK
<1>8. ResolvedOK(b, artifact, buildInfos) => ReturnedOK(c, artifact, buildInfos)
  BY <1>2, <1>6, ReturnedIsFound
<1>9. Right(c, artifact, buildInfos)
  BY <1>5, <1>6, <1>7, <1>8 DEF Right
<1> QED
  BY <1>4, <1>6, <1>9, OneKeepsRight

(* It checks that the script links no library.                             *)
LEMMA CheckKeepsRight ==
    ASSUME Inv, RightOK, NEW p \in Commands, CheckLibraries(p) PROVE RightOK'
<1>1. PICK b : b = command[p]
  OBVIOUS
<1>2. PICK pc \in {"accepted", "refused"} :
        command' = [command EXCEPT ![p] = [b EXCEPT !.pc = pc]]
  BY <1>1 DEF CheckLibraries
<1>3. PICK c : c = [b EXCEPT !.pc = pc]
  OBVIOUS
<1>4. IsCommand(b) /\ b.pc = "done" /\ UNCHANGED <<artifact, buildInfos>>
  BY <1>1, CommandType DEF CheckLibraries
<1>5. /\ IsCommand(c) /\ c.pc = pc /\ c.configArtifacts = b.configArtifacts
      /\ c.raced = b.raced /\ c.inits = b.inits
  BY <1>3, <1>4 DEF IsCommand, Fields
<1>6. Right(b, artifact, buildInfos)
  BY <1>1 DEF RightOK
<1>7. ReturnedOK(b, artifact, buildInfos) => ReturnedOK(c, artifact, buildInfos)
  BY <1>5 DEF ReturnedOK
<1>8. Right(c, artifact, buildInfos)
  BY <1>4, <1>5, <1>6, <1>7 DEF Right
<1> QED
  BY <1>2, <1>3, <1>4, <1>5, <1>8, OneKeepsRight

(* It looks at the folder.                                                 *)
LEMMA IndexKeepsRight ==
    ASSUME Inv, RightOK, NEW p \in Commands, Index(p) PROVE RightOK'
<1>1. PICK b, cache : b = command[p] /\ cache = UpdateCache(cacheFile, buildInfos)
  OBVIOUS
<1>2. PICK c : c = [b EXCEPT !.pc = "resolve", !.cache = cache]
  OBVIOUS
<1>3. command' = [command EXCEPT ![p] = c] /\ UNCHANGED <<artifact, buildInfos>>
  BY <1>1, <1>2 DEF Index
<1>4. IsCommand(b) /\ b.pc = "index"
  BY <1>1, CommandType DEF Index
<1>5. /\ IsCommand(c) /\ c.pc = "resolve" /\ c.raced = b.raced /\ c.inits = b.inits
  BY <1>2, <1>4 DEF IsCommand, Fields
<1>6. Right(c, artifact, buildInfos)
  BY <1>1, <1>4, <1>5 DEF RightOK, Right
<1> QED
  BY <1>3, <1>5, <1>6, OneKeepsRight

(* Every step keeps it.                                                    *)
LEMMA NextKeepsRight ==
    ASSUME CodesTellNames, Inv, RightOK, [Next]_vars PROVE RightOK'
<1>1. CASE UNCHANGED <<command, artifact, buildInfos>>
  BY <1>1 DEF RightOK
<1>2. ASSUME NEW n \in Names, NEW code \in Codes, Edit(n, code)
      PROVE  UNCHANGED <<command, artifact, buildInfos>>
  BY <1>2 DEF Edit
<1>3. CASE ForceCompile
  BY <1>3, DisturbedRight DEF ForceCompile
<1>4. ASSUME NEW file \in DOMAIN buildInfos, DeleteBuildInfo(file) PROVE RightOK'
  BY <1>4, DisturbedRight DEF DeleteBuildInfo
<1>5. ASSUME NEW p \in Commands, Exit(p) PROVE RightOK'
  <2>1. command' = [command EXCEPT ![p] = Idle] /\ UNCHANGED <<artifact, buildInfos>>
    BY <1>5 DEF Exit
  <2>2. Right(Idle, artifact, buildInfos)
    BY IdleCommand DEF Right
  <2> QED
    BY <2>1, <2>2, IdleCommand, OneKeepsRight
<1>6. UNCHANGED vars => UNCHANGED <<command, artifact, buildInfos>>
  BY DEF vars
<1> QED
  BY <1>1, <1>2, <1>3, <1>4, <1>5, <1>6, CompileKeepsRight, IndexKeepsRight,
     ResolveKeepsRight, ReadKeepsRight, SaveKeepsRight, CheckKeepsRight DEF Next

-----------------------------------------------------------------------------
(* The contract that is found *)

(* A finite set put in an order has its elements and no others.            *)
LEMMA OrderedElements ==
    ASSUME NEW S, IsFiniteSet(S)
    PROVE  /\ Cardinality(S) \in Nat /\ DOMAIN SetToSeq(S) = 1 .. Cardinality(S)
           /\ \A k \in DOMAIN SetToSeq(S) : SetToSeq(S)[k] \in S
           /\ \A x \in S : \E k \in DOMAIN SetToSeq(S) : SetToSeq(S)[k] = x
<1>1. PICK n : n = Cardinality(S)
  OBVIOUS
<1>2. n \in Nat /\ ExistsBijection(1 .. n, S)
  BY <1>1, FS_CardinalityType
<1>3. \E f \in [1 .. n -> S] : IsInjective(f)
  BY <1>2 DEF ExistsBijection, Bijection, Injection
<1>4. PICK s : s = SetToSeq(S)
  OBVIOUS
<1>5. s \in [1 .. n -> S] /\ IsInjective(s)
  BY <1>1, <1>3, <1>4 DEF SetToSeq
<1>6. PICK I : I = 1 .. n
  OBVIOUS
<1>7. IsFiniteSet(I) /\ Cardinality(I) = n
  <2>1. 1 \in Int /\ n \in Int
    BY <1>2
  <2>2. /\ IsFiniteSet(1 .. n)
        /\ Cardinality(1 .. n) = IF 1 > n THEN 0 ELSE n - 1 + 1
    BY <2>1, FS_Interval
  <2> QED
    BY <1>2, <1>6, <2>2
<1>8. s \in Injection(I, S)
  BY <1>5, <1>6 DEF Injection
<1>9. s \in Surjection(I, S)
  BY <1>1, <1>7, <1>8, FS_Injection
<1>10. \A x \in S : \E k \in I : s[k] = x
  BY <1>9 DEF Surjection
<1> QED
  BY <1>1, <1>2, <1>4, <1>5, <1>6, <1>10

(* The first match is a match, if there is one.                            *)
LEMMA FirstMatch ==
    ASSUME NEW init, NEW seq, NEW n \in Nat, DOMAIN seq = 1 .. n
    PROVE  IF \E k \in DOMAIN seq : isInitCodeMatch(init, seq[k].code)
           THEN \E k \in DOMAIN seq :
                   /\ isInitCodeMatch(init, seq[k].code)
                   /\ findFullyQualifiedNameForInitCode(init, seq) = seq[k].name
           ELSE findFullyQualifiedNameForInitCode(init, seq) = "undefined"
<1>1. PICK found : found = {k \in DOMAIN seq : isInitCodeMatch(init, seq[k].code)}
  OBVIOUS
<1>2. PICK first : first = CHOOSE k \in found : \A j \in found : k <= j
  OBVIOUS
<1>3. findFullyQualifiedNameForInitCode(init, seq)
          = IF found = {} THEN "undefined" ELSE seq[first].name
  BY <1>1, <1>2 DEF findFullyQualifiedNameForInitCode
<1>4. ASSUME found # {} PROVE first \in found
  <2>1. found \subseteq Nat
    BY <1>1
  <2>2. \E k \in found : \A j \in found : k <= j
    BY <1>4, <2>1, LeastNumber
  <2> QED
    BY <1>2, <2>2
<1>5. CASE found = {}
  BY <1>1, <1>3, <1>5
<1>6. CASE found # {}
  <2>1. first \in DOMAIN seq /\ isInitCodeMatch(init, seq[first].code)
    BY <1>1, <1>4, <1>6
  <2> QED
    BY <1>3, <1>6, <2>1
<1> QED
  BY <1>5, <1>6

(* What a quiet command returns tells the contract of each init code.      *)
LEMMA ReturnedTells ==
    ASSUME NEW p \in Commands, ReturnedOK(command[p], artifact, buildInfos),
           NEW k \in DOMAIN command[p].inits
    PROVE  LET init == command[p].inits[k]
               n == findFullyQualifiedNameForInitCode(init, Entries(p))
           IN IF FilesWith(buildInfos, init) = {}
              THEN n = "undefined"
              ELSE /\ n \in DOMAIN command[p].configArtifacts
                   /\ Found(p, n).file[n] = init.code
<1>1. PICK A, init : A = command[p].configArtifacts /\ init = command[p].inits[k]
  OBVIOUS
<1>2. /\ IsFiniteSet(DOMAIN A) /\ \A n \in DOMAIN A : Explains(A[n], n, artifact, buildInfos)
      /\ FilesWith(buildInfos, init) # {} => \E n \in DOMAIN A : A[n].code = init.code
  BY <1>1 DEF ReturnedOK, FoundFor
<1>3. PICK names : names = SetToSeq(DOMAIN A)
  OBVIOUS
<1>4. PICK m \in Nat : DOMAIN names = 1 .. m
  BY <1>2, <1>3, OrderedElements
<1>5. /\ \A j \in DOMAIN names : names[j] \in DOMAIN A
      /\ \A n \in DOMAIN A : \E j \in DOMAIN names : names[j] = n
  BY <1>2, <1>3, OrderedElements
<1>6. PICK seq : seq = Entries(p)
  OBVIOUS
<1>7. seq = [j \in DOMAIN names |-> [name |-> names[j], code |-> A[names[j]].code]]
  BY <1>1, <1>3, <1>6 DEF Entries, Found
<1>8. DOMAIN seq = 1 .. m
  BY <1>4, <1>7
<1>9. \A j \in DOMAIN seq : /\ seq[j].name = names[j] /\ seq[j].name \in DOMAIN A
                            /\ seq[j].code = A[seq[j].name].code
  BY <1>5, <1>7
<1>10. PICK name : name = findFullyQualifiedNameForInitCode(init, seq)
  OBVIOUS
<1>11. IF \E j \in DOMAIN seq : isInitCodeMatch(init, seq[j].code)
       THEN \E j \in DOMAIN seq : isInitCodeMatch(init, seq[j].code) /\ name = seq[j].name
       ELSE name = "undefined"
  BY <1>8, <1>10, FirstMatch
<1>12. ASSUME NEW j \in DOMAIN seq, isInitCodeMatch(init, seq[j].code)
       PROVE  /\ FilesWith(buildInfos, init) # {} /\ seq[j].name \in DOMAIN A
              /\ A[seq[j].name].file[seq[j].name] = init.code
  <2>1. PICK n : n = seq[j].name
    OBVIOUS
  <2>2. n \in DOMAIN A /\ isInitCodeMatch(init, A[n].code)
    BY <1>9, <1>12, <2>1
  <2>3. /\ A[n].file \in DOMAIN buildInfos /\ n \in DOMAIN A[n].file
        /\ A[n].file[n] = A[n].code
    BY <1>2, <2>2 DEF Explains
  <2>4. A[n].code = init.code
    BY <2>2 DEF isInitCodeMatch
  <2>5. A[n].file \in FilesWith(buildInfos, init)
    BY <2>2, <2>3 DEF FilesWith
  <2> QED
    BY <2>1, <2>2, <2>3, <2>4, <2>5
<1>13. ASSUME FilesWith(buildInfos, init) # {}
       PROVE  \E j \in DOMAIN seq : isInitCodeMatch(init, seq[j].code)
  <2>1. PICK n \in DOMAIN A : A[n].code = init.code
    BY <1>2, <1>13
  <2>2. PICK j \in DOMAIN names : names[j] = n
    BY <1>5, <2>1
  <2>3. j \in DOMAIN seq /\ seq[j].code = init.code
    BY <1>7, <1>9, <2>1, <2>2
  <2>4. \E f \in DOMAIN buildInfos, x \in Names : isInitCodeMatch(init, init.code)
    BY <1>2, <1>13, <2>1 DEF FilesWith, isInitCodeMatch, Explains
  <2> QED
    BY <2>3, <2>4
<1>14. CASE FilesWith(buildInfos, init) = {}
  <2>1. name = "undefined"
    BY <1>11, <1>12, <1>14
  <2> QED
    BY <1>1, <1>6, <1>10, <1>14, <2>1
<1>15. CASE FilesWith(buildInfos, init) # {}
  <2>1. PICK j \in DOMAIN seq : isInitCodeMatch(init, seq[j].code) /\ name = seq[j].name
    BY <1>11, <1>13, <1>15
  <2>2. name \in DOMAIN A /\ A[name].file[name] = init.code
    BY <1>12, <2>1
  <2> QED
    BY <1>1, <1>6, <1>10, <1>15, <2>2 DEF Found
<1> QED
  BY <1>14, <1>15

(* Where the code a script deploys is the code of one contract, a command  *)
(* that nothing disturbs finds each contract that its script deploys, with *)
(* the artifact and the build info of the code that is deployed            *)
(* (makeGetConfigArtifacts), whatever was compiled, deleted, cached or run *)
(* before it and runs beside it.                                           *)
THEOREM FindsItsContracts ==
    ASSUME CodesTellNames PROVE Spec => []ArtifactsAreOfTheScript
<1>1. Init => Truth
  <2>1. Init => RightOK
    BY IdleCommand DEF Init, RightOK, Right
  <2> QED
    BY <2>1, InitInv DEF Truth
<1>2. Truth /\ [Next]_vars => Truth'
  BY NextKeepsInv, NextKeepsRight DEF Truth
<1>3. Truth => ArtifactsAreOfTheScript
  <2>1. SUFFICES ASSUME Truth, NEW p \in Commands, NEW k \in DOMAIN command[p].inits,
                        command[p].pc \in {"done", "accepted"}, ~command[p].raced
                 PROVE  LET init == command[p].inits[k]
                            n == findFullyQualifiedNameForInitCode(init, Entries(p))
                        IN IF FilesWith(buildInfos, init) = {}
                           THEN n = "undefined"
                           ELSE /\ n \in DOMAIN command[p].configArtifacts
                                /\ Found(p, n).file[n] = init.code
    BY DEF ArtifactsAreOfTheScript
  <2>2. ReturnedOK(command[p], artifact, buildInfos)
    BY <2>1 DEF Truth, RightOK, Right
  <2> QED
    BY <2>1, <2>2, ReturnedTells
<1> QED
  BY <1>1, <1>2, <1>3, PTL DEF Spec

(* What a concatenation holds.                                             *)
LEMMA ConcatElements ==
    ASSUME NEW T, NEW s \in Seq(T), NEW t \in Seq(T)
    PROVE  ToSet(s \o t) = ToSet(s) \cup ToSet(t)
<1>1. Len(s) \in Nat /\ Len(t) \in Nat
  OBVIOUS
<1>2. PICK u : u = s \o t
  OBVIOUS
<1>3. /\ u \in Seq(T) /\ Len(u) = Len(s) + Len(t)
      /\ \A i \in 1 .. Len(s) + Len(t) :
            u[i] = IF i <= Len(s) THEN s[i] ELSE t[i - Len(s)]
  BY <1>2, ConcatProperties
<1>4. DOMAIN u = 1 .. Len(s) + Len(t) /\ DOMAIN s = 1 .. Len(s) /\ DOMAIN t = 1 .. Len(t)
  BY <1>1, <1>3
<1>5. ASSUME NEW i \in DOMAIN u PROVE u[i] \in ToSet(s) \cup ToSet(t)
  <2>1. CASE i <= Len(s)
    BY <1>1, <1>3, <1>4, <2>1 DEF ToSet
  <2>2. CASE ~(i <= Len(s))
    <3>1. i - Len(s) \in 1 .. Len(t) /\ u[i] = t[i - Len(s)]
      BY <1>1, <1>3, <1>4, <2>2
    <3> QED
      BY <1>4, <3>1 DEF ToSet
  <2> QED
    BY <2>1, <2>2
<1>6. ASSUME NEW i \in DOMAIN s PROVE \E j \in DOMAIN u : u[j] = s[i]
  <2>1. i \in 1 .. Len(s) + Len(t) /\ i <= Len(s)
    BY <1>1, <1>4
  <2>2. u[i] = s[i]
    BY <1>3, <2>1
  <2> QED
    BY <1>4, <2>1, <2>2
<1>7. ASSUME NEW i \in DOMAIN t PROVE \E j \in DOMAIN u : u[j] = t[i]
  <2>1. PICK j : j = Len(s) + i
    OBVIOUS
  <2>2. j \in 1 .. Len(s) + Len(t) /\ ~(j <= Len(s)) /\ j - Len(s) = i
    BY <1>1, <1>4, <2>1
  <2>3. u[j] = t[i]
    BY <1>3, <2>2
  <2> QED
    BY <1>4, <2>2, <2>3
<1>8. ToSet(u) \subseteq ToSet(s) \cup ToSet(t)
  <2>1. ASSUME NEW x \in ToSet(u) PROVE x \in ToSet(s) \cup ToSet(t)
    <3>1. PICK i \in DOMAIN u : x = u[i]
      BY DEF ToSet
    <3> QED
      BY <1>5, <3>1
  <2> QED
    BY <2>1
<1>9. ToSet(s) \subseteq ToSet(u)
  BY <1>6 DEF ToSet
<1>10. ToSet(t) \subseteq ToSet(u)
  BY <1>7 DEF ToSet
<1> QED
  BY <1>2, <1>8, <1>9, <1>10

(* A sequence is one of its elements.                                      *)
LEMMA SequenceOfElements ==
    ASSUME NEW T, NEW s \in Seq(T)
    PROVE  s \in Seq(ToSet(s)) /\ Len(s) \in Nat /\ DOMAIN s = 1 .. Len(s)
BY DEF ToSet

(* What a sequence with another behind it is.                              *)
LEMMA ConcatIs ==
    ASSUME NEW s, NEW t, s \in Seq(ToSet(s)), t \in Seq(ToSet(t))
    PROVE  /\ s \o t \in Seq(ToSet(s \o t)) /\ Len(s) \in Nat /\ Len(t) \in Nat
           /\ Len(s \o t) = Len(s) + Len(t)
           /\ \A i \in 1 .. Len(s) + Len(t) :
                 (s \o t)[i] = IF i <= Len(s) THEN s[i] ELSE t[i - Len(s)]
<1>1. PICK T : T = ToSet(s) \cup ToSet(t)
  OBVIOUS
<1>2. s \in Seq(T) /\ t \in Seq(T)
  BY <1>1
<1>3. s \o t \in Seq(T) /\ Len(s) \in Nat /\ Len(t) \in Nat
  BY <1>2, ConcatProperties
<1>4. s \o t \in Seq(ToSet(s \o t))
  BY <1>3, SequenceOfElements
<1>5. /\ Len(s \o t) = Len(s) + Len(t)
      /\ \A i \in 1 .. Len(s) + Len(t) :
            (s \o t)[i] = IF i <= Len(s) THEN s[i] ELSE t[i - Len(s)]
  BY <1>2, ConcatProperties
<1> QED
  BY <1>3, <1>4, <1>5

(* A flattened sequence has the elements of its parts.                     *)
LEMMA FlattenElements ==
    ASSUME NEW T, NEW seqs \in Seq(Seq(T))
    PROVE  ToSet(FlattenSeq(seqs)) = UNION {ToSet(seqs[i]) : i \in DOMAIN seqs}
<1> DEFINE n == Len(seqs)
           Upto(m) == UNION {ToSet(seqs[i]) : i \in 1 .. m}
           Good(s, m) == s \in Seq(T) /\ ToSet(s) = Upto(m)
<1>1. /\ DOMAIN seqs = 1 .. n /\ n \in Nat /\ \A i \in 1 .. n : seqs[i] \in Seq(T)
  OBVIOUS
<1>2. ASSUME NEW m \in 1 .. n, NEW s, Good(s, m - 1) PROVE Good(s \o seqs[m], m)
  <2>1. PICK t : t = seqs[m]
    OBVIOUS
  <2>2. s \in Seq(T) /\ t \in Seq(T)
    BY <1>1, <1>2, <2>1
  <2>3. s \o t \in Seq(T)
    BY <2>2, ConcatProperties
  <2>4. ToSet(s \o t) = ToSet(s) \cup ToSet(t)
    BY <2>2, ConcatElements
  <2>5. Upto(m) = Upto(m - 1) \cup ToSet(t)
    <3>1. 1 .. m = (1 .. m - 1) \cup {m}
      BY <1>1
    <3> QED
      BY <2>1, <3>1
  <2> QED
    BY <1>2, <2>1, <2>3, <2>4, <2>5
<1>3. Good(<<>>, 0)
  <2>1. <<>> \in Seq(T)
    OBVIOUS
  <2>2. ToSet(<<>>) = {} /\ Upto(0) = {}
    BY DEF ToSet
  <2> QED
    BY <2>1, <2>2
<1>4. Good(FlattenSeq(seqs), n)
  <2>1. CASE n = 0
    <3>1. seqs = <<>>
      BY <2>1
    <3>2. FlattenSeq(seqs) = seqs
      BY <2>1 DEF FlattenSeq
    <3> QED
      BY <1>3, <2>1, <3>1, <3>2
  <2>2. CASE n # 0
    <3> DEFINE f == CHOOSE f : Flattens(f, seqs, n)
               Bad == {i \in Nat : i \in 1 .. n /\ ~Good(f[i], i)}
    <3>1. Flattens(f, seqs, n)
      BY <1>1, FlattenExists
    <3>2. FlattenSeq(seqs) = f[n]
      BY <2>2 DEF FlattenSeq, Flattens
    <3> HIDE DEF f
    <3>3. \A i \in 1 .. n : f[i] = IF i = 1 THEN seqs[i] ELSE f[i - 1] \o seqs[i]
      BY <3>1 DEF Flattens
    <3> HIDE DEF Good
    <3>4. Good(seqs[1], 1)
      <4>1. Good(<<>> \o seqs[1], 1)
        <5>1. PICK m \in 1 .. n : m = 1 /\ m - 1 = 0
          BY <1>1, <2>2
        <5>2. Good(<<>>, m - 1)
          BY <1>3, <5>1
        <5> QED
          BY <1>2, <5>1, <5>2
      <4>2. <<>> \o seqs[1] = seqs[1]
        BY <1>1, <2>2
      <4> QED
        BY <4>1, <4>2
    <3>5. Bad = {}
      <4>1. SUFFICES ASSUME Bad # {} PROVE FALSE
        OBVIOUS
      <4>2. PICK i \in Bad : \A k \in Bad : i <= k
        BY <4>1, LeastNumber
      <4>3. i # 1 /\ i \in 1 .. n
        BY <3>3, <3>4, <4>2
      <4>4. Good(f[i - 1], i - 1)
        BY <1>1, <4>2, <4>3
      <4>5. Good(f[i - 1] \o seqs[i], i)
        BY <1>2, <4>3, <4>4
      <4>6. f[i] = f[i - 1] \o seqs[i]
        BY <3>3, <4>3
      <4> QED
        BY <4>2, <4>5, <4>6
    <3>6. n \in 1 .. n /\ n \in Nat
      BY <1>1, <2>2
    <3>7. Good(f[n], n)
      BY <3>5, <3>6
    <3> QED
      BY <3>2, <3>7
  <2> QED
    BY <2>1, <2>2
<1> QED
  BY <1>1, <1>4

(* The name of the first match.                                            *)
LEMMA FirstMatchIs ==
    ASSUME NEW init, NEW seq, NEW n \in Nat, DOMAIN seq = 1 .. n, NEW k \in 1 .. n,
           isInitCodeMatch(init, seq[k].code),
           \A j \in 1 .. n : j < k => ~isInitCodeMatch(init, seq[j].code)
    PROVE  findFullyQualifiedNameForInitCode(init, seq) = seq[k].name
<1>1. PICK found : found = {j \in DOMAIN seq : isInitCodeMatch(init, seq[j].code)}
  OBVIOUS
<1>2. PICK first : first = CHOOSE i \in found : \A j \in found : i <= j
  OBVIOUS
<1>3. findFullyQualifiedNameForInitCode(init, seq)
          = IF found = {} THEN "undefined" ELSE seq[first].name
  BY <1>1, <1>2 DEF findFullyQualifiedNameForInitCode
<1>4. k \in found /\ \A j \in found : k <= j /\ j \in Nat
  BY <1>1
<1>5. first \in found /\ \A j \in found : first <= j
  BY <1>2, <1>4
<1>6. first = k
  BY <1>4, <1>5
<1> QED
  BY <1>3, <1>4, <1>6

(* A filter that keeps every match keeps the first one first.              *)
LEMMA FirstMatchStays ==
    ASSUME NEW init, NEW T, NEW seq \in Seq(T), NEW S,
           \A k \in DOMAIN seq : isInitCodeMatch(init, seq[k].code) => seq[k] \in S
    PROVE  findFullyQualifiedNameForInitCode(init, SelectIn(seq, S)) =
              findFullyQualifiedNameForInitCode(init, seq)
<1>1. PICK s : s = SelectIn(seq, S)
  OBVIOUS
<1>2. s \in Seq(S) /\ Len(s) \in Nat /\ DOMAIN s = 1 .. Len(s)
  BY <1>1, SelectInType
<1>3. DOMAIN seq = 1 .. Len(seq) /\ Len(seq) \in Nat
  OBVIOUS
<1>4. PICK f : Picks(f, s, seq, S, Len(seq))
  BY <1>1, SelectInOrder
<1>5. /\ f \in [1 .. Len(s) -> 1 .. Len(seq)] /\ Ascending(f, Len(s))
      /\ \A p \in 1 .. Len(seq) : seq[p] \in S => \E k \in 1 .. Len(s) : f[k] = p
      /\ \A k \in 1 .. Len(s) : s[k] = seq[f[k]]
  BY <1>4 DEF Picks, PlacesOf
<1> DEFINE Matches == {k \in 1 .. Len(seq) : isInitCodeMatch(init, seq[k].code)}
<1>6. CASE Matches = {}
  <2>1. findFullyQualifiedNameForInitCode(init, seq) = "undefined"
    BY <1>3, <1>6 DEF findFullyQualifiedNameForInitCode
  <2>2. \A k \in DOMAIN s : ~isInitCodeMatch(init, s[k].code)
    BY <1>2, <1>5, <1>6
  <2>3. findFullyQualifiedNameForInitCode(init, s) = "undefined"
    BY <2>2 DEF findFullyQualifiedNameForInitCode
  <2> QED
    BY <1>1, <2>1, <2>3
<1>7. CASE Matches # {}
  <2>1. PICK m \in Matches : \A j \in Matches : m <= j
    <3>1. Matches \subseteq Nat
      OBVIOUS
    <3> QED
      BY <1>7, <3>1, LeastNumber
  <2>2. \A j \in 1 .. Len(seq) : j < m => ~isInitCodeMatch(init, seq[j].code)
    BY <2>1
  <2>3. findFullyQualifiedNameForInitCode(init, seq) = seq[m].name
    BY <1>3, <2>1, <2>2, FirstMatchIs
  <2>4. PICK k \in 1 .. Len(s) : f[k] = m
    BY <1>3, <1>5, <2>1
  <2>5. ASSUME NEW j \in 1 .. Len(s), j < k PROVE ~isInitCodeMatch(init, s[j].code)
    <3>1. f[j] < m /\ f[j] \in 1 .. Len(seq)
      BY <1>5, <2>4, <2>5 DEF Ascending
    <3> QED
      BY <1>5, <2>2, <3>1
  <2>6. isInitCodeMatch(init, s[k].code) /\ s[k].name = seq[m].name
    BY <1>5, <2>1, <2>4
  <2>7. findFullyQualifiedNameForInitCode(init, s) = s[k].name
    BY <1>2, <2>5, <2>6, FirstMatchIs
  <2> QED
    BY <1>1, <2>3, <2>6, <2>7
<1> QED
  BY <1>6, <1>7

-----------------------------------------------------------------------------
(* The collection of transactions *)

IsSeq(s) == s \in Seq(ToSet(s))

(* Addresses tell what was deployed, and nonces are spent once. *)
GoodAccess(a, made) ==
    /\ a.kind \in {"Call", "Create"} /\ a.onNetwork \in BOOLEAN /\ a.gas \in Nat
    /\ a.account \notin {Safe, Script}
    /\ a.kind = "Create" =>
          \/ a.account = <<"create2", a.account[2], a.data>> /\ a.accessor = Proxy
          \/ /\ a.account = <<"new", a.accessor, a.account[3]>> /\ a.account[3] \in Nat
             /\ a.account[3] <= made[a.onNetwork]
             /\ a.accessor \in {Safe, Script} => a.account[3] < made[a.onNetwork]

OneCode(log) ==
    \A i, j \in 1 .. Len(log) :
        /\ log[i].kind = "Create" /\ log[j].kind = "Create"
        /\ log[i].onNetwork = log[j].onNetwork /\ log[i].account = log[j].account
        => log[i].data = log[j].data

Roots(log) == {k \in 1 .. Len(log) : isRootAccountAccess(log[k])}

IsNested(a) ==
    a.kind = "Create" /\ a.onNetwork /\ a.accessor \notin {Safe, Script}

(* The transaction tx is access k, with the n after it. *)
IsOfType(type, log, k, n) ==
    \/ type = "CREATE" /\ log[k].kind = "Create"
    \/ type = "CALL" /\ log[k].kind = "Call" /\ log[k].account # Proxy
    \/ /\ type = "CREATE2" /\ log[k].kind = "Call" /\ log[k].account = Proxy
       /\ n = 1 /\ log[k + 1].accessor = Proxy
       /\ log[k + 1].account = <<"create2", log[k].data[1], log[k].data[2]>>

Performs(tx, log, k, n) ==
    /\ k + n <= Len(log) /\ \A j \in k + 1 .. k + n : IsNested(log[j])
    /\ tx.to = log[k].account /\ tx.gas = log[k].gas /\ IsOfType(tx.type, log, k, n)
    /\ tx.created = {[address |-> log[j].account, init |-> log[j].data] :
                        j \in {i \in k .. k + n : log[i].kind = "Create"}}

(* The t-th transaction is recorded at pos[t]. *)
Blocks(pos, len, log, ex) ==
    /\ pos \in [1 .. Len(ex) -> 1 .. Len(log)] /\ len \in [1 .. Len(ex) -> Nat]
    /\ Lists(pos, Len(ex), Roots(log))
    /\ \A t \in 1 .. Len(ex) : Performs(ex[t], log, pos[t], len[t])
    /\ \A j \in 1 .. Len(log) :
          log[j].kind = "Create" /\ log[j].onNetwork /\ log[j].accessor # Script =>
              \E t \in 1 .. Len(ex) : pos[t] <= j /\ j <= pos[t] + len[t]

CollectionOK ==
    /\ network \in Networks /\ funds \in Nat
    /\ onNetwork \in BOOLEAN /\ nonce \in [BOOLEAN -> Nat]
    /\ IsSeq(accesses) /\ IsSeq(executed)
    /\ \A k \in 1 .. Len(accesses) : GoodAccess(accesses[k], nonce)
    /\ OneCode(accesses)
    /\ \E pos, len : Blocks(pos, len, accesses, executed)

(* log2 prolongs log. *)
Prolongs(log2, log) ==
    /\ Len(log) \in Nat /\ Len(log2) \in Nat /\ Len(log) <= Len(log2)
    /\ \A j \in 1 .. Len(log) : log2[j] = log[j]

(* A recorded transaction is not touched by what is recorded later.        *)
LEMMA PerformsStays ==
    ASSUME NEW log, NEW log2, Prolongs(log2, log), NEW tx,
           NEW k \in 1 .. Len(log), NEW n \in Nat, Performs(tx, log, k, n)
    PROVE  Performs(tx, log2, k, n)
<1>1. k + n <= Len(log) /\ Len(log) \in Nat /\ Len(log) <= Len(log2) /\ Len(log2) \in Nat
  BY DEF Performs, Prolongs
<1>2. \A j \in k .. k + n : j \in 1 .. Len(log) /\ log2[j] = log[j]
  <2>1. \A j \in k .. k + n : j \in 1 .. Len(log)
    BY <1>1
  <2> QED
    BY <2>1 DEF Prolongs
<1>3. \A j \in k + 1 .. k + n : IsNested(log2[j])
  <2>1. \A j \in k + 1 .. k + n : j \in k .. k + n /\ IsNested(log[j])
    BY <1>1 DEF Performs
  <2> QED
    BY <1>2, <2>1
<1>4. log2[k] = log[k] /\ k + n <= Len(log2)
  BY <1>1, <1>2
<1>5. IsOfType(tx.type, log2, k, n)
  <2>1. n = 1 => log2[k + 1] = log[k + 1]
    BY <1>1, <1>2
  <2>2. IsOfType(tx.type, log, k, n)
    BY DEF Performs
  <2> QED
    BY <1>4, <2>1, <2>2 DEF IsOfType
<1>6. {[address |-> log[j].account, init |-> log[j].data] :
          j \in {i \in k .. k + n : log[i].kind = "Create"}}
      = {[address |-> log2[j].account, init |-> log2[j].data] :
            j \in {i \in k .. k + n : log2[i].kind = "Create"}}
  BY <1>2
<1> QED
  BY <1>3, <1>4, <1>5, <1>6 DEF Performs

(* Neither is it by accesses that are no transaction.                      *)
LEMMA BlocksStay ==
    ASSUME NEW pos, NEW len, NEW log, NEW log2, NEW ex, Blocks(pos, len, log, ex),
           Prolongs(log2, log), Len(ex) \in Nat,
           \A j \in Len(log) + 1 .. Len(log2) :
              /\ ~isRootAccountAccess(log2[j])
              /\ log2[j].kind = "Create" /\ log2[j].onNetwork => log2[j].accessor = Script
    PROVE  Blocks(pos, len, log2, ex)
<1>1. Len(log) \in Nat /\ Len(log2) \in Nat /\ Len(log) <= Len(log2)
  BY DEF Prolongs
<1>2. \A j \in 1 .. Len(log2) :
         (j \in 1 .. Len(log) /\ log2[j] = log[j]) \/ j \in Len(log) + 1 .. Len(log2)
  <2>1. \A j \in 1 .. Len(log2) : j \in 1 .. Len(log) \/ j \in Len(log) + 1 .. Len(log2)
    BY <1>1
  <2> QED
    BY <2>1 DEF Prolongs
<1>3. pos \in [1 .. Len(ex) -> 1 .. Len(log2)] /\ len \in [1 .. Len(ex) -> Nat]
  BY <1>1 DEF Blocks
<1>4. Roots(log2) = Roots(log)
  <2>1. \A j \in 1 .. Len(log) : j \in 1 .. Len(log2) /\ log2[j] = log[j]
    BY <1>1 DEF Prolongs
  <2> QED
    BY <1>2, <2>1 DEF Roots
<1>5. Lists(pos, Len(ex), Roots(log2))
  BY <1>4 DEF Blocks
<1>6. \A t \in 1 .. Len(ex) : Performs(ex[t], log2, pos[t], len[t])
  <2>1. ASSUME NEW t \in 1 .. Len(ex) PROVE Performs(ex[t], log2, pos[t], len[t])
    <3>1. PICK k, n : k = pos[t] /\ n = len[t]
      OBVIOUS
    <3>2. k \in 1 .. Len(log) /\ n \in Nat /\ Performs(ex[t], log, k, n)
      BY <3>1 DEF Blocks
    <3>3. Performs(ex[t], log2, k, n)
      BY <3>2, PerformsStays
    <3> QED
      BY <3>1, <3>3
  <2> QED
    BY <2>1
<1>7. \A j \in 1 .. Len(log2) :
         log2[j].kind = "Create" /\ log2[j].onNetwork /\ log2[j].accessor # Script =>
            \E t \in 1 .. Len(ex) : pos[t] <= j /\ j <= pos[t] + len[t]
  <2>1. \A j \in 1 .. Len(log) :
           log[j].kind = "Create" /\ log[j].onNetwork /\ log[j].accessor # Script =>
              \E t \in 1 .. Len(ex) : pos[t] <= j /\ j <= pos[t] + len[t]
    BY DEF Blocks
  <2> QED
    BY <1>2, <2>1
<1> QED
  BY <1>3, <1>5, <1>6, <1>7 DEF Blocks

(* A longer list of numbers.                                               *)
LEMMA ListsMore ==
    ASSUME NEW n \in Nat, NEW f, NEW S, Lists(f, n, S), NEW x \in Nat, \A y \in S : y < x
    PROVE  Lists([i \in 1 .. n + 1 |-> IF i <= n THEN f[i] ELSE x], n + 1, S \cup {x})
<1> DEFINE g == [i \in 1 .. n + 1 |-> IF i <= n THEN f[i] ELSE x]
<1>1. /\ f \in [1 .. n -> Nat] /\ Ascending(f, n) /\ {f[i] : i \in 1 .. n} = S
      /\ \A i \in 1 .. n : f[i] \in S
  BY DEF Lists
<1>2. \A i \in 1 .. n + 1 : (i \in 1 .. n /\ g[i] = f[i]) \/ (i = n + 1 /\ g[i] = x)
  <2>1. \A i \in 1 .. n + 1 : i \in 1 .. n \/ i = n + 1
    OBVIOUS
  <2>2. \A i \in 1 .. n : i <= n /\ i \in 1 .. n + 1
    OBVIOUS
  <2>3. ~(n + 1 <= n) /\ n + 1 \in 1 .. n + 1
    OBVIOUS
  <2> QED
    BY <2>1, <2>2, <2>3
<1>3. g \in [1 .. n + 1 -> Nat]
  BY <1>1
<1> HIDE DEF g
<1>4. Ascending(g, n + 1)
  <2>1. ASSUME NEW i \in 1 .. n + 1, NEW j \in 1 .. n + 1, i < j PROVE g[i] < g[j]
    <3>1. i \in 1 .. n /\ g[i] = f[i]
      BY <1>2, <2>1
    <3>2. CASE j \in 1 .. n /\ g[j] = f[j]
      BY <1>1, <2>1, <3>1, <3>2 DEF Ascending
    <3>3. CASE g[j] = x
      BY <1>1, <3>1, <3>3
    <3> QED
      BY <1>2, <3>2, <3>3
  <2> QED
    BY <2>1 DEF Ascending
<1>5. {g[i] : i \in 1 .. n + 1} = S \cup {x}
  <2>1. \A i \in 1 .. n + 1 : g[i] \in S \cup {x}
    BY <1>1, <1>2
  <2>2. ASSUME NEW y \in S PROVE \E i \in 1 .. n + 1 : g[i] = y
    <3>1. PICK i \in 1 .. n : f[i] = y
      BY <1>1
    <3>2. i \in 1 .. n + 1 /\ i # n + 1
      OBVIOUS
    <3> QED
      BY <1>2, <3>1, <3>2
  <2>3. \E i \in 1 .. n + 1 : g[i] = x
    <3>1. n + 1 \in 1 .. n + 1 /\ n + 1 \notin 1 .. n
      OBVIOUS
    <3> QED
      BY <1>2, <3>1
  <2> QED
    BY <2>1, <2>2, <2>3
<1> QED
  BY <1>3, <1>4, <1>5 DEF Lists, g

(* ex2 is ex with tx behind it. *)
Adds(ex2, ex, tx) ==
    /\ Len(ex) \in Nat /\ Len(ex2) = Len(ex) + 1 /\ ex2[Len(ex) + 1] = tx
    /\ \A t \in 1 .. Len(ex) : ex2[t] = ex[t]

(* A transaction that is recorded now is the last.                         *)
LEMMA BlocksGrow ==
    ASSUME NEW pos, NEW len, NEW log, NEW ex, Blocks(pos, len, log, ex),
           NEW log2, Prolongs(log2, log), NEW ex2, NEW tx, Adds(ex2, ex, tx),
           NEW n \in Nat, Len(log2) = Len(log) + 1 + n,
           isRootAccountAccess(log2[Len(log) + 1]), Performs(tx, log2, Len(log) + 1, n)
    PROVE  \E pos2, len2 : Blocks(pos2, len2, log2, ex2)
<1>1. PICK L, N : L = Len(log) /\ N = Len(ex)
  OBVIOUS
<1>2. /\ L \in Nat /\ N \in Nat /\ Len(log2) \in Nat /\ Len(log2) = L + 1 + n
      /\ \A j \in 1 .. L : log2[j] = log[j]
  BY <1>1 DEF Prolongs, Adds
<1>3. Len(ex2) = N + 1 /\ ex2[N + 1] = tx /\ \A t \in 1 .. N : ex2[t] = ex[t]
  BY <1>1 DEF Adds
<1>4. /\ pos \in [1 .. N -> 1 .. L] /\ len \in [1 .. N -> Nat] /\ Lists(pos, N, Roots(log))
      /\ \A t \in 1 .. N : Performs(ex[t], log, pos[t], len[t])
      /\ \A j \in 1 .. L :
            log[j].kind = "Create" /\ log[j].onNetwork /\ log[j].accessor # Script =>
               \E t \in 1 .. N : pos[t] <= j /\ j <= pos[t] + len[t]
  BY <1>1 DEF Blocks
<1> DEFINE pos2 == [t \in 1 .. N + 1 |-> IF t <= N THEN pos[t] ELSE L + 1]
           len2 == [t \in 1 .. N + 1 |-> IF t <= N THEN len[t] ELSE n]
<1>5. /\ \A t \in 1 .. N : pos2[t] = pos[t] /\ len2[t] = len[t] /\ t \in 1 .. N + 1
      /\ pos2[N + 1] = L + 1 /\ len2[N + 1] = n /\ N + 1 \in 1 .. N + 1
  BY <1>2
<1>6. \A t \in 1 .. N + 1 : t \in 1 .. N \/ t = N + 1
  BY <1>2
<1>7. Roots(log2) = Roots(log) \cup {L + 1}
  <2>1. \A j \in L + 2 .. Len(log2) : ~isRootAccountAccess(log2[j])
    <3>1. \A j \in L + 2 .. L + 1 + n : IsNested(log2[j])
      <4>1. PICK k : k = L + 1
        OBVIOUS
      <4>2. \A j \in k + 1 .. k + n : IsNested(log2[j])
        BY <1>1, <4>1 DEF Performs
      <4>3. \A j \in L + 2 .. L + 1 + n : j \in k + 1 .. k + n
        BY <1>2, <4>1
      <4> QED
        BY <4>2, <4>3
    <3> QED
      BY <1>2, <3>1 DEF IsNested, isRootAccountAccess
  <2>2. \A j \in 1 .. Len(log2) : j \in 1 .. L \/ j = L + 1 \/ j \in L + 2 .. Len(log2)
    BY <1>2
  <2>3. \A j \in 1 .. L : j \in 1 .. Len(log2)
    BY <1>2
  <2>4. L + 1 \in 1 .. Len(log2) /\ isRootAccountAccess(log2[L + 1])
    BY <1>1, <1>2
  <2>5. \A j \in 1 .. Len(log2) : j \in Roots(log2) <=> j \in Roots(log) \/ j = L + 1
    <3>1. \A j \in 1 .. L : j \in Roots(log2) <=> j \in Roots(log)
      BY <1>1, <1>2, <2>3 DEF Roots
    <3>2. \A j \in L + 2 .. Len(log2) : j \notin Roots(log2) /\ j # L + 1 /\ j \notin Roots(log)
      BY <1>1, <1>2, <2>1 DEF Roots
    <3>3. L + 1 \in Roots(log2)
      BY <2>4 DEF Roots
    <3> QED
      BY <2>2, <3>1, <3>2, <3>3
  <2>6. Roots(log2) \subseteq 1 .. Len(log2) /\ Roots(log) \subseteq 1 .. Len(log2)
    BY <1>1, <2>3 DEF Roots
  <2> QED
    BY <2>4, <2>5, <2>6
<1>8. Lists(pos2, N + 1, Roots(log2))
  <2>1. PICK R, x : R = Roots(log) /\ x = L + 1
    OBVIOUS
  <2>2. x \in Nat /\ Lists(pos, N, R) /\ \A y \in R : y < x
    BY <1>1, <1>2, <1>4, <2>1 DEF Roots
  <2>3. Lists([i \in 1 .. N + 1 |-> IF i <= N THEN pos[i] ELSE x], N + 1, R \cup {x})
    BY <1>2, <2>2, ListsMore
  <2>4. pos2 = [i \in 1 .. N + 1 |-> IF i <= N THEN pos[i] ELSE x]
    BY <2>1
  <2> QED
    BY <1>7, <2>1, <2>3, <2>4
<1>9. pos2 \in [1 .. N + 1 -> 1 .. Len(log2)] /\ len2 \in [1 .. N + 1 -> Nat]
  BY <1>2, <1>4
<1> HIDE DEF pos2, len2
<1>10. \A t \in 1 .. N + 1 : Performs(ex2[t], log2, pos2[t], len2[t])
  <2>1. ASSUME NEW t \in 1 .. N PROVE Performs(ex2[t], log2, pos2[t], len2[t])
    <3>1. PICK k, m : k = pos[t] /\ m = len[t]
      OBVIOUS
    <3>2. k \in 1 .. Len(log) /\ m \in Nat /\ Performs(ex[t], log, k, m)
      BY <1>1, <1>4, <3>1
    <3>3. Performs(ex[t], log2, k, m)
      BY <3>2, PerformsStays
    <3> QED
      BY <1>3, <1>5, <3>1, <3>3
  <2>2. Performs(ex2[N + 1], log2, pos2[N + 1], len2[N + 1])
    BY <1>1, <1>3, <1>5
  <2> QED
    BY <1>6, <2>1, <2>2
<1>11. \A j \in 1 .. Len(log2) :
          log2[j].kind = "Create" /\ log2[j].onNetwork /\ log2[j].accessor # Script =>
             \E t \in 1 .. N + 1 : pos2[t] <= j /\ j <= pos2[t] + len2[t]
  <2>1. ASSUME NEW j \in 1 .. Len(log2), log2[j].kind = "Create" /\ log2[j].onNetwork,
               log2[j].accessor # Script
        PROVE  \E t \in 1 .. N + 1 : pos2[t] <= j /\ j <= pos2[t] + len2[t]
    <3>1. CASE j <= L
      <4>1. j \in 1 .. L /\ log2[j] = log[j]
        BY <1>2, <3>1
      <4>2. PICK t \in 1 .. N : pos[t] <= j /\ j <= pos[t] + len[t]
        BY <1>4, <2>1, <4>1
      <4> QED
        BY <1>5, <4>2
    <3>2. CASE ~(j <= L)
      <4>1. L + 1 <= j /\ j <= L + 1 + n
        BY <1>2, <3>2
      <4> QED
        BY <1>5, <4>1
    <3> QED
      BY <3>1, <3>2
  <2> QED
    BY <2>1
<1>12. Blocks(pos2, len2, log2, ex2)
  BY <1>3, <1>8, <1>9, <1>10, <1>11 DEF Blocks
<1> QED
  BY <1>12

(* An address stays good while nonces grow.                                *)
LEMMA GoodAccessStays ==
    ASSUME NEW a, NEW made \in [BOOLEAN -> Nat], NEW made2 \in [BOOLEAN -> Nat],
           \A b \in BOOLEAN : made[b] <= made2[b], GoodAccess(a, made)
    PROVE  GoodAccess(a, made2)
<1>1. PICK b : b = a.onNetwork
  OBVIOUS
<1>2. PICK x, y : x = made[b] /\ y = made2[b]
  OBVIOUS
<1>3. b \in BOOLEAN /\ x \in Nat /\ y \in Nat /\ x <= y
  BY <1>1, <1>2 DEF GoodAccess
<1>4. CASE a.kind # "Create"
  BY <1>4 DEF GoodAccess
<1>5. CASE a.kind = "Create" /\ a.account = <<"create2", a.account[2], a.data>>
  BY <1>5 DEF GoodAccess
<1>6. CASE /\ a.kind = "Create" /\ a.account = <<"new", a.accessor, a.account[3]>>
           /\ a.account[3] \in Nat /\ a.account[3] <= x
           /\ a.accessor \in {Safe, Script} => a.account[3] < x
  <2>1. a.account[3] <= y /\ (a.accessor \in {Safe, Script} => a.account[3] < y)
    BY <1>3, <1>6
  <2> QED
    BY <1>1, <1>2, <1>6, <2>1 DEF GoodAccess
<1> QED
  BY <1>1, <1>2, <1>4, <1>5, <1>6 DEF GoodAccess

(* What follows an access that deploys or calls. *)
IsRecord(all, root, nested) ==
    /\ all = <<root>> \o nested /\ root.kind \in {"Call", "Create"} /\ nested \in Seq(ToSet(nested))
    /\ \A k \in 1 .. Len(nested) : nested[k].kind = "Create"

NumCreated(root, nested) == Len(nested) + IF root.kind = "Create" THEN 1 ELSE 0

(* An access and what is nested in it, as one sequence.                    *)
LEMMA RecordIs ==
    ASSUME NEW root, NEW nested, NEW all, IsRecord(all, root, nested)
    PROVE  /\ all \in Seq(ToSet(all)) /\ Len(all) = 1 + Len(nested) /\ Len(nested) \in Nat
           /\ DOMAIN all = 1 .. 1 + Len(nested) /\ all[1] = root
           /\ \A k \in 1 .. Len(nested) : all[k + 1] = nested[k]
           /\ \A i \in 1 .. Len(all) : i = 1 \/ \E k \in 1 .. Len(nested) : i = k + 1
<1>1. nested \in Seq(ToSet(nested))
  BY DEF IsRecord
<1>2. PICK one : one = <<root>>
  OBVIOUS
<1>3. one \in Seq(ToSet(one)) /\ Len(one) = 1 /\ one[1] = root
  BY <1>2 DEF ToSet
<1>4. /\ one \o nested \in Seq(ToSet(one \o nested)) /\ Len(nested) \in Nat
      /\ Len(one \o nested) = Len(one) + Len(nested)
      /\ \A i \in 1 .. Len(one) + Len(nested) :
            (one \o nested)[i] = IF i <= Len(one) THEN one[i] ELSE nested[i - Len(one)]
  BY <1>1, <1>3, ConcatIs
<1>5. /\ all \in Seq(ToSet(all)) /\ Len(all) = 1 + Len(nested)
      /\ \A i \in 1 .. 1 + Len(nested) : all[i] = IF i <= 1 THEN one[i] ELSE nested[i - 1]
  BY <1>2, <1>3, <1>4 DEF IsRecord
<1>6. DOMAIN all = 1 .. 1 + Len(nested)
  BY <1>4, <1>5
<1>7. all[1] = root
  <2>1. 1 \in 1 .. 1 + Len(nested) /\ 1 <= 1
    BY <1>4
  <2> QED
    BY <1>3, <1>5, <2>1
<1>8. ASSUME NEW k \in 1 .. Len(nested) PROVE all[k + 1] = nested[k]
  <2>1. PICK i : i = k + 1
    OBVIOUS
  <2>2. i \in 1 .. 1 + Len(nested) /\ ~(i <= 1) /\ i - 1 = k
    BY <1>4, <2>1
  <2> QED
    BY <1>5, <2>1, <2>2
<1>9. ASSUME NEW i \in 1 .. Len(all), i # 1 PROVE \E k \in 1 .. Len(nested) : i = k + 1
  <2>1. i - 1 \in 1 .. Len(nested) /\ i = (i - 1) + 1
    BY <1>4, <1>5, <1>9
  <2> QED
    BY <2>1
<1> QED
  BY <1>4, <1>5, <1>6, <1>7, <1>8, <1>9

(* What history keeps of it.                                               *)
LEMMA CreatesOf ==
    ASSUME NEW root, NEW nested, NEW all, IsRecord(all, root, nested)
    PROVE  /\ Len(Creates(all)) = NumCreated(root, nested)
           /\ ToSet(Creates(all)) = {a \in ToSet(all) : a.kind = "Create"}
           /\ DOMAIN Creates(all) = 1 .. Len(Creates(all))
<1>1. /\ all \in Seq(ToSet(all)) /\ Len(all) = 1 + Len(nested) /\ Len(nested) \in Nat
      /\ DOMAIN all = 1 .. 1 + Len(nested) /\ all[1] = root
      /\ \A k \in 1 .. Len(nested) : all[k + 1] = nested[k]
      /\ \A i \in 1 .. Len(all) : i = 1 \/ \E k \in 1 .. Len(nested) : i = k + 1
  BY RecordIs
<1>2. PICK T, S : T = ToSet(all) /\ S = {a \in ToSet(all) : a.kind = "Create"}
  OBVIOUS
<1>3. Creates(all) = SelectIn(all, S) /\ all \in Seq(T)
  BY <1>1, <1>2 DEF Creates
<1>4. \A i \in 1 .. Len(all) : all[i] \in S <=> all[i].kind = "Create"
  BY <1>1, <1>2 DEF ToSet
<1>5. \A k \in 1 .. Len(nested) : all[k + 1].kind = "Create"
  BY <1>1 DEF IsRecord
<1>6. Len(SelectIn(all, S)) = NumCreated(root, nested)
  <2>1. CASE root.kind = "Create"
    <3>1. PICK a, n : a = 0 /\ n = 1 + Len(nested)
      OBVIOUS
    <3>2. a \in Nat /\ n \in Nat /\ a + n <= Len(all)
      BY <1>1, <3>1
    <3>3. \A i \in 1 .. Len(all) : all[i] \in S
      BY <1>1, <1>4, <1>5, <2>1
    <3>4. \A i \in 1 .. Len(all) : a < i /\ i <= a + n
      BY <1>1, <3>1
    <3>5. Len(SelectIn(all, S)) = n
      BY <1>3, <3>2, <3>3, <3>4, SelectInRun
    <3> QED
      BY <1>1, <2>1, <3>1, <3>5 DEF NumCreated
  <2>2. CASE root.kind # "Create"
    <3>1. PICK a, n : a = 1 /\ n = Len(nested)
      OBVIOUS
    <3>2. a \in Nat /\ n \in Nat /\ a + n <= Len(all)
      BY <1>1, <3>1
    <3>3. \A i \in 1 .. Len(all) : all[i] \in S <=> i # 1
      BY <1>1, <1>4, <1>5, <2>2
    <3>4. \A i \in 1 .. Len(all) : i # 1 <=> a < i /\ i <= a + n
      BY <1>1, <3>1
    <3>5. \A i \in 1 .. Len(all) : all[i] \in S <=> a < i /\ i <= a + n
      BY <3>3, <3>4
    <3>6. Len(SelectIn(all, S)) = n
      BY <1>3, <3>2, <3>5, SelectInRun
    <3> QED
      BY <1>1, <2>2, <3>1, <3>6 DEF NumCreated
  <2> QED
    BY <2>1, <2>2
<1>7. ToSet(SelectIn(all, S)) = T \cap S
  BY <1>2, <1>3, SelectInElements
<1>8. SelectIn(all, S) \in Seq(S)
  BY <1>3, SelectInType
<1>9. DOMAIN SelectIn(all, S) = 1 .. Len(SelectIn(all, S))
  BY <1>8
<1> QED
  BY <1>2, <1>3, <1>6, <1>7, <1>9

(* What the script may record as a transaction of the Safe. *)
IsTransaction(type, all, root, nested) ==
    /\ IsRecord(all, root, nested) /\ IsOfType(type, all, 1, Len(nested))
    /\ root.accessor = Safe /\ root.depth = CallDepth /\ root.account # Utils
    /\ \A k \in 1 .. Len(nested) : nested[k].accessor \notin {Safe, Script}
    /\ OneCode(all)

(* Addresses on the active fork were not used there. *)
IsFresh(all, made) ==
    \A k \in 1 .. Len(all) :
        /\ GoodAccess(all[k], made) /\ all[k].onNetwork = onNetwork
        /\ all[k].kind = "Create" =>
              \A i \in 1 .. Len(accesses) :
                  accesses[i].kind = "Create" /\ accesses[i].onNetwork = onNetwork =>
                      accesses[i].account # all[k].account

NoncesAfter(m) == [nonce EXCEPT ![onNetwork] = @ + m]

(* The history of a transaction is true of what is recorded of it.         *)
LEMMA PerformsNow ==
    ASSUME NEW type, NEW all, NEW root, NEW nested, IsTransaction(type, all, root, nested),
           NEW log, NEW L \in Nat, Len(log) = L + Len(all),
           \A i \in 1 .. Len(all) : log[L + i] = all[i] /\ all[i].onNetwork,
           NEW tx, tx.type = type, tx.to = root.account, tx.gas = root.gas,
           tx.created = {[address |-> Creates(all)[k].account, init |-> Creates(all)[k].data] :
                            k \in DOMAIN Creates(all)}
    PROVE  isRootAccountAccess(log[L + 1]) /\ Performs(tx, log, L + 1, Len(nested))
<1>1. IsRecord(all, root, nested)
  BY DEF IsTransaction
<1>2. /\ all \in Seq(ToSet(all)) /\ Len(all) = 1 + Len(nested) /\ Len(nested) \in Nat
      /\ DOMAIN all = 1 .. 1 + Len(nested) /\ all[1] = root
      /\ \A k \in 1 .. Len(nested) : all[k + 1] = nested[k]
      /\ \A i \in 1 .. Len(all) : i = 1 \/ \E k \in 1 .. Len(nested) : i = k + 1
  BY <1>1, RecordIs
<1>3. PICK n, p : n = Len(nested) /\ p = L + 1
  OBVIOUS
<1>4. n \in Nat /\ p \in Nat /\ Len(all) = 1 + n /\ p + n <= Len(log)
  BY <1>2, <1>3
<1>5. log[p] = root /\ root.onNetwork
  <2>1. 1 \in 1 .. Len(all)
    BY <1>4
  <2> QED
    BY <1>2, <1>3, <2>1
<1>6. root.kind \in {"Call", "Create"}
  BY <1>1 DEF IsRecord
<1>7. isRootAccountAccess(log[p])
  BY <1>5, <1>6 DEF isRootAccountAccess, IsTransaction
<1>8. ASSUME NEW j \in p + 1 .. p + n PROVE IsNested(log[j])
  <2>1. PICK i, k : i = j - L /\ k = i - 1
    OBVIOUS
  <2>2. i \in 1 .. Len(all) /\ k \in 1 .. n /\ L + i = j /\ k + 1 = i
    BY <1>3, <1>4, <2>1
  <2>3. log[j] = nested[k] /\ log[j].onNetwork
    BY <1>2, <1>3, <2>2
  <2>4. nested[k].kind = "Create" /\ nested[k].accessor \notin {Safe, Script}
    BY <1>1, <1>3, <2>2 DEF IsRecord, IsTransaction
  <2> QED
    BY <2>3, <2>4 DEF IsNested
<1>9. IsOfType(tx.type, log, p, n)
  <2>1. IsOfType(type, all, 1, n)
    BY <1>3 DEF IsTransaction
  <2>2. log[p] = all[1]
    BY <1>2, <1>5
  <2>3. n = 1 => log[p + 1] = all[1 + 1]
    <3>1. SUFFICES ASSUME n = 1 PROVE log[p + 1] = all[1 + 1]
      OBVIOUS
    <3>2. PICK i : i = 1 + 1
      OBVIOUS
    <3>3. i \in 1 .. Len(all) /\ L + i = p + 1
      BY <1>3, <1>4, <3>1, <3>2
    <3>4. log[L + i] = all[i]
      BY <3>3
    <3> QED
      BY <3>2, <3>3, <3>4
  <2> QED
    BY <2>1, <2>2, <2>3 DEF IsOfType
<1>10. tx.created = {[address |-> log[j].account, init |-> log[j].data] :
                        j \in {i \in p .. p + n : log[i].kind = "Create"}}
  <2>1. PICK C, created : C = {a \in ToSet(all) : a.kind = "Create"} /\ created = Creates(all)
    OBVIOUS
  <2>2. C = {created[k] : k \in DOMAIN created}
    BY <1>1, <2>1, CreatesOf DEF ToSet
  <2>3. C = {log[j] : j \in {i \in p .. p + n : log[i].kind = "Create"}}
    <3>1. ASSUME NEW a \in C PROVE \E j \in p .. p + n : log[j] = a /\ a.kind = "Create"
      <4>1. PICK i \in 1 .. Len(all) : a = all[i] /\ a.kind = "Create"
        BY <1>2, <2>1 DEF ToSet
      <4>2. L + i \in p .. p + n
        BY <1>3, <1>4
      <4> QED
        BY <4>1, <4>2
    <3>2. ASSUME NEW j \in p .. p + n, log[j].kind = "Create" PROVE log[j] \in C
      <4>1. PICK i : i = j - L
        OBVIOUS
      <4>2. i \in 1 .. Len(all) /\ L + i = j
        BY <1>3, <1>4, <4>1
      <4>3. log[j] = all[i] /\ all[i] \in ToSet(all)
        BY <1>2, <4>2 DEF ToSet
      <4> QED
        BY <2>1, <3>2, <4>3
    <3> QED
      BY <3>1, <3>2
  <2>4. tx.created = {[address |-> created[k].account, init |-> created[k].data] :
                         k \in DOMAIN created}
    BY <2>1
  <2>5. tx.created = {[address |-> a.account, init |-> a.data] : a \in C}
    BY <2>2, <2>4
  <2>6. {[address |-> log[j].account, init |-> log[j].data] :
            j \in {i \in p .. p + n : log[i].kind = "Create"}}
        = {[address |-> a.account, init |-> a.data] : a \in C}
    BY <2>3
  <2> QED
    BY <2>5, <2>6
<1>11. tx.to = log[p].account /\ tx.gas = log[p].gas
  BY <1>5
<1>12. Performs(tx, log, p, n)
  BY <1>4, <1>8, <1>9, <1>10, <1>11 DEF Performs
<1> QED
  BY <1>3, <1>7, <1>12

(* A transaction keeps the invariant, recorded on the network or elsewhere. *)
LEMMA RecordKeeps ==
    ASSUME CollectionOK, NEW type, NEW root, NEW nested, Record(type, root, nested),
           NEW all, IsTransaction(type, all, root, nested),
           IsFresh(all, NoncesAfter(NumCreated(root, nested)))
    PROVE  CollectionOK'
<1>1. IsRecord(all, root, nested)
  BY DEF IsTransaction
<1>2. /\ all \in Seq(ToSet(all)) /\ Len(all) = 1 + Len(nested) /\ Len(nested) \in Nat
      /\ DOMAIN all = 1 .. 1 + Len(nested) /\ all[1] = root
  BY <1>1, RecordIs
<1>3. PICK m, tx :
         /\ m = NumCreated(root, nested)
         /\ tx = [type |-> type, to |-> root.account, gas |-> root.gas,
                  created |-> {[address |-> Creates(all)[k].account,
                                init |-> Creates(all)[k].data] : k \in DOMAIN Creates(all)}]
  OBVIOUS
<1>4. all = <<root>> \o nested /\ Len(Creates(all)) = m
  BY <1>1, <1>3, CreatesOf DEF IsRecord
<1>5. /\ accesses' = accesses \o all /\ nonce' = NoncesAfter(m)
      /\ executed' = IF ~onNetwork THEN executed ELSE Append(executed, tx)
      /\ UNCHANGED <<network, funds, onNetwork>>
  BY <1>3, <1>4 DEF Record, NoncesAfter
<1>6. m \in Nat
  BY <1>2, <1>3 DEF NumCreated
<1>7. /\ onNetwork \in BOOLEAN /\ nonce \in [BOOLEAN -> Nat]
      /\ nonce' \in [BOOLEAN -> Nat] /\ \A b \in BOOLEAN : nonce[b] <= nonce'[b]
  <2>1. onNetwork \in BOOLEAN /\ nonce \in [BOOLEAN -> Nat]
    BY DEF CollectionOK
  <2>2. PICK b, x : b = onNetwork /\ x = nonce[b] + m
    OBVIOUS
  <2>3. b \in BOOLEAN /\ x \in Nat /\ nonce[b] <= x
    BY <1>6, <2>1, <2>2
  <2>4. nonce' = [nonce EXCEPT ![b] = x]
    BY <1>5, <2>2 DEF NoncesAfter
  <2> QED
    BY <2>1, <2>3, <2>4
<1>8. accesses \in Seq(ToSet(accesses)) /\ executed \in Seq(ToSet(executed))
  BY DEF CollectionOK, IsSeq
<1>9. PICK L, log : L = Len(accesses) /\ log = accesses'
  OBVIOUS
<1>10. /\ log \in Seq(ToSet(log)) /\ L \in Nat /\ Len(log) = L + Len(all)
       /\ \A i \in 1 .. L + Len(all) : log[i] = IF i <= L THEN accesses[i] ELSE all[i - L]
  BY <1>2, <1>5, <1>8, <1>9, ConcatIs
<1>11. \A i \in 1 .. L : log[i] = accesses[i]
  BY <1>2, <1>10
<1>12. \A i \in 1 .. Len(all) : L + i \in 1 .. Len(log) /\ log[L + i] = all[i]
  <2>1. ASSUME NEW i \in 1 .. Len(all) PROVE L + i \in 1 .. Len(log) /\ log[L + i] = all[i]
    <3>1. PICK j : j = L + i
      OBVIOUS
    <3>2. j \in 1 .. L + Len(all) /\ ~(j <= L) /\ j - L = i
      BY <1>2, <1>10, <3>1
    <3>3. log[j] = all[i]
      BY <1>10, <3>2
    <3> QED
      BY <1>10, <3>1, <3>2, <3>3
  <2> QED
    BY <2>1
<1>13. ASSUME NEW j \in 1 .. Len(log)
       PROVE  j \in 1 .. L \/ \E i \in 1 .. Len(all) : j = L + i
  <2>1. j \in 1 .. L \/ (j - L \in 1 .. Len(all) /\ j = L + (j - L))
    BY <1>2, <1>10
  <2> QED
    BY <2>1
<1>14. Prolongs(log, accesses)
  BY <1>2, <1>9, <1>10, <1>11 DEF Prolongs
<1>15. \A j \in 1 .. Len(log) : GoodAccess(log[j], nonce')
  <2>1. ASSUME NEW j \in 1 .. L PROVE GoodAccess(log[j], nonce')
    <3>1. GoodAccess(accesses[j], nonce)
      BY <1>9 DEF CollectionOK
    <3>2. GoodAccess(accesses[j], nonce')
      BY <1>7, <3>1, GoodAccessStays
    <3> QED
      BY <1>11, <3>2
  <2>2. ASSUME NEW i \in 1 .. Len(all) PROVE GoodAccess(log[L + i], nonce')
    BY <1>3, <1>5, <1>12 DEF IsFresh
  <2> QED
    BY <1>13, <2>1, <2>2
<1>16. \A i \in 1 .. Len(all) : all[i].onNetwork = onNetwork
  BY DEF IsFresh
<1>17. OneCode(log)
  <2>1. ASSUME NEW i \in 1 .. Len(log), NEW j \in 1 .. Len(log),
               log[i].kind = "Create", log[j].kind = "Create",
               log[i].onNetwork = log[j].onNetwork, log[i].account = log[j].account
        PROVE  log[i].data = log[j].data
    <3>1. CASE i \in 1 .. L /\ j \in 1 .. L
      <4>1. OneCode(accesses)
        BY DEF CollectionOK
      <4> QED
        BY <1>9, <1>11, <2>1, <3>1, <4>1 DEF OneCode
    <3>2. ASSUME NEW a \in 1 .. Len(all), NEW b \in 1 .. Len(all), i = L + a, j = L + b
          PROVE  log[i].data = log[j].data
      <4>1. OneCode(all)
        BY DEF IsTransaction
      <4>2. log[i] = all[a] /\ log[j] = all[b]
        BY <1>12, <3>2
      <4> QED
        BY <2>1, <4>1, <4>2 DEF OneCode
    <3>3. ASSUME NEW o \in 1 .. L, NEW a \in 1 .. Len(all),
                 log[o].kind = "Create", log[L + a].kind = "Create",
                 log[o].onNetwork = log[L + a].onNetwork, log[o].account = log[L + a].account
          PROVE  FALSE
      <4>1. log[o] = accesses[o] /\ log[L + a] = all[a] /\ o \in 1 .. Len(accesses)
        BY <1>9, <1>11, <1>12
      <4>2. accesses[o].onNetwork = onNetwork
        BY <1>16, <3>3, <4>1
      <4>3. accesses[o].account # all[a].account
        BY <3>3, <4>1, <4>2 DEF IsFresh
      <4> QED
        BY <3>3, <4>1, <4>3
    <3> QED
      BY <1>13, <2>1, <3>1, <3>2, <3>3
  <2> QED
    BY <2>1 DEF OneCode
<1>18. PICK pos, len : Blocks(pos, len, accesses, executed)
  BY DEF CollectionOK
<1>19. Len(executed) \in Nat
  BY <1>8
<1>20. IsSeq(executed') /\ \E pos2, len2 : Blocks(pos2, len2, log, executed')
  <2>1. CASE ~onNetwork
    <3>1. executed' = executed
      BY <1>5, <2>1
    <3>2. ASSUME NEW j \in Len(accesses) + 1 .. Len(log)
          PROVE  ~log[j].onNetwork
      <4>1. j \notin 1 .. L /\ j \in 1 .. Len(log)
        BY <1>9, <1>10
      <4>2. PICK i \in 1 .. Len(all) : j = L + i
        BY <1>13, <4>1
      <4>3. log[j].onNetwork = onNetwork
        BY <1>12, <1>16, <4>2
      <4> QED
        BY <2>1, <4>3
    <3>3. Blocks(pos, len, log, executed)
      <4>1. \A j \in Len(accesses) + 1 .. Len(log) : ~isRootAccountAccess(log[j])
        BY <3>2 DEF isRootAccountAccess
      <4> QED
        BY <1>14, <1>18, <1>19, <3>2, <4>1, BlocksStay
    <3> QED
      BY <1>8, <3>1, <3>3 DEF IsSeq
  <2>2. CASE onNetwork
    <3>1. executed' = Append(executed, tx)
      BY <1>5, <2>2
    <3>2. PICK ex : ex = executed'
      OBVIOUS
    <3>3. Adds(ex, executed, tx)
      BY <1>8, <1>19, <3>1, <3>2 DEF Adds
    <3>4. ex \in Seq(ToSet(ex))
      <4>1. PICK T : T = ToSet(executed) \cup {tx}
        OBVIOUS
      <4>2. executed \in Seq(T) /\ tx \in T
        BY <1>8, <4>1
      <4>3. ex \in Seq(T)
        BY <3>1, <3>2, <4>2
      <4> QED
        BY <4>3, SequenceOfElements
    <3>5. \A i \in 1 .. Len(all) : log[L + i] = all[i] /\ all[i].onNetwork
      BY <1>12, <1>16, <2>2
    <3>6. /\ tx.type = type /\ tx.to = root.account /\ tx.gas = root.gas
          /\ tx.created = {[address |-> Creates(all)[k].account,
                            init |-> Creates(all)[k].data] : k \in DOMAIN Creates(all)}
      BY <1>3
    <3>7. isRootAccountAccess(log[L + 1]) /\ Performs(tx, log, L + 1, Len(nested))
      BY SMTT(20), <1>10, <3>5, <3>6, PerformsNow
    <3>8. PICK n : n = Len(nested)
      OBVIOUS
    <3>9. n \in Nat /\ Len(log) = L + 1 + n
      BY <1>2, <1>10, <3>8
    <3>10. \E pos2, len2 : Blocks(pos2, len2, log, ex)
      BY <1>9, <1>14, <1>18, <3>3, <3>7, <3>8, <3>9, BlocksGrow
    <3> QED
      BY <3>2, <3>4, <3>10 DEF IsSeq
  <2> QED
    BY <2>1, <2>2
<1>21. network' \in Networks /\ funds' \in Nat /\ onNetwork' \in BOOLEAN
  BY <1>5 DEF CollectionOK
<1> QED
  BY <1>7, <1>9, <1>10, <1>15, <1>17, <1>20, <1>21 DEF CollectionOK, IsSeq

(* The addresses of contracts that are created now were not used.          *)
LEMMA NewIsFresh ==
    ASSUME CollectionOK, NEW i \in 1 .. Len(accesses), accesses[i].kind = "Create",
           accesses[i].onNetwork = onNetwork, NEW x, NEW k \in Nat,
           accesses[i].account = <<"new", x, nonce[onNetwork] + k>>
    PROVE  k = 0 /\ x \notin {Safe, Script}
<1>1. PICK a, N : a = accesses[i] /\ N = nonce[onNetwork]
  OBVIOUS
<1>2. N \in Nat /\ GoodAccess(a, nonce)
  BY <1>1 DEF CollectionOK
<1>3. a.account = <<"new", x, N + k>> /\ a.account[3] = N + k /\ a.account[1] = "new"
  BY <1>1
<1>4. nonce[a.onNetwork] = N
  BY <1>1
<1>5. a.account # <<"create2", a.account[2], a.data>>
  BY <1>3
<1>6. /\ a.account = <<"new", a.accessor, a.account[3]>> /\ a.account[3] <= N
      /\ a.accessor \in {Safe, Script} => a.account[3] < N
  BY <1>1, <1>2, <1>4, <1>5 DEF GoodAccess
<1>7. x = a.accessor
  BY <1>3, <1>6
<1>8. N + k <= N /\ (a.accessor \in {Safe, Script} => N + k < N)
  BY <1>3, <1>6
<1> QED
  BY <1>2, <1>7, <1>8

(* An access of the active fork. *)
IsAccess(a, kind, accessor, account, data, depth, gas) ==
    /\ a.kind = kind /\ a.accessor = accessor /\ a.account = account /\ a.data = data
    /\ a.depth = depth /\ a.gas = gas /\ a.onNetwork = onNetwork

(* What an access is.                                                      *)
LEMMA AccessIs ==
    ASSUME NEW kind, NEW accessor, NEW account, NEW data, NEW depth, NEW gas, NEW value
    PROVE  IsAccess(Access(kind, accessor, account, data, depth, gas, value),
                    kind, accessor, account, data, depth, gas)
BY DEF IsAccess, Access

(* Accesses of contracts that accessor creates, and m is not too low. *)
AreNested(nested, accessor, m) ==
    /\ nested \in Seq(ToSet(nested)) /\ Len(nested) \in Nat
    /\ \A k \in 1 .. Len(nested) :
          /\ nested[k].kind = "Create" /\ nested[k].accessor = accessor
          /\ nested[k].onNetwork = onNetwork
          /\ nested[k].account = <<"new", accessor, nonce[onNetwork] + k>>
          /\ GoodAccess(nested[k], NoncesAfter(m))
          /\ \A i \in 1 .. Len(accesses) :
                accesses[i].kind = "Create" /\ accesses[i].onNetwork = onNetwork =>
                    accesses[i].account # nested[k].account

(* What a constructor or a callee creates.                                 *)
LEMMA NestedAre ==
    ASSUME CollectionOK, NEW accessor, accessor \notin {Safe, Script},
           NEW inits \in Seq(InitCode), NEW m \in Nat, Len(inits) <= m
    PROVE  /\ Len(Nested(accessor, inits)) = Len(inits)
           /\ AreNested(Nested(accessor, inits), accessor, m)
<1>0. PICK nested : nested = Nested(accessor, inits)
  OBVIOUS
<1>1. PICK N, b : b = onNetwork /\ N = nonce[b]
  OBVIOUS
<1>2. b \in BOOLEAN /\ nonce \in [BOOLEAN -> Nat] /\ N \in Nat
  BY <1>1 DEF CollectionOK
<1>3. NoncesAfter(m)[b] = N + m
  BY <1>1, <1>2 DEF NoncesAfter
<1>4. DOMAIN inits = 1 .. Len(inits) /\ Len(inits) \in Nat
  OBVIOUS
<1>5. nested = [k \in 1 .. Len(inits) |->
                   Creation(accessor, <<"new", accessor, N + k>>, inits[k], CallDepth + 1, 0)]
  BY <1>0, <1>1, <1>4 DEF Nested
<1>6. DOMAIN nested = 1 .. Len(inits)
  BY <1>5
<1>7. nested \in Seq(ToSet(nested)) /\ Len(nested) = Len(inits)
  <2>1. nested \in [1 .. Len(inits) -> ToSet(nested)]
    BY <1>5, <1>6 DEF ToSet
  <2> QED
    BY <1>4, <2>1
<1>8. ASSUME NEW k \in 1 .. Len(inits)
      PROVE  /\ nested[k].kind = "Create" /\ nested[k].accessor = accessor
             /\ nested[k].onNetwork = b /\ nested[k].gas = 0
             /\ nested[k].account = <<"new", accessor, N + k>>
  <2>1. nested[k] = Access("Create", accessor, <<"new", accessor, N + k>>, inits[k],
                           CallDepth + 1, 0, 0)
    BY <1>5 DEF Creation
  <2>2. PICK a : a = nested[k]
    OBVIOUS
  <2>3. IsAccess(a, "Create", accessor, <<"new", accessor, N + k>>, inits[k], CallDepth + 1, 0)
    BY <2>1, <2>2, AccessIs
  <2> QED
    BY <1>1, <2>2, <2>3 DEF IsAccess
<1>9. ASSUME NEW k \in 1 .. Len(inits) PROVE GoodAccess(nested[k], NoncesAfter(m))
  <2>1. PICK a, made : a = nested[k] /\ made = NoncesAfter(m)
    OBVIOUS
  <2>2. /\ a.kind = "Create" /\ a.accessor = accessor /\ a.onNetwork = b /\ a.gas = 0
        /\ a.account = <<"new", accessor, N + k>>
    BY <1>8, <2>1
  <2>3. N + k \in Nat /\ N + k <= N + m
    BY <1>2, <1>4
  <2>4. a.account \notin {Safe, Script} /\ a.account[3] = N + k
    BY <2>2 DEF Safe, Script
  <2>5. made[a.onNetwork] = N + m
    BY <1>3, <2>1, <2>2
  <2>6. a.accessor \notin {Safe, Script}
    BY <2>2
  <2>7. a.onNetwork \in BOOLEAN
    BY <1>2, <2>2
  <2>8. GoodAccess(a, made)
    BY <2>2, <2>3, <2>4, <2>5, <2>6, <2>7 DEF GoodAccess
  <2> QED
    BY <2>1, <2>8
<1>10. ASSUME NEW k \in 1 .. Len(inits), NEW i \in 1 .. Len(accesses),
              accesses[i].kind = "Create", accesses[i].onNetwork = onNetwork
       PROVE  accesses[i].account # nested[k].account
  <2>1. SUFFICES ASSUME accesses[i].account = nested[k].account PROVE FALSE
    OBVIOUS
  <2>2. k \in Nat /\ k # 0
    BY <1>4
  <2>3. accesses[i].account = <<"new", accessor, nonce[onNetwork] + k>>
    BY <1>1, <1>8, <2>1
  <2> QED
    BY <1>10, <2>2, <2>3, NewIsFresh
<1>11. AreNested(nested, accessor, m)
  BY <1>1, <1>4, <1>7, <1>8, <1>9, <1>10 DEF AreNested
<1> QED
  BY <1>0, <1>7, <1>11

(* A contract that the Safe deploys.                                       *)
LEMMA DeployKeeps ==
    ASSUME CollectionOK, NEW init \in InitCode, NEW inner \in Inner, NEW gas \in GasUsed,
           Deploy(init, inner, gas)
    PROVE  CollectionOK'
<1>1. PICK N, b, address : b = onNetwork /\ N = nonce[b] /\ address = <<"new", Safe, N>>
  OBVIOUS
<1>2. b \in BOOLEAN /\ nonce \in [BOOLEAN -> Nat] /\ N \in Nat
  BY <1>1 DEF CollectionOK
<1>3. inner \in Seq(InitCode) /\ gas \in Nat
  BY CollectionAssumption
<1>4. PICK root, nested, m :
         /\ root = Access("Create", Safe, address, init, CallDepth, gas, 0)
         /\ nested = Nested(address, inner) /\ m = Len(inner) + 1
  OBVIOUS
<1>5. Record("CREATE", root, nested)
  BY <1>1, <1>4 DEF Deploy, Creation
<1>6. IsAccess(root, "Create", Safe, address, init, CallDepth, gas)
  BY <1>4, AccessIs
<1>7. address \notin {Safe, Script, Utils} /\ address[3] = N
  BY <1>1 DEF Safe, Script, Utils
<1>8. AreNested(nested, address, m) /\ Len(nested) = Len(inner) /\ m \in Nat
  <2>1. m \in Nat /\ Len(inner) <= m
    BY <1>3, <1>4
  <2> QED
    BY <1>3, <1>4, <1>7, <2>1, NestedAre
<1>9. PICK all : all = <<root>> \o nested
  OBVIOUS
<1>10. IsRecord(all, root, nested) /\ m = NumCreated(root, nested)
  <2>1. root.kind = "Create"
    BY <1>6 DEF IsAccess
  <2> QED
    BY <1>4, <1>8, <1>9, <2>1 DEF IsRecord, AreNested, NumCreated
<1>11. /\ Len(all) = 1 + Len(nested) /\ all[1] = root
       /\ \A k \in 1 .. Len(nested) : all[k + 1] = nested[k]
       /\ \A i \in 1 .. Len(all) : i = 1 \/ \E k \in 1 .. Len(nested) : i = k + 1
  <2>1. IsRecord(all, root, nested)
    BY <1>10
  <2>2. /\ all \in Seq(ToSet(all)) /\ Len(all) = 1 + Len(nested) /\ Len(nested) \in Nat
        /\ DOMAIN all = 1 .. 1 + Len(nested) /\ all[1] = root
        /\ \A k \in 1 .. Len(nested) : all[k + 1] = nested[k]
        /\ \A i \in 1 .. Len(all) : i = 1 \/ \E k \in 1 .. Len(nested) : i = k + 1
    BY <2>1, RecordIs
  <2> QED
    BY <2>2
<1>12. GoodAccess(root, NoncesAfter(m))
  <2>1. PICK made : made = NoncesAfter(m)
    OBVIOUS
  <2>2. made[b] = N + m
    <3>1. made = [nonce EXCEPT ![b] = @ + m]
      BY <1>1, <2>1 DEF NoncesAfter
    <3> QED
      BY <1>1, <1>2, <3>1
  <2>3. root.onNetwork = b /\ root.account = address /\ root.kind = "Create" /\ root.gas \in Nat
        /\ root.accessor = Safe
    BY <1>1, <1>3, <1>6 DEF IsAccess
  <2>4. N < N + m
    BY <1>2, <1>3, <1>4
  <2>5. root.account = <<"new", root.accessor, root.account[3]>> /\ root.account[3] = N
    BY <1>1, <1>7, <2>3
  <2>6. root.onNetwork \in BOOLEAN /\ made[root.onNetwork] = N + m /\ N <= N + m
    <3>1. N <= N + m
      BY <1>2, <1>8, <2>4
    <3> QED
      BY <1>2, <2>2, <2>3, <3>1
  <2>7. root.account \notin {Safe, Script}
    BY <1>7, <2>3
  <2>8. GoodAccess(root, made)
    BY <1>2, <2>3, <2>4, <2>5, <2>6, <2>7 DEF GoodAccess
  <2> QED
    BY <2>1, <2>8
<1>13. ASSUME NEW i \in 1 .. Len(accesses), accesses[i].kind = "Create",
              accesses[i].onNetwork = onNetwork
       PROVE  accesses[i].account # root.account
  <2>1. SUFFICES ASSUME accesses[i].account = root.account PROVE FALSE
    OBVIOUS
  <2>2. PICK k : k = 0
    OBVIOUS
  <2>3. N + k = N /\ k \in Nat
    BY <1>2, <2>2
  <2>4. accesses[i].account = <<"new", Safe, nonce[onNetwork] + k>>
    BY <1>1, <1>6, <2>1, <2>3 DEF IsAccess
  <2> QED
    BY <1>13, <2>3, <2>4, NewIsFresh
<1>14. IsFresh(all, NoncesAfter(m))
  <2>1. ASSUME NEW i \in 1 .. Len(accesses), accesses[i].kind = "Create",
               accesses[i].onNetwork = onNetwork, NEW k \in 1 .. Len(nested)
        PROVE  accesses[i].account # nested[k].account
    BY <1>8, <2>1 DEF AreNested
  <2>2. \A k \in 1 .. Len(nested) :
           GoodAccess(nested[k], NoncesAfter(m)) /\ nested[k].onNetwork = onNetwork
    BY <1>8 DEF AreNested
  <2>3. root.onNetwork = onNetwork
    BY <1>6 DEF IsAccess
  <2>4. ASSUME NEW k \in 1 .. Len(all)
        PROVE  /\ GoodAccess(all[k], NoncesAfter(m)) /\ all[k].onNetwork = onNetwork
               /\ \A i \in 1 .. Len(accesses) :
                     accesses[i].kind = "Create" /\ accesses[i].onNetwork = onNetwork =>
                         accesses[i].account # all[k].account
    <3>1. CASE k = 1
      BY <1>11, <1>12, <1>13, <2>3, <3>1
    <3>2. ASSUME NEW l \in 1 .. Len(nested), k = l + 1 PROVE all[k] = nested[l]
      BY <1>11, <3>2
    <3> QED
      BY <1>11, <2>1, <2>2, <3>1, <3>2
  <2> QED
    BY <2>4 DEF IsFresh
<1>15. OneCode(all)
  <2>1. ASSUME NEW i \in 1 .. Len(all), NEW j \in 1 .. Len(all), all[i].account = all[j].account
        PROVE  i = j
    <3>1. all[1].account = <<"new", Safe, N>>
      BY <1>1, <1>6, <1>11 DEF IsAccess
    <3>2. \A k \in 1 .. Len(nested) : all[k + 1].account = <<"new", address, N + k>>
      BY <1>1, <1>8, <1>11 DEF AreNested
    <3>3. \A k \in 1 .. Len(nested) : all[k + 1].account[2] # all[1].account[2]
      BY <1>7, <3>1, <3>2
    <3>4. \A k \in 1 .. Len(nested) : all[k + 1].account[3] = N + k
      BY <3>2
    <3>5. \A k, l \in 1 .. Len(nested) : N + k = N + l => k + 1 = l + 1
      BY <1>2, <1>8
    <3>6. CASE i = 1
      BY <1>11, <2>1, <3>3, <3>6
    <3>7. CASE j = 1
      BY <1>11, <2>1, <3>3, <3>7
    <3>8. ASSUME NEW k \in 1 .. Len(nested), NEW l \in 1 .. Len(nested), i = k + 1, j = l + 1
          PROVE  i = j
      <4>1. all[i].account[3] = N + k /\ all[j].account[3] = N + l
        BY <3>4, <3>8
      <4> QED
        BY <2>1, <3>5, <3>8, <4>1
    <3> QED
      BY <1>11, <3>6, <3>7, <3>8
  <2> QED
    BY <2>1 DEF OneCode
<1>16. IsTransaction("CREATE", all, root, nested)
  <2>1. IsOfType("CREATE", all, 1, Len(nested))
    BY <1>6, <1>11 DEF IsOfType, IsAccess
  <2>2. root.accessor = Safe /\ root.depth = CallDepth /\ root.account # Utils
    BY <1>6, <1>7 DEF IsAccess
  <2>3. \A k \in 1 .. Len(nested) : nested[k].accessor \notin {Safe, Script}
    BY <1>7, <1>8 DEF AreNested
  <2> QED
    BY <1>10, <1>15, <2>1, <2>2, <2>3 DEF IsTransaction
<1> QED
  BY <1>5, <1>10, <1>14, <1>16, RecordKeeps

(* A contract that the Safe calls.                                         *)
LEMMA CallKeeps ==
    ASSUME CollectionOK, NEW to \in Callees, to \notin {Utils, Proxy}, NEW inner \in Inner,
           NEW gas \in GasUsed, Call(to, inner, gas)
    PROVE  CollectionOK'
<1>1. PICK N, b : b = onNetwork /\ N = nonce[b]
  OBVIOUS
<1>2. b \in BOOLEAN /\ nonce \in [BOOLEAN -> Nat] /\ N \in Nat
  BY <1>1 DEF CollectionOK
<1>3. inner \in Seq(InitCode) /\ gas \in Nat
  BY CollectionAssumption
<1>4. PICK root, nested, m :
         /\ root = Access("Call", Safe, to, "calldata", CallDepth, gas, 0)
         /\ nested = Nested(to, inner) /\ m = Len(inner)
  OBVIOUS
<1>5. Record("CALL", root, nested)
  BY <1>4 DEF Call
<1>6. IsAccess(root, "Call", Safe, to, "calldata", CallDepth, gas)
  BY <1>4, AccessIs
<1>7. to \notin {Safe, Script}
  <2>1. accesses \in Seq(ToSet(accesses))
    BY DEF CollectionOK, IsSeq
  <2>2. PICK k \in 1 .. Len(accesses) : to = accesses[k].account
    BY <2>1 DEF Callees
  <2>3. GoodAccess(accesses[k], nonce)
    BY DEF CollectionOK
  <2> QED
    BY <2>2, <2>3 DEF GoodAccess
<1>8. AreNested(nested, to, m) /\ Len(nested) = Len(inner) /\ m \in Nat
  <2>1. m \in Nat /\ Len(inner) <= m
    BY <1>3, <1>4
  <2> QED
    BY <1>3, <1>4, <1>7, <2>1, NestedAre
<1>9. PICK all : all = <<root>> \o nested
  OBVIOUS
<1>10. IsRecord(all, root, nested) /\ m = NumCreated(root, nested)
  <2>1. root.kind = "Call"
    BY <1>6 DEF IsAccess
  <2> QED
    BY <1>4, <1>8, <1>9, <2>1 DEF IsRecord, AreNested, NumCreated
<1>11. /\ Len(all) = 1 + Len(nested) /\ all[1] = root
       /\ \A k \in 1 .. Len(nested) : all[k + 1] = nested[k]
       /\ \A i \in 1 .. Len(all) : i = 1 \/ \E k \in 1 .. Len(nested) : i = k + 1
  <2>1. IsRecord(all, root, nested)
    BY <1>10
  <2> QED
    BY <2>1, RecordIs
<1>12. GoodAccess(root, NoncesAfter(m))
  <2>1. root.onNetwork = b /\ root.account = to /\ root.kind = "Call" /\ root.gas \in Nat
    BY <1>1, <1>3, <1>6 DEF IsAccess
  <2>2. root.onNetwork \in BOOLEAN
    BY <1>2, <2>1
  <2> QED
    BY <1>7, <2>1, <2>2 DEF GoodAccess
<1>13. IsFresh(all, NoncesAfter(m))
  <2>1. ASSUME NEW i \in 1 .. Len(accesses), accesses[i].kind = "Create",
               accesses[i].onNetwork = onNetwork, NEW k \in 1 .. Len(nested)
        PROVE  accesses[i].account # nested[k].account
    BY <1>8, <2>1 DEF AreNested
  <2>2. \A k \in 1 .. Len(nested) :
           GoodAccess(nested[k], NoncesAfter(m)) /\ nested[k].onNetwork = onNetwork
    BY <1>8 DEF AreNested
  <2>3. root.onNetwork = onNetwork /\ root.kind # "Create"
    BY <1>6 DEF IsAccess
  <2>4. ASSUME NEW k \in 1 .. Len(all)
        PROVE  /\ GoodAccess(all[k], NoncesAfter(m)) /\ all[k].onNetwork = onNetwork
               /\ all[k].kind = "Create" =>
                     \A i \in 1 .. Len(accesses) :
                        accesses[i].kind = "Create" /\ accesses[i].onNetwork = onNetwork =>
                            accesses[i].account # all[k].account
    <3>1. CASE k = 1
      BY <1>11, <1>12, <2>3, <3>1
    <3>2. ASSUME NEW l \in 1 .. Len(nested), k = l + 1 PROVE all[k] = nested[l]
      BY <1>11, <3>2
    <3> QED
      BY <1>11, <2>1, <2>2, <3>1, <3>2
  <2> QED
    BY <2>4 DEF IsFresh
<1>14. OneCode(all)
  <2>1. ASSUME NEW i \in 1 .. Len(all), NEW j \in 1 .. Len(all), all[i].kind = "Create",
               all[j].kind = "Create", all[i].account = all[j].account
        PROVE  i = j
    <3>1. PICK k \in 1 .. Len(nested), l \in 1 .. Len(nested) : i = k + 1 /\ j = l + 1
      <4>1. root.kind # "Create"
        BY <1>6 DEF IsAccess
      <4>2. i # 1 /\ j # 1
        BY <1>11, <2>1, <4>1
      <4> QED
        BY <1>11, <4>2
    <3>2. \A h \in 1 .. Len(nested) : nested[h].account = <<"new", to, N + h>>
      BY <1>1, <1>8 DEF AreNested
    <3>3. all[i] = nested[k] /\ all[j] = nested[l]
      BY <1>11, <3>1
    <3>4. all[i].account[3] = N + k /\ all[j].account[3] = N + l
      BY <3>2, <3>3
    <3>5. N + k = N + l => k = l
      BY <1>2, <1>8
    <3> QED
      BY <2>1, <3>1, <3>4, <3>5
  <2> QED
    BY <2>1 DEF OneCode
<1>15. IsTransaction("CALL", all, root, nested)
  <2>1. IsOfType("CALL", all, 1, Len(nested))
    BY <1>6, <1>11 DEF IsOfType, IsAccess
  <2>2. root.accessor = Safe /\ root.depth = CallDepth /\ root.account # Utils
    BY <1>6 DEF IsAccess
  <2>3. \A k \in 1 .. Len(nested) : nested[k].accessor \notin {Safe, Script}
    BY <1>7, <1>8 DEF AreNested
  <2> QED
    BY <1>10, <1>14, <2>1, <2>2, <2>3 DEF IsTransaction
<1> QED
  BY <1>5, <1>10, <1>13, <1>15, RecordKeeps

(* A contract that the Safe deploys through the CREATE2 proxy.             *)
LEMMA Create2Keeps ==
    ASSUME CollectionOK, NEW salt \in Salts, NEW init \in InitCode, NEW gas \in GasUsed,
           DeployCreate2(salt, init, gas)
    PROVE  CollectionOK'
<1>1. PICK b, address : b = onNetwork /\ address = <<"create2", salt, init>>
  OBVIOUS
<1>2. b \in BOOLEAN /\ nonce \in [BOOLEAN -> Nat] /\ gas \in Nat
  BY <1>1, CollectionAssumption DEF CollectionOK
<1>3. PICK root, one, nested :
         /\ root = Access("Call", Safe, Proxy, <<salt, init>>, CallDepth, gas, 0)
         /\ one = Access("Create", Proxy, address, init, CallDepth + 1, 0, 0)
         /\ nested = <<one>>
  OBVIOUS
<1>4. Record("CREATE2", root, nested)
  BY <1>1, <1>3 DEF DeployCreate2, Creation
<1>5. /\ IsAccess(root, "Call", Safe, Proxy, <<salt, init>>, CallDepth, gas)
      /\ IsAccess(one, "Create", Proxy, address, init, CallDepth + 1, 0)
  BY <1>3, AccessIs
<1>6. /\ address \notin {Safe, Script} /\ Proxy \notin {Safe, Script, Utils}
      /\ address[2] = salt /\ address[3] = init
  BY <1>1 DEF Safe, Script, Proxy, Utils
<1>7. nested \in Seq(ToSet(nested)) /\ Len(nested) = 1 /\ nested[1] = one
  BY <1>3 DEF ToSet
<1>8. PICK all : all = <<root>> \o nested
  OBVIOUS
<1>9. IsRecord(all, root, nested) /\ NumCreated(root, nested) = 1
  BY <1>5, <1>7, <1>8 DEF IsRecord, IsAccess, NumCreated
<1>10. Len(all) = 2 /\ all[1] = root /\ all[2] = one /\ \A i \in 1 .. Len(all) : i = 1 \/ i = 2
  <2>1. /\ Len(all) = 1 + Len(nested) /\ all[1] = root
        /\ \A k \in 1 .. Len(nested) : all[k + 1] = nested[k]
    BY <1>9, RecordIs
  <2> QED
    BY <1>7, <2>1
<1>11. GoodAccess(root, NoncesAfter(1)) /\ GoodAccess(one, NoncesAfter(1))
  <2>1. /\ root.onNetwork = b /\ root.account = Proxy /\ root.kind = "Call" /\ root.gas \in Nat
        /\ one.onNetwork = b /\ one.account = address /\ one.kind = "Create" /\ one.gas \in Nat
        /\ one.data = init /\ one.accessor = Proxy
    BY <1>1, <1>2, <1>5 DEF IsAccess
  <2>2. root.onNetwork \in BOOLEAN /\ one.onNetwork \in BOOLEAN
    BY <1>2, <2>1
  <2>3. one.account = <<"create2", one.account[2], one.data>>
    BY <1>1, <1>6, <2>1
  <2>4. GoodAccess(root, NoncesAfter(1))
    BY <1>6, <2>1, <2>2 DEF GoodAccess
  <2>5. GoodAccess(one, NoncesAfter(1))
    BY <1>6, <2>1, <2>2, <2>3 DEF GoodAccess
  <2> QED
    BY <2>4, <2>5
<1>12. ASSUME NEW i \in 1 .. Len(accesses), accesses[i].onNetwork = onNetwork
       PROVE  accesses[i].account # one.account
  <2>1. accesses \in Seq(ToSet(accesses))
    BY DEF CollectionOK, IsSeq
  <2>2. one.account = address
    BY <1>5 DEF IsAccess
  <2>3. \A k \in DOMAIN accesses :
           accesses[k].account = address => accesses[k].onNetwork # onNetwork
    BY <1>1 DEF DeployCreate2
  <2> QED
    BY <1>12, <2>1, <2>2, <2>3
<1>13. IsFresh(all, NoncesAfter(1))
  <2>1. root.onNetwork = onNetwork /\ one.onNetwork = onNetwork /\ root.kind # "Create"
    BY <1>5 DEF IsAccess
  <2>2. \A k \in 1 .. Len(all) : GoodAccess(all[k], NoncesAfter(1)) /\ all[k].onNetwork = onNetwork
    BY <1>10, <1>11, <2>1
  <2>3. ASSUME NEW k \in 1 .. Len(all), all[k].kind = "Create" PROVE all[k] = one
    BY <1>10, <2>1, <2>3
  <2> QED
    BY <1>12, <2>2, <2>3 DEF IsFresh
<1>14. OneCode(all)
  <2>1. root.kind # "Create"
    BY <1>5 DEF IsAccess
  <2> QED
    BY <1>10, <2>1 DEF OneCode
<1>15. IsTransaction("CREATE2", all, root, nested)
  <2>1. /\ root.accessor = Safe /\ root.depth = CallDepth /\ root.account = Proxy
        /\ root.kind = "Call" /\ root.data = <<salt, init>>
        /\ one.accessor = Proxy /\ one.account = address
    BY <1>5 DEF IsAccess
  <2>2. one.account = <<"create2", root.data[1], root.data[2]>>
    BY <1>1, <2>1
  <2>3. 1 + 1 = 2
    OBVIOUS
  <2>4. IsOfType("CREATE2", all, 1, Len(nested))
    BY <1>7, <1>10, <2>1, <2>2, <2>3 DEF IsOfType
  <2>5. \A k \in 1 .. Len(nested) : nested[k].accessor \notin {Safe, Script}
    BY <1>6, <1>7, <2>1
  <2> QED
    BY <1>6, <1>9, <1>14, <2>1, <2>4, <2>5 DEF IsTransaction
<1> QED
  BY <1>4, <1>9, <1>13, <1>15, RecordKeeps

(* Accesses that are no transaction.                                       *)
LEMMA ByTheWayKeeps ==
    ASSUME CollectionOK, ByTheWay
    PROVE  CollectionOK'
<1>1. PICK N, b : b = onNetwork /\ N = nonce[b]
  OBVIOUS
<1>2. b \in BOOLEAN /\ nonce \in [BOOLEAN -> Nat] /\ N \in Nat
  BY <1>1 DEF CollectionOK
<1>3. UNCHANGED <<network, funds, onNetwork, executed>>
  BY DEF ByTheWay
<1>4. PICK a :
         /\ accesses' = Append(accesses, a)
         /\ \/ IsAccess(a, "Call", Safe, Utils, "calldata", CallDepth, 0) /\ nonce' = nonce
            \/ /\ \E init : IsAccess(a, "Create", Script, <<"new", Script, N>>, init, CallDepth, 0)
               /\ nonce' = NoncesAfter(1)
  <2>1. CASE /\ accesses' = Append(accesses, Access("Call", Safe, Utils, "calldata", CallDepth, 0, 0))
             /\ UNCHANGED nonce
    <3>1. PICK a : a = Access("Call", Safe, Utils, "calldata", CallDepth, 0, 0)
      OBVIOUS
    <3>2. IsAccess(a, "Call", Safe, Utils, "calldata", CallDepth, 0)
      BY <3>1, AccessIs
    <3> QED
      BY <2>1, <3>1, <3>2
  <2>2. ASSUME NEW init \in InitCode,
               accesses' = Append(accesses,
                              Creation(Script, <<"new", Script, nonce[onNetwork]>>, init, CallDepth, 0)),
               nonce' = [nonce EXCEPT ![onNetwork] = @ + 1]
        PROVE  \E a : /\ accesses' = Append(accesses, a)
                      /\ IsAccess(a, "Create", Script, <<"new", Script, N>>, init, CallDepth, 0)
                      /\ nonce' = NoncesAfter(1)
    <3>1. PICK a, address : /\ address = <<"new", Script, nonce[onNetwork]>>
                            /\ a = Access("Create", Script, address, init, CallDepth, 0, 0)
      OBVIOUS
    <3>2. IsAccess(a, "Create", Script, address, init, CallDepth, 0)
      BY <3>1, AccessIs
    <3>3. accesses' = Append(accesses, a) /\ address = <<"new", Script, N>>
      BY <1>1, <2>2, <3>1 DEF Creation
    <3> QED
      BY <2>2, <3>2, <3>3 DEF NoncesAfter
  <2> QED
    BY <2>1, <2>2 DEF ByTheWay
<1>5. nonce' \in [BOOLEAN -> Nat] /\ \A c \in BOOLEAN : nonce[c] <= nonce'[c]
  <2>1. CASE nonce' = nonce
    BY <1>2, <2>1
  <2>2. CASE nonce' = NoncesAfter(1)
    <3>1. PICK x : x = N + 1
      OBVIOUS
    <3>2. nonce' = [nonce EXCEPT ![b] = x]
      BY <1>1, <2>2, <3>1 DEF NoncesAfter
    <3>3. x \in Nat /\ N <= x
      BY <1>2, <3>1
    <3> QED
      BY <1>1, <1>2, <3>2, <3>3
  <2> QED
    BY <1>4, <2>1, <2>2
<1>6. PICK L, log : L = Len(accesses) /\ log = accesses'
  OBVIOUS
<1>7. accesses \in Seq(ToSet(accesses)) /\ L \in Nat /\ Len(executed) \in Nat
  BY <1>6 DEF CollectionOK, IsSeq
<1>8. /\ log \in Seq(ToSet(log)) /\ Len(log) = L + 1 /\ log[L + 1] = a
      /\ \A j \in 1 .. L : log[j] = accesses[j]
  <2>1. PICK T : T = ToSet(accesses) \cup {a}
    OBVIOUS
  <2>2. accesses \in Seq(T) /\ a \in T
    BY <1>7, <2>1
  <2>3. log = Append(accesses, a)
    BY <1>4, <1>6
  <2>4. log \in Seq(T) /\ Len(log) = L + 1
    BY <1>6, <2>2, <2>3
  <2>5. log[L + 1] = a /\ \A j \in 1 .. L : log[j] = accesses[j]
    BY <1>6, <2>2, <2>3
  <2> QED
    BY <2>4, <2>5, SequenceOfElements
<1>9. \A j \in 1 .. Len(log) : j \in 1 .. L \/ j = L + 1
  BY <1>7, <1>8
<1>10. Prolongs(log, accesses)
  BY <1>6, <1>7, <1>8 DEF Prolongs
<1>11. GoodAccess(a, nonce')
  <2>1. CASE IsAccess(a, "Call", Safe, Utils, "calldata", CallDepth, 0)
    <3>1. Utils \notin {Safe, Script}
      BY DEF Utils, Safe, Script
    <3>2. a.onNetwork \in BOOLEAN /\ a.kind = "Call" /\ a.account = Utils /\ a.gas = 0
      BY <1>1, <1>2, <2>1 DEF IsAccess
    <3> QED
      BY <3>1, <3>2 DEF GoodAccess
  <2>2. ASSUME NEW init, IsAccess(a, "Create", Script, <<"new", Script, N>>, init, CallDepth, 0),
               nonce' = NoncesAfter(1)
        PROVE  GoodAccess(a, nonce')
    <3>1. PICK made, address : made = nonce' /\ address = <<"new", Script, N>>
      OBVIOUS
    <3>2. /\ a.onNetwork = b /\ a.kind = "Create" /\ a.account = address /\ a.gas = 0
          /\ a.accessor = Script
      BY <1>1, <2>2, <3>1 DEF IsAccess
    <3>3. address \notin {Safe, Script} /\ address[3] = N
      BY <3>1 DEF Safe, Script
    <3>4. made[b] = N + 1
      BY <1>1, <1>2, <2>2, <3>1 DEF NoncesAfter
    <3>5. a.account = <<"new", a.accessor, a.account[3]>> /\ a.account[3] = N
      BY <3>1, <3>2, <3>3
    <3>6. N <= N + 1 /\ N < N + 1 /\ made[a.onNetwork] = N + 1
      BY <1>2, <3>2, <3>4
    <3>7. a.onNetwork \in BOOLEAN /\ a.account \notin {Safe, Script}
      BY <1>2, <3>2, <3>3
    <3>8. GoodAccess(a, made)
      BY <1>2, <3>2, <3>5, <3>6, <3>7 DEF GoodAccess
    <3> QED
      BY <3>1, <3>8
  <2> QED
    BY <1>4, <2>1, <2>2
<1>12. \A j \in 1 .. Len(log) : GoodAccess(log[j], nonce')
  <2>1. ASSUME NEW j \in 1 .. L PROVE GoodAccess(log[j], nonce')
    <3>1. GoodAccess(accesses[j], nonce)
      BY <1>6 DEF CollectionOK
    <3>2. GoodAccess(accesses[j], nonce')
      BY <1>2, <1>5, <3>1, GoodAccessStays
    <3> QED
      BY <1>8, <3>2
  <2> QED
    BY <1>8, <1>9, <1>11, <2>1
<1>13. a.kind = "Create" => a.accessor = Script /\ a.account = <<"new", Script, N>>
  BY <1>4 DEF IsAccess
<1>14. ASSUME NEW i \in 1 .. L, accesses[i].kind = "Create", a.kind = "Create",
              accesses[i].onNetwork = a.onNetwork
       PROVE  accesses[i].account # a.account
  <2>1. SUFFICES ASSUME accesses[i].account = a.account PROVE FALSE
    OBVIOUS
  <2>2. PICK k : k = 0
    OBVIOUS
  <2>3. N + k = N /\ k \in Nat
    BY <1>2, <2>2
  <2>4. a.onNetwork = onNetwork
    BY <1>4 DEF IsAccess
  <2>5. accesses[i].account = <<"new", Script, nonce[onNetwork] + k>>
    BY <1>1, <1>13, <1>14, <2>1, <2>3
  <2> QED
    BY <1>6, <1>14, <2>3, <2>4, <2>5, NewIsFresh
<1>15. OneCode(log)
  <2>1. ASSUME NEW i \in 1 .. Len(log), NEW j \in 1 .. Len(log),
               log[i].kind = "Create", log[j].kind = "Create",
               log[i].onNetwork = log[j].onNetwork, log[i].account = log[j].account
        PROVE  log[i].data = log[j].data
    <3>1. CASE i \in 1 .. L /\ j \in 1 .. L
      <4>1. OneCode(accesses)
        BY DEF CollectionOK
      <4> QED
        BY <1>6, <1>8, <2>1, <3>1, <4>1 DEF OneCode
    <3>2. CASE i = j
      BY <3>2
    <3>3. CASE i \in 1 .. L /\ j = L + 1
      BY <1>8, <1>14, <2>1, <3>3
    <3>4. CASE j \in 1 .. L /\ i = L + 1
      BY <1>8, <1>14, <2>1, <3>4
    <3> QED
      BY <1>9, <3>1, <3>2, <3>3, <3>4
  <2> QED
    BY <2>1 DEF OneCode
<1>16. PICK pos, len : Blocks(pos, len, accesses, executed)
  BY DEF CollectionOK
<1>17. Blocks(pos, len, log, executed)
  <2>1. ~isRootAccountAccess(a)
    <3>1. Script # Safe
      BY DEF Script, Safe
    <3> QED
      BY <1>4, <3>1 DEF isRootAccountAccess, IsAccess
  <2>2. \A j \in Len(accesses) + 1 .. Len(log) : log[j] = a
    BY <1>6, <1>7, <1>8
  <2>3. \A j \in Len(accesses) + 1 .. Len(log) :
           /\ ~isRootAccountAccess(log[j])
           /\ log[j].kind = "Create" /\ log[j].onNetwork => log[j].accessor = Script
    BY <1>13, <2>1, <2>2
  <2> QED
    BY <1>7, <1>10, <1>16, <2>3, BlocksStay
<1>18. /\ network' \in Networks /\ funds' \in Nat /\ onNetwork' \in BOOLEAN
       /\ IsSeq(executed') /\ executed' = executed
  BY <1>3 DEF CollectionOK, IsSeq
<1> QED
  BY <1>5, <1>6, <1>8, <1>12, <1>15, <1>17, <1>18 DEF CollectionOK, IsSeq

(* Before the script there are no accesses.                                *)
LEMMA CollectionInitOK == CollectionInit => CollectionOK
<1> SUFFICES ASSUME CollectionInit PROVE CollectionOK
  OBVIOUS
<1>1. /\ network \in Networks /\ funds \in Nat /\ onNetwork \in BOOLEAN
      /\ nonce \in [BOOLEAN -> Nat] /\ accesses = <<>> /\ executed = <<>>
  BY CollectionAssumption DEF CollectionInit
<1>2. IsSeq(<<>>) /\ Len(<<>>) = 0
  <2>1. <<>> \in Seq(ToSet(<<>>))
    OBVIOUS
  <2> QED
    BY <2>1 DEF IsSeq
<1>3. PICK e : e = <<>>
  OBVIOUS
<1>4. Blocks(e, e, e, e)
  <2>1. Len(e) = 0 /\ 1 .. Len(e) = {}
    BY <1>3
  <2>2. e \in [1 .. Len(e) -> 1 .. Len(e)] /\ e \in [1 .. Len(e) -> Nat]
    BY <1>3, <2>1
  <2>3. Roots(e) = {}
    BY <2>1 DEF Roots
  <2>4. Lists(e, Len(e), Roots(e))
    BY <2>1, <2>2, <2>3 DEF Lists, Ascending
  <2> QED
    BY <2>1, <2>2, <2>4 DEF Blocks
<1>5. OneCode(<<>>)
  BY <1>2 DEF OneCode
<1> QED
  BY <1>1, <1>2, <1>3, <1>4, <1>5 DEF CollectionOK

(* Every step of the script keeps what is known of its record.             *)
LEMMA CollectionNextOK ==
    ASSUME CollectionOK, [CollectionNext]_collectionVars
    PROVE  CollectionOK'
<1>1. CASE UNCHANGED <<network, funds, nonce, accesses, executed>> /\ onNetwork' \in BOOLEAN
  BY <1>1 DEF CollectionOK, IsSeq
<1>2. CASE SelectFork
  BY <1>1, <1>2 DEF SelectFork, CollectionOK
<1>3. CASE Finalize
  BY <1>1, <1>3 DEF Finalize, CollectionOK
<1>4. CASE UNCHANGED collectionVars
  BY <1>1, <1>4 DEF collectionVars, CollectionOK
<1>5. ASSUME NEW init \in InitCode, NEW inner \in Inner, NEW gas \in GasUsed,
             \/ Deploy(init, inner, gas)
             \/ \E to \in {c \in Callees : c \notin {Utils, Proxy}} : Call(to, inner, gas)
      PROVE  CollectionOK'
  BY <1>5, DeployKeeps, CallKeeps
<1>6. ASSUME NEW salt \in Salts, NEW init \in InitCode, NEW gas \in GasUsed,
             DeployCreate2(salt, init, gas)
      PROVE  CollectionOK'
  BY <1>6, Create2Keeps
<1>7. CASE ByTheWay
  BY <1>7, ByTheWayKeeps
<1> QED
  BY <1>2, <1>3, <1>4, <1>5, <1>6, <1>7 DEF CollectionNext

(* The accesses that are taken to be nested in access k.                   *)
LEMMA LastNestedIs ==
    ASSUME accesses \in Seq(ToSet(accesses)), NEW k \in 1 .. Len(accesses)
    PROVE  /\ LastNested(k) \in k .. Len(accesses)
           /\ \A j \in k + 1 .. LastNested(k) :
                 ~isRootAccountAccess(accesses[j]) /\ accesses[j].onNetwork
           /\ LastNested(k) # Len(accesses) =>
                 \/ isRootAccountAccess(accesses[LastNested(k) + 1])
                 \/ ~accesses[LastNested(k) + 1].onNetwork
<1>1. PICK L : L = Len(accesses)
  OBVIOUS
<1>2. L \in Nat /\ k \in 1 .. L
  BY <1>1
<1>3. PICK ends : ends = {j \in (k + 1) .. L :
                            isRootAccountAccess(accesses[j]) \/ ~accesses[j].onNetwork}
  OBVIOUS
<1>4. LastNested(k) = IF ends = {} THEN L
                      ELSE (CHOOSE j \in ends : \A i \in ends : j <= i) - 1
  BY <1>1, <1>3 DEF LastNested
<1>5. \A j \in k + 1 .. L : j \notin ends =>
         ~isRootAccountAccess(accesses[j]) /\ accesses[j].onNetwork
  BY <1>3
<1>6. CASE ends = {}
  BY <1>1, <1>2, <1>4, <1>5, <1>6
<1>7. CASE ends # {}
  <2>1. \E m \in ends : \A i \in ends : m <= i
    <3>1. ends \subseteq Nat
      BY <1>2, <1>3
    <3> QED
      BY <1>7, <3>1, LeastNumber
  <2>2. PICK e : e = CHOOSE j \in ends : \A i \in ends : j <= i
    OBVIOUS
  <2>3. e \in ends /\ \A i \in ends : e <= i
    BY <2>1, <2>2
  <2>4. PICK l : l = e - 1
    OBVIOUS
  <2>5. LastNested(k) = l
    BY <1>4, <1>7, <2>2, <2>4
  <2>6. e \in k + 1 .. L /\ e = l + 1 /\ (isRootAccountAccess(accesses[e]) \/ ~accesses[e].onNetwork)
    BY <1>2, <1>3, <2>3, <2>4
  <2>7. e \in Nat /\ l \in k .. L /\ \A j \in k + 1 .. l : j \in k + 1 .. L /\ ~(e <= j)
    BY <1>2, <2>4, <2>6
  <2>8. \A j \in k + 1 .. l : j \in k + 1 .. L /\ j \notin ends
    BY <2>3, <2>7
  <2> QED
    BY <1>1, <1>5, <2>5, <2>6, <2>7, <2>8
<1> QED
  BY <1>6, <1>7

(* What is nested in a transaction is not taken for something else.        *)
LEMMA NestedIsCovered ==
    ASSUME accesses \in Seq(ToSet(accesses)), NEW tx, NEW k \in 1 .. Len(accesses),
           NEW n \in Nat, Performs(tx, accesses, k, n)
    PROVE  k + n <= LastNested(k)
<1>1. PICK L, l : L = Len(accesses) /\ l = LastNested(k)
  OBVIOUS
<1>2. /\ L \in Nat /\ k \in 1 .. L /\ l \in k .. L
      /\ l # L => isRootAccountAccess(accesses[l + 1]) \/ ~accesses[l + 1].onNetwork
  BY <1>1, LastNestedIs
<1>3. k + n <= L /\ \A j \in k + 1 .. k + n : IsNested(accesses[j])
  BY <1>1 DEF Performs
<1>4. SUFFICES ASSUME l < k + n PROVE FALSE
  BY <1>1, <1>2
<1>5. l + 1 \in k + 1 .. k + n /\ l # L
  BY <1>2, <1>3, <1>4
<1>6. IsNested(accesses[l + 1])
  BY <1>3, <1>5
<1> QED
  BY <1>2, <1>5, <1>6 DEF IsNested, isRootAccountAccess

IsParsed(parsed, pos) ==
    /\ DOMAIN parsed = 1 .. Len(executed) /\ parsed \in Seq(ToSet(parsed))
    /\ \A t \in 1 .. Len(executed) :
          /\ parsed[t].root = accesses[pos[t]]
          /\ parsed[t].nested = SubSeq(accesses, pos[t] + 1, LastNested(pos[t]))

(* The transactions of the Safe are found, all of them and in order.       *)
LEMMA ParsedIs ==
    ASSUME CollectionOK, NEW pos, NEW len, Blocks(pos, len, accesses, executed)
    PROVE  IsParsed(parseAccountAccesses, pos)
<1>1. PICK L, N : L = Len(accesses) /\ N = Len(executed)
  OBVIOUS
<1>2. /\ accesses \in Seq(ToSet(accesses)) /\ executed \in Seq(ToSet(executed))
      /\ L \in Nat /\ N \in Nat /\ DOMAIN accesses = 1 .. L
  BY <1>1 DEF CollectionOK, IsSeq
<1>3. PICK id, S, roots : /\ id = [k \in 1 .. L |-> k] /\ S = Roots(accesses)
                          /\ roots = SelectIn(id, S)
  OBVIOUS
<1>4. parseAccountAccesses =
         [r \in DOMAIN roots |->
            [root |-> accesses[roots[r]],
             nested |-> SubSeq(accesses, roots[r] + 1, LastNested(roots[r]))]]
  <2>1. S = {k \in DOMAIN accesses : isRootAccountAccess(accesses[k])}
    BY <1>1, <1>2, <1>3 DEF Roots
  <2> QED
    BY <1>2, <1>3, <2>1 DEF parseAccountAccesses
<1>5. id \in Seq(Nat) /\ Len(id) = L
  BY <1>2, <1>3
<1>6. roots \in Seq(S)
  BY <1>3, <1>5, SelectInType
<1>7. PICK f : Picks(f, roots, id, S, L)
  BY <1>3, <1>5, SelectInOrder
<1>8. PICK M : M = Len(roots)
  OBVIOUS
<1>9. M \in Nat /\ DOMAIN roots = 1 .. M
  BY <1>6, <1>8
<1>10. /\ f \in [1 .. M -> 1 .. L] /\ Ascending(f, M) /\ {f[k] : k \in 1 .. M} = S
       /\ \A k \in 1 .. M : roots[k] = f[k]
  <2>1. /\ f \in [1 .. M -> 1 .. L] /\ Ascending(f, M)
        /\ {f[k] : k \in 1 .. M} = PlacesOf(id, S, L)
        /\ \A k \in 1 .. M : roots[k] = id[f[k]]
    BY <1>7, <1>8 DEF Picks
  <2>2. PlacesOf(id, S, L) = S
    BY <1>1, <1>3 DEF PlacesOf, Roots
  <2> QED
    BY <1>3, <2>1, <2>2
<1>11. Lists(f, M, S)
  BY <1>2, <1>10 DEF Lists
<1>12. Lists(pos, N, S)
  BY <1>1, <1>3 DEF Blocks
<1>13. M = N /\ \A t \in 1 .. M : f[t] = pos[t]
  <2>1. M \in Nat /\ N \in Nat
    BY <1>2, <1>9
  <2> QED
    BY <1>11, <1>12, <2>1, AscendingListUnique
<1>14. PICK parsed : parsed = parseAccountAccesses
  OBVIOUS
<1>15. DOMAIN parsed = 1 .. N
  BY <1>4, <1>9, <1>13, <1>14
<1>16. parsed \in Seq(ToSet(parsed))
  <2>1. parsed \in [1 .. N -> ToSet(parsed)]
    BY <1>4, <1>9, <1>13, <1>14 DEF ToSet
  <2> QED
    BY <1>2, <2>1
<1>17. ASSUME NEW t \in 1 .. N
       PROVE  /\ parsed[t].root = accesses[pos[t]]
              /\ parsed[t].nested = SubSeq(accesses, pos[t] + 1, LastNested(pos[t]))
  <2>1. roots[t] = pos[t] /\ t \in DOMAIN roots
    BY <1>9, <1>10, <1>13
  <2>2. PICK k : k = roots[t]
    OBVIOUS
  <2>3. PICK nested : nested = SubSeq(accesses, k + 1, LastNested(k))
    OBVIOUS
  <2>4. parsed[t] = [root |-> accesses[k], nested |-> nested]
    BY <1>4, <1>14, <2>1, <2>2, <2>3
  <2>5. parsed[t].root = accesses[k] /\ parsed[t].nested = nested
    BY <2>4
  <2>6. k = pos[t]
    BY <2>1, <2>2
  <2> QED
    BY <2>3, <2>5, <2>6
<1> QED
  BY <1>1, <1>14, <1>15, <1>16, <1>17 DEF IsParsed

Offset == IF funds = 0 THEN 0 ELSE 1

(* What is decoded: the check of the funds, if there is one, and the transactions. *)
IsComplete(parsed, pos) ==
    /\ DOMAIN parsed = 1 .. Len(executed) + Offset /\ parsed \in Seq(ToSet(parsed))
    /\ funds # 0 => parsed[1] = CheckFunds
    /\ \A t \in 1 .. Len(executed) :
          /\ parsed[t + Offset].root = accesses[pos[t]]
          /\ parsed[t + Offset].nested = SubSeq(accesses, pos[t] + 1, LastNested(pos[t]))

(* The check of the funds comes before the transactions.                   *)
LEMMA CompleteIs ==
    ASSUME CollectionOK, NEW parsed, NEW pos, IsParsed(parsed, pos)
    PROVE  IsComplete(addBalanceCheckAction(parsed), pos)
<1>1. PICK N, all : N = Len(executed) /\ all = addBalanceCheckAction(parsed)
  OBVIOUS
<1>2. N \in Nat
  BY <1>1 DEF CollectionOK, IsSeq
<1>3. /\ DOMAIN parsed = 1 .. N /\ parsed \in Seq(ToSet(parsed)) /\ Len(parsed) = N
      /\ \A t \in 1 .. N :
            /\ parsed[t].root = accesses[pos[t]]
            /\ parsed[t].nested = SubSeq(accesses, pos[t] + 1, LastNested(pos[t]))
  <2>1. DOMAIN parsed = 1 .. N /\ parsed \in Seq(ToSet(parsed))
    BY <1>1 DEF IsParsed
  <2>2. Len(parsed) = N
    BY <1>2, <2>1
  <2> QED
    BY <1>1, <2>1, <2>2 DEF IsParsed
<1>4. CASE funds = 0
  <2>1. all = parsed /\ Offset = 0 /\ \A t \in 1 .. N : t + 0 = t
    BY <1>1, <1>2, <1>4 DEF addBalanceCheckAction, Offset
  <2> QED
    BY <1>1, <1>2, <1>3, <1>4, <2>1 DEF IsComplete
<1>5. CASE funds # 0
  <2>1. PICK check : check = CheckFunds
    OBVIOUS
  <2>2. PICK one : one = <<check>>
    OBVIOUS
  <2>3. one \in Seq(ToSet(one)) /\ Len(one) = 1 /\ one[1] = check
    BY <2>2 DEF ToSet
  <2>4. all = one \o parsed /\ Offset = 1
    BY <1>1, <1>5, <2>1, <2>2 DEF addBalanceCheckAction, Offset
  <2>5. /\ all \in Seq(ToSet(all)) /\ Len(all) = 1 + N
        /\ \A i \in 1 .. 1 + N : all[i] = IF i <= 1 THEN one[i] ELSE parsed[i - 1]
    <3>1. one \in Seq(ToSet(one)) /\ parsed \in Seq(ToSet(parsed))
      BY <1>3, <2>3
    <3>2. /\ one \o parsed \in Seq(ToSet(one \o parsed))
          /\ Len(one \o parsed) = Len(one) + Len(parsed)
          /\ \A i \in 1 .. Len(one) + Len(parsed) :
                (one \o parsed)[i] = IF i <= Len(one) THEN one[i] ELSE parsed[i - Len(one)]
      BY <3>1, ConcatIs
    <3> QED
      BY <1>3, <2>3, <2>4, <3>2
  <2>6. all[1] = check
    <3>1. 1 \in 1 .. 1 + N
      BY <1>2
    <3> QED
      BY <2>3, <2>5, <3>1
  <2>7. ASSUME NEW t \in 1 .. N PROVE all[t + 1] = parsed[t]
    <3>1. PICK i : i = t + 1
      OBVIOUS
    <3>2. i \in 1 .. 1 + N /\ ~(i <= 1) /\ i - 1 = t
      BY <1>2, <3>1
    <3> QED
      BY <2>5, <3>1, <3>2
  <2>8. DOMAIN all = 1 .. N + 1
    BY <1>2, <2>5
  <2> QED
    BY <1>1, <1>3, <2>1, <2>4, <2>5, <2>6, <2>7, <2>8 DEF IsComplete
<1> QED
  BY <1>1, <1>4, <1>5

(* The contracts among accesses.                                           *)
LEMMA CreatesAre ==
    ASSUME NEW T, NEW seq \in Seq(T)
    PROVE  /\ ToSet(Creates(seq)) = {a \in ToSet(seq) : a.kind = "Create"}
           /\ Len(Creates(seq)) \in Nat /\ DOMAIN Creates(seq) = 1 .. Len(Creates(seq))
<1>1. PICK S, s : S = {a \in ToSet(seq) : a.kind = "Create"} /\ s = SelectIn(seq, S)
  OBVIOUS
<1>2. Creates(seq) = s
  BY <1>1 DEF Creates
<1>3. s \in Seq(S)
  BY <1>1, SelectInType
<1>4. ToSet(s) = ToSet(seq) \cap S
  BY <1>1, SelectInElements
<1> QED
  BY <1>1, <1>2, <1>3, <1>4

(* A run of accesses.                                                      *)
LEMMA RunIs ==
    ASSUME accesses \in Seq(ToSet(accesses)), NEW k \in 1 .. Len(accesses),
           NEW l \in k .. Len(accesses)
    PROVE  /\ SubSeq(accesses, k + 1, l) \in Seq(ToSet(accesses))
           /\ ToSet(SubSeq(accesses, k + 1, l)) = {accesses[j] : j \in k + 1 .. l}
           /\ l # k => /\ SubSeq(accesses, k + 1, l) # <<>>
                       /\ SubSeq(accesses, k + 1, l)[1] = accesses[k + 1]
<1>1. PICK m, s : m = k + 1 /\ s = SubSeq(accesses, m, l)
  OBVIOUS
<1>2. k \in Nat /\ l \in Nat /\ m \in Int /\ l \in Int /\ Len(accesses) \in Nat
  BY <1>1
<1>3. \A i \in m .. l : accesses[i] \in ToSet(accesses)
  BY <1>1, <1>2 DEF ToSet
<1>4. /\ s \in Seq(ToSet(accesses)) /\ Len(s) = IF m <= l THEN l - m + 1 ELSE 0
      /\ \A i \in 1 .. l - m + 1 : s[i] = accesses[m + i - 1]
  BY <1>1, <1>2, <1>3, SubSeqProperties
<1>5. DOMAIN s = 1 .. l - k /\ Len(s) = l - k /\ l - m + 1 = l - k
  <2>1. Len(s) = l - k /\ l - m + 1 = l - k
    BY <1>1, <1>2, <1>4
  <2> QED
    BY <1>4, <2>1
<1>6. \A i \in 1 .. l - k : s[i] = accesses[k + i]
  <2>1. \A i \in 1 .. l - k : m + i - 1 = k + i
    BY <1>1, <1>2
  <2> QED
    BY <1>4, <1>5, <2>1
<1>7. ToSet(s) = {accesses[j] : j \in k + 1 .. l}
  <2>1. ASSUME NEW i \in 1 .. l - k PROVE \E j \in k + 1 .. l : s[i] = accesses[j]
    <3>1. k + i \in k + 1 .. l
      BY <1>2
    <3> QED
      BY <1>6, <3>1
  <2>2. ASSUME NEW j \in k + 1 .. l PROVE \E i \in 1 .. l - k : s[i] = accesses[j]
    <3>1. PICK i : i = j - k
      OBVIOUS
    <3>2. i \in 1 .. l - k /\ k + i = j
      BY <1>2, <3>1
    <3> QED
      BY <1>6, <3>2
  <2>3. ToSet(s) = {s[i] : i \in 1 .. l - k}
    BY <1>5 DEF ToSet
  <2>4. \A x \in ToSet(s) : x \in {accesses[j] : j \in k + 1 .. l}
    BY <2>1, <2>3
  <2>5. \A x \in {accesses[j] : j \in k + 1 .. l} : x \in ToSet(s)
    BY <2>2, <2>3
  <2> QED
    BY <2>4, <2>5
<1>8. ASSUME l # k PROVE s # <<>> /\ s[1] = accesses[k + 1]
  <2>1. 1 \in 1 .. l - k /\ Len(s) # 0
    BY <1>2, <1>5, <1>8
  <2> QED
    BY <1>6, <2>1
<1> QED
  BY <1>1, <1>4, <1>7, <1>8

(* The contracts among the accesses that are taken for transactions. *)
Deployed(pos) ==
    {accesses[j] : j \in {i \in 1 .. Len(accesses) :
        /\ accesses[i].kind = "Create"
        /\ \E t \in 1 .. Len(executed) : pos[t] <= i /\ i <= LastNested(pos[t])}}

(* An access and the run after it.                                         *)
LEMMA RootAndRun ==
    ASSUME accesses \in Seq(ToSet(accesses)), NEW k \in 1 .. Len(accesses),
           NEW l \in k .. Len(accesses)
    PROVE  /\ <<accesses[k]>> \o SubSeq(accesses, k + 1, l) \in Seq(ToSet(accesses))
           /\ ToSet(<<accesses[k]>> \o SubSeq(accesses, k + 1, l)) = {accesses[j] : j \in k .. l}
<1>1. PICK a, one, s, T : /\ a = accesses[k] /\ one = <<a>> /\ s = SubSeq(accesses, k + 1, l)
                          /\ T = ToSet(accesses)
  OBVIOUS
<1>2. s \in Seq(T) /\ ToSet(s) = {accesses[j] : j \in k + 1 .. l}
  BY <1>1, RunIs
<1>3. a \in T
  BY <1>1 DEF ToSet
<1>4. one \in Seq(T) /\ ToSet(one) = {a}
  BY <1>1, <1>3 DEF ToSet
<1>5. one \o s \in Seq(T) /\ ToSet(one \o s) = ToSet(one) \cup ToSet(s)
  BY <1>2, <1>4, ConcatProperties, ConcatElements
<1>6. k .. l = {k} \cup (k + 1 .. l)
  OBVIOUS
<1>7. {accesses[j] : j \in k .. l} = {a} \cup {accesses[j] : j \in k + 1 .. l}
  BY <1>1, <1>6
<1> QED
  BY <1>1, <1>2, <1>4, <1>5, <1>7

(* What the init codes of a deployment are taken from.                     *)
LEMMA FlatIs ==
    ASSUME CollectionOK, NEW pos, NEW len, Blocks(pos, len, accesses, executed),
           NEW parsed, IsComplete(parsed, pos)
    PROVE  /\ \E T : Flat(parsed) \in Seq(T)
           /\ ToSet(Creates(Flat(parsed))) = Deployed(pos)
           /\ Len(Creates(Flat(parsed))) \in Nat
           /\ DOMAIN Creates(Flat(parsed)) = 1 .. Len(Creates(Flat(parsed)))
<1>1. PICK L, N, o, check : /\ L = Len(accesses) /\ N = Len(executed) /\ o = Offset
                            /\ check = CheckFunds.root
  OBVIOUS
<1>2. /\ accesses \in Seq(ToSet(accesses)) /\ L \in Nat /\ N \in Nat /\ o \in Nat
      /\ DOMAIN accesses = 1 .. L
  BY <1>1 DEF CollectionOK, IsSeq, Offset
<1>3. PICK T : T = ToSet(accesses) \cup {check}
  OBVIOUS
<1>4. PICK seqs : seqs = [i \in DOMAIN parsed |-> <<parsed[i].root>> \o parsed[i].nested]
  OBVIOUS
<1>5. /\ DOMAIN parsed = 1 .. N + o /\ Flat(parsed) = FlattenSeq(seqs)
      /\ funds # 0 => parsed[1] = CheckFunds
      /\ \A t \in 1 .. N : /\ parsed[t + o].root = accesses[pos[t]]
                           /\ parsed[t + o].nested = SubSeq(accesses, pos[t] + 1, LastNested(pos[t]))
  BY <1>1, <1>4 DEF IsComplete, Flat
<1>6. DOMAIN seqs = 1 .. N + o /\ \A i \in 1 .. N + o : seqs[i] = <<parsed[i].root>> \o parsed[i].nested
  BY <1>4, <1>5
<1>7. ASSUME NEW i \in 1 .. N + o
      PROVE  (funds # 0 /\ i = 1) \/ \E t \in 1 .. N : i = t + o
  <2>1. CASE funds = 0
    BY <1>1, <1>2, <2>1 DEF Offset
  <2>2. CASE funds # 0
    <3>1. o = 1
      BY <1>1, <2>2 DEF Offset
    <3>2. i = 1 \/ (i - 1 \in 1 .. N /\ i = (i - 1) + o)
      BY <1>2, <3>1
    <3> QED
      BY <2>2, <3>2
  <2> QED
    BY <2>1, <2>2
<1>8. ASSUME NEW t \in 1 .. N
      PROVE  /\ t + o \in 1 .. N + o /\ seqs[t + o] \in Seq(T)
             /\ ToSet(seqs[t + o]) = {accesses[j] : j \in pos[t] .. LastNested(pos[t])}
             /\ pos[t] \in 1 .. L /\ LastNested(pos[t]) \in pos[t] .. L
  <2>1. PICK k, l : k = pos[t] /\ l = LastNested(k)
    OBVIOUS
  <2>2. k \in 1 .. L /\ l \in k .. L
    <3>1. k \in 1 .. L
      BY <1>1, <2>1 DEF Blocks
    <3> QED
      BY <1>1, <1>2, <2>1, <3>1, LastNestedIs
  <2>3. t + o \in 1 .. N + o
    BY <1>2
  <2>4. PICK s : s = SubSeq(accesses, k + 1, l)
    OBVIOUS
  <2>5. seqs[t + o] = <<accesses[k]>> \o s
    <3>1. PICK p : p = parsed[t + o]
      OBVIOUS
    <3>2. seqs[t + o] = <<p.root>> \o p.nested
      BY <1>6, <2>3, <3>1
    <3>3. p.root = accesses[k] /\ p.nested = s
      BY <1>5, <2>1, <2>4, <3>1
    <3> QED
      BY <3>2, <3>3
  <2>6. /\ <<accesses[k]>> \o s \in Seq(ToSet(accesses))
        /\ ToSet(<<accesses[k]>> \o s) = {accesses[j] : j \in k .. l}
    BY <1>1, <1>2, <2>2, <2>4, RootAndRun
  <2>7. seqs[t + o] \in Seq(T)
    BY <1>3, <2>5, <2>6
  <2> QED
    BY <2>1, <2>2, <2>3, <2>5, <2>6, <2>7
<1>9. ASSUME funds # 0
      PROVE  1 \in 1 .. N + o /\ seqs[1] \in Seq(T) /\ ToSet(seqs[1]) = {check}
  <2>1. o = 1
    BY <1>1, <1>9 DEF Offset
  <2>2. 1 \in 1 .. N + o
    BY <1>2, <2>1
  <2>3. parsed[1].root = check /\ parsed[1].nested = <<>>
    <3>1. CheckFunds.nested = <<>>
      BY DEF CheckFunds
    <3>2. parsed[1] = CheckFunds
      BY <1>5, <1>9
    <3> QED
      BY <1>1, <3>1, <3>2
  <2>4. seqs[1] = <<check>> \o <<>>
    BY <1>6, <2>2, <2>3
  <2>5. check \in T
    BY <1>3
  <2>6. <<check>> \in Seq(T)
    BY <2>5
  <2>7. seqs[1] = <<check>>
    BY <2>4, <2>6
  <2>8. ToSet(<<check>>) = {check}
    BY DEF ToSet
  <2> QED
    BY <2>2, <2>6, <2>7, <2>8
<1>10. seqs \in Seq(Seq(T))
  <2>1. \A i \in 1 .. N + o : seqs[i] \in Seq(T)
    BY <1>7, <1>8, <1>9
  <2>2. seqs \in [1 .. N + o -> Seq(T)]
    BY <1>4, <1>5, <2>1
  <2> QED
    BY <1>2, <2>2
<1>11. PICK flat : flat = Flat(parsed)
  OBVIOUS
<1>12. flat \in Seq(T) /\ ToSet(flat) = UNION {ToSet(seqs[i]) : i \in 1 .. N + o}
  BY <1>5, <1>6, <1>10, <1>11, FlattenType, FlattenElements
<1>13. check.kind # "Create"
  BY <1>1 DEF CheckFunds
<1>14. \A a \in ToSet(flat) : a.kind = "Create" => a \in Deployed(pos)
  <2>1. ASSUME NEW a \in ToSet(flat), a.kind = "Create" PROVE a \in Deployed(pos)
    <3>1. PICK i \in 1 .. N + o : a \in ToSet(seqs[i])
      BY <1>12
    <3>2. ~(funds # 0 /\ i = 1)
      BY <1>9, <1>13, <2>1, <3>1
    <3>3. PICK t \in 1 .. N : i = t + o
      BY <1>7, <3>2
    <3>4. PICK j \in pos[t] .. LastNested(pos[t]) : a = accesses[j]
      BY <1>8, <3>1, <3>3
    <3>5. j \in 1 .. L /\ pos[t] <= j /\ j <= LastNested(pos[t])
      BY <1>2, <1>8
    <3> QED
      BY <1>1, <2>1, <3>4, <3>5 DEF Deployed
  <2> QED
    BY <2>1
<1>15. \A a \in Deployed(pos) : a \in ToSet(flat) /\ a.kind = "Create"
  <2>1. ASSUME NEW a \in Deployed(pos) PROVE a \in ToSet(flat) /\ a.kind = "Create"
    <3>1. PICK j \in 1 .. L, t \in 1 .. N :
             /\ a = accesses[j] /\ accesses[j].kind = "Create"
             /\ pos[t] <= j /\ j <= LastNested(pos[t])
      BY <1>1 DEF Deployed
    <3>2. j \in pos[t] .. LastNested(pos[t])
      BY <1>8, <3>1
    <3>3. a \in ToSet(seqs[t + o]) /\ t + o \in 1 .. N + o
      BY <1>8, <3>1, <3>2
    <3> QED
      BY <1>12, <3>1, <3>3
  <2> QED
    BY <2>1
<1>16. /\ ToSet(Creates(flat)) = {a \in ToSet(flat) : a.kind = "Create"}
       /\ Len(Creates(flat)) \in Nat /\ DOMAIN Creates(flat) = 1 .. Len(Creates(flat))
  BY <1>12, CreatesAre
<1>17. ToSet(Creates(flat)) = Deployed(pos)
  BY <1>14, <1>15, <1>16
<1> QED
  BY <1>11, <1>12, <1>16, <1>17

(* The build infos that are sent along know the contracts that are deployed. *)
LEMMA ArtifactsSuffice ==
    ASSUME CollectionOK, NEW pos, NEW len, Blocks(pos, len, accesses, executed),
           NEW parsed, IsComplete(parsed, pos), NEW a \in Deployed(pos)
    PROVE  findFullyQualifiedNameForInitCode(a.data, ConfigArtifacts(parsed)) = TrueName(a.data)
<1>1. PICK created : created = Creates(Flat(parsed))
  OBVIOUS
<1>2. ToSet(created) = Deployed(pos) /\ DOMAIN created = 1 .. Len(created)
  BY <1>1, FlatIs
<1>3. PICK inits : inits = getInitCodeWithArgsArray(parsed)
  OBVIOUS
<1>4. inits = [k \in DOMAIN created |-> created[k].data]
  BY <1>1, <1>3 DEF getInitCodeWithArgsArray
<1>5. PICK k \in DOMAIN created : a = created[k]
  BY <1>2 DEF ToSet
<1>6. k \in DOMAIN inits /\ inits[k] = a.data
  BY <1>4, <1>5
<1>7. PICK S : S = {e \in ToSet(Artifacts) :
                      \E i \in DOMAIN inits : isInitCodeMatch(inits[i], e.code)}
  OBVIOUS
<1>8. ConfigArtifacts(parsed) = SelectIn(Artifacts, S)
  BY <1>3, <1>7 DEF ConfigArtifacts
<1>9. PICK T : Artifacts \in Seq(T)
  BY CollectionAssumption
<1>10. PICK d : d = a.data
  OBVIOUS
<1>11. \A i \in DOMAIN Artifacts : isInitCodeMatch(d, Artifacts[i].code) => Artifacts[i] \in S
  BY <1>6, <1>7, <1>10 DEF ToSet
<1>12. findFullyQualifiedNameForInitCode(d, SelectIn(Artifacts, S)) =
          findFullyQualifiedNameForInitCode(d, Artifacts)
  BY <1>9, <1>11, FirstMatchStays
<1> QED
  BY <1>8, <1>10, <1>12 DEF TrueName

(* The address of a contract leads to its name.                            *)
LEMMA NameOfAddress ==
    ASSUME CollectionOK, NEW pos, NEW len, Blocks(pos, len, accesses, executed),
           NEW parsed, IsComplete(parsed, pos), NEW address, NEW found
    PROVE  \/ /\ \A a \in Deployed(pos) : a.account # address
              /\ findFullyQualifiedNameForAddress(address, parsed, found) = Undefined
           \/ \E a \in Deployed(pos) :
                 /\ a.account = address
                 /\ findFullyQualifiedNameForAddress(address, parsed, found) =
                       findFullyQualifiedNameForInitCode(a.data, found)
<1>1. PICK created : created = Creates(Flat(parsed))
  OBVIOUS
<1>2. ToSet(created) = Deployed(pos) /\ DOMAIN created = 1 .. Len(created) /\ Len(created) \in Nat
  BY <1>1, FlatIs
<1>3. PICK S, at : S = {a \in ToSet(created) : a.account = address} /\ at = SelectIn(created, S)
  OBVIOUS
<1>4. findFullyQualifiedNameForAddress(address, parsed, found) =
         IF at = <<>> THEN Undefined ELSE findFullyQualifiedNameForInitCode(at[1].data, found)
  BY <1>1, <1>3 DEF findFullyQualifiedNameForAddress
<1>5. created \in Seq(ToSet(created))
  <2>1. PICK T : Flat(parsed) \in Seq(T)
    BY FlatIs
  <2>2. PICK R : R = {a \in ToSet(Flat(parsed)) : a.kind = "Create"}
    OBVIOUS
  <2>3. created = SelectIn(Flat(parsed), R)
    BY <1>1, <2>2 DEF Creates
  <2>4. created \in Seq(R)
    BY <2>1, <2>3, SelectInType
  <2> QED
    BY <2>4, SequenceOfElements
<1>6. at \in Seq(S) /\ ToSet(at) = ToSet(created) \cap S
  BY <1>3, <1>5, SelectInType, SelectInElements
<1>7. CASE at = <<>>
  <2>1. ToSet(at) = {}
    BY <1>7 DEF ToSet
  <2>2. \A a \in Deployed(pos) : a.account # address
    BY <1>2, <1>3, <1>6, <2>1
  <2> QED
    BY <1>4, <1>7, <2>2
<1>8. CASE at # <<>>
  <2>1. 1 \in DOMAIN at
    BY <1>6, <1>8
  <2>2. at[1] \in S
    BY <1>6, <2>1
  <2> QED
    BY <1>2, <1>3, <1>4, <1>8, <2>2
<1> QED
  BY <1>7, <1>8

(* What the contracts of an action are, of those that its accesses make. *)
Labels(x, made, found) ==
    /\ x.contracts = {[address |-> a.account,
                       name |-> findFullyQualifiedNameForInitCode(a.data, found)] :
                         a \in {b \in made : findFullyQualifiedNameForInitCode(b.data, found)
                                                # Undefined}}
    /\ x.unlabeled = {a.account : a \in {b \in made :
                         findFullyQualifiedNameForInitCode(b.data, found) = Undefined}}

(* The action x of an access and what is nested in it, in what is decoded. *)
ActsFor(x, root, nested, parsed) ==
    \/ /\ root.kind = "Create"
       /\ x.actionType = "CREATE" /\ x.to = CreateCall /\ x.target = root.account
       /\ x.referenceName =
             ReferenceName(root.account,
                findFullyQualifiedNameForInitCode(root.data, ConfigArtifacts(parsed)))
    \/ /\ root.kind # "Create" /\ isCreate2AccountAccess(root, nested)
       /\ x.actionType = "CREATE2" /\ x.to = Proxy
       /\ x.target = <<"create2", root.data[1], root.data[2]>>
       /\ x.referenceName =
             ReferenceName(<<"create2", root.data[1], root.data[2]>>,
                findFullyQualifiedNameForInitCode(root.data[2], ConfigArtifacts(parsed)))
    \/ /\ root.kind # "Create" /\ ~isCreate2AccountAccess(root, nested)
       /\ x.actionType = "CALL" /\ x.to = root.account /\ x.target = root.account
       /\ x.value = root.value /\ x.txData = root.data
       /\ x.referenceName =
             ReferenceName(root.account,
                findFullyQualifiedNameForAddress(root.account, parsed, ConfigArtifacts(parsed)))

IsAction(x, i, parsed, estimates) ==
    /\ x.index = i /\ x.gas = calculateMerkleLeafGas(estimates[i])
    /\ Labels(x, ToSet(Creates(Labeled(parsed[i].root, parsed[i].nested))), ConfigArtifacts(parsed))
    /\ ActsFor(x, parsed[i].root, parsed[i].nested, parsed)

(* The three ways to make an action differ in what it calls.               *)
LEMMA ActionIs ==
    ASSUME NEW i, NEW parsed, NEW estimates
    PROVE  IsAction(ActionInput(i, parsed, estimates), i, parsed, estimates)
<1>1. PICK root, nested, found, gas :
         /\ root = parsed[i].root /\ nested = parsed[i].nested
         /\ found = ConfigArtifacts(parsed) /\ gas = calculateMerkleLeafGas(estimates[i])
  OBVIOUS
<1>2. PICK created : created = Creates(Labeled(root, nested))
  OBVIOUS
<1>3. PICK contracts : contracts = {Deployment(created[k], found) : k \in DOMAIN created}
  OBVIOUS
<1>4. PICK in, out : /\ in = {c \in contracts : c.name # Undefined}
                     /\ out = {c.address : c \in {d \in contracts : d.name = Undefined}}
  OBVIOUS
<1>5. PICK made : made = ToSet(created)
  OBVIOUS
<1>6. contracts = {Deployment(a, found) : a \in made}
  <2>1. \A c \in contracts : \E a \in made : c = Deployment(a, found)
    BY <1>3, <1>5 DEF ToSet
  <2>2. \A a \in made : Deployment(a, found) \in contracts
    BY <1>3, <1>5 DEF ToSet
  <2> QED
    BY <2>1, <2>2
<1>7. \A a \in made :
         Deployment(a, found) = [address |-> a.account,
                                 name |-> findFullyQualifiedNameForInitCode(a.data, found)]
  BY DEF Deployment
<1>8. in = {[address |-> a.account, name |-> findFullyQualifiedNameForInitCode(a.data, found)] :
               a \in {b \in made : findFullyQualifiedNameForInitCode(b.data, found) # Undefined}}
  BY <1>4, <1>6, <1>7
<1>9. out = {a.account : a \in {b \in made :
                findFullyQualifiedNameForInitCode(b.data, found) = Undefined}}
  BY <1>4, <1>6, <1>7
<1>10. PICK x : x = ActionInput(i, parsed, estimates)
  OBVIOUS
<1>11. PICK create2 : create2 = decodeDeterministicDeploymentProxyData(root.data)
  OBVIOUS
<1>12. /\ create2.create2Address = <<"create2", root.data[1], root.data[2]>>
       /\ create2.initCode = root.data[2]
  BY <1>11 DEF decodeDeterministicDeploymentProxyData
<1> DEFINE action(type, to, target, value, txData, name) ==
       [index |-> i, gas |-> gas, contracts |-> in, unlabeled |-> out,
        actionType |-> type, to |-> to, target |-> target, value |-> value,
        txData |-> txData, referenceName |-> ReferenceName(target, name)]
<1>13. x = IF root.kind = "Create"
           THEN action("CREATE", CreateCall, root.account, 0, encodeCreateCall(root.value, root.data),
                       findFullyQualifiedNameForInitCode(root.data, found))
           ELSE IF isCreate2AccountAccess(root, nested)
           THEN action("CREATE2", Proxy, create2.create2Address, root.value, root.data,
                       findFullyQualifiedNameForInitCode(create2.initCode, found))
           ELSE action("CALL", root.account, root.account, root.value, root.data,
                       findFullyQualifiedNameForAddress(root.account, parsed, found))
  BY <1>1, <1>2, <1>3, <1>4, <1>10, <1>11 DEF ActionInput
<1>14. x.index = i /\ x.gas = gas /\ x.contracts = in /\ x.unlabeled = out
  BY <1>13
<1>15. ActsFor(x, root, nested, parsed)
  <2>1. CASE root.kind = "Create"
    BY <1>1, <1>13, <2>1 DEF ActsFor
  <2>2. CASE root.kind # "Create" /\ isCreate2AccountAccess(root, nested)
    BY <1>1, <1>12, <1>13, <2>2 DEF ActsFor
  <2>3. CASE root.kind # "Create" /\ ~isCreate2AccountAccess(root, nested)
    BY <1>1, <1>13, <2>3 DEF ActsFor
  <2> QED
    BY <2>1, <2>2, <2>3
<1>16. Labels(x, made, found)
  BY <1>8, <1>9, <1>14 DEF Labels
<1> QED
  BY <1>1, <1>2, <1>5, <1>10, <1>14, <1>15, <1>16 DEF IsAction

(* What the command makes of the record. *)
TheConfig ==
    makeNetworkConfig(addBalanceCheckAction(parseAccountAccesses),
                      estimateMerkleLeafGas(addBalanceCheckAction(parseAccountAccesses)))

(* A configuration with an action for each of the entries. *)
IsConfig(config, parsed, estimates) ==
    /\ DOMAIN estimates = DOMAIN parsed /\ DOMAIN config.actionInputs = DOMAIN parsed
    /\ Len(config.actionInputs) = Len(parsed)
    /\ \A i \in DOMAIN parsed :
          /\ IsAction(config.actionInputs[i], i, parsed, estimates)
          /\ network.hardcodedGas # 0 => estimates[i] <= network.hardcodedGas
          /\ config.actionInputs[i].gas <= getMaxGasLimit(network.blockGasLimit)

(* What is not refused is made of an action for each entry.                *)
LEMMA ConfigIs ==
    ASSUME NEW T, NEW parsed \in Seq(T), NEW estimates, DOMAIN estimates = DOMAIN parsed,
           makeNetworkConfig(parsed, estimates).status = "made"
    PROVE  IsConfig(makeNetworkConfig(parsed, estimates), parsed, estimates)
<1>1. PICK actions : actions = [i \in DOMAIN parsed |-> ActionInput(i, parsed, estimates)]
  OBVIOUS
<1>2. PICK config : config = makeNetworkConfig(parsed, estimates)
  OBVIOUS
<1>3. Thrown.status # "made"
  BY DEF Thrown
<1>4. /\ config.actionInputs = actions
      /\ network.hardcodedGas # 0 => \A i \in DOMAIN estimates : estimates[i] <= network.hardcodedGas
      /\ \A i \in DOMAIN actions : actions[i].gas <= getMaxGasLimit(network.blockGasLimit)
  BY <1>1, <1>2, <1>3 DEF makeNetworkConfig
<1>5. DOMAIN actions = DOMAIN parsed /\ Len(parsed) \in Nat /\ DOMAIN parsed = 1 .. Len(parsed)
  BY <1>1
<1>6. Len(actions) = Len(parsed)
  BY <1>1, <1>5
<1>7. \A i \in DOMAIN parsed : IsAction(actions[i], i, parsed, estimates)
  <2>1. ASSUME NEW i \in DOMAIN parsed PROVE IsAction(actions[i], i, parsed, estimates)
    <3>1. IsAction(ActionInput(i, parsed, estimates), i, parsed, estimates)
      BY ActionIs
    <3>2. actions[i] = ActionInput(i, parsed, estimates)
      BY <1>1
    <3> QED
      BY <3>1, <3>2
  <2> QED
    BY <2>1
<1> QED
  BY <1>2, <1>4, <1>5, <1>6, <1>7 DEF IsConfig

(* The gas that is estimated covers what was used.                         *)
LEMMA GasIsCovered ==
    ASSUME network.hardcodedGas \in Nat, network.blockGasLimit \in Nat,
           NEW g \in Nat, NEW estimate,
           estimate = IF network.rootstock THEN 6 + (g * 11) \div 10 ELSE 12 + (g * 12) \div 10,
           network.hardcodedGas # 0 => estimate <= network.hardcodedGas,
           calculateMerkleLeafGas(estimate) <= getMaxGasLimit(network.blockGasLimit)
    PROVE  /\ g < calculateMerkleLeafGas(estimate)
           /\ calculateMerkleLeafGas(estimate) <= network.blockGasLimit
<1>1. PICK h, b, leaf : /\ h = network.hardcodedGas /\ b = network.blockGasLimit
                        /\ leaf = calculateMerkleLeafGas(estimate)
  OBVIOUS
<1>2. estimate \in Nat /\ g < estimate
  <2>1. 6 + (g * 11) \div 10 \in Nat /\ g < 6 + (g * 11) \div 10
    BY SMT
  <2>2. 12 + (g * 12) \div 10 \in Nat /\ g < 12 + (g * 12) \div 10
    BY SMT
  <2> QED
    BY <2>1, <2>2
<1>3. leaf = IF h # 0 THEN h ELSE estimate
  BY <1>1 DEF calculateMerkleLeafGas
<1>4. leaf \in Nat /\ g < leaf
  <2>1. h \in Nat /\ (h # 0 => estimate <= h)
    BY <1>1
  <2> QED
    BY <1>2, <1>3, <2>1
<1>5. PICK m : m = getMaxGasLimit(b)
  OBVIOUS
<1>6. b \in Nat
  BY <1>1
<1>7. m = IF b <= 850 THEN b ELSE IF b <= 2000 THEN (b * 8) \div 10 ELSE b \div 2
  BY <1>5 DEF getMaxGasLimit
<1>8. m \in Nat /\ m <= b
  BY <1>6, <1>7, SMT
<1>9. leaf <= m
  BY <1>1, <1>5
<1>10. leaf <= b
  BY <1>4, <1>6, <1>8, <1>9
<1> QED
  BY <1>1, <1>4, <1>10

(* The configuration is made, of what was parsed. *)
IsMade(pos, len, parsed, estimates) ==
    /\ Blocks(pos, len, accesses, executed) /\ IsComplete(parsed, pos)
    /\ IsConfig(networkConfig, parsed, estimates)
    /\ \A i \in DOMAIN parsed :
          estimates[i] = IF network.rootstock THEN 6 + (parsed[i].root.gas * 11) \div 10
                                              ELSE 12 + (parsed[i].root.gas * 12) \div 10

(* What the command makes of the record is made of what was parsed.        *)
LEMMA MadeIs ==
    ASSUME CollectionOK, networkConfig = TheConfig, Collected
    PROVE  \E pos, len, parsed, estimates : IsMade(pos, len, parsed, estimates)
<1>1. PICK pos, len : Blocks(pos, len, accesses, executed)
  BY DEF CollectionOK
<1>2. PICK parsed : parsed = addBalanceCheckAction(parseAccountAccesses)
  OBVIOUS
<1>3. IsComplete(parsed, pos)
  <2>1. IsParsed(parseAccountAccesses, pos)
    BY <1>1, ParsedIs
  <2> QED
    BY <1>2, <2>1, CompleteIs
<1>4. PICK estimates : estimates = estimateMerkleLeafGas(parsed)
  OBVIOUS
<1>5. /\ DOMAIN estimates = DOMAIN parsed
      /\ \A i \in DOMAIN parsed :
            estimates[i] = IF network.rootstock THEN 6 + (parsed[i].root.gas * 11) \div 10
                                                ELSE 12 + (parsed[i].root.gas * 12) \div 10
  BY <1>4 DEF estimateMerkleLeafGas
<1>6. parsed \in Seq(ToSet(parsed))
  BY <1>3 DEF IsComplete
<1>7. networkConfig = makeNetworkConfig(parsed, estimates) /\ networkConfig.status = "made"
  BY <1>2, <1>4 DEF TheConfig, Collected
<1>8. IsConfig(networkConfig, parsed, estimates)
  BY <1>5, <1>6, <1>7, ConfigIs
<1> QED
  BY <1>1, <1>3, <1>5, <1>8 DEF IsMade

(* The check of the funds is recognized.                                   *)
LEMMA PreviewHolds ==
    ASSUME CollectionOK, NEW pos, NEW len, NEW parsed, NEW estimates,
           IsMade(pos, len, parsed, estimates)
    PROVE  Len(getPreview) = Len(networkConfig.actionInputs)
<1>1. PICK actions, n : actions = networkConfig.actionInputs /\ n = Len(parsed)
  OBVIOUS
<1>2. /\ Blocks(pos, len, accesses, executed) /\ IsComplete(parsed, pos)
      /\ IsConfig(networkConfig, parsed, estimates)
  BY DEF IsMade
<1>3. /\ DOMAIN actions = 1 .. n /\ n \in Nat /\ Len(actions) = n /\ DOMAIN parsed = 1 .. n
      /\ \A i \in 1 .. n : IsAction(actions[i], i, parsed, estimates)
  <2>1. parsed \in Seq(ToSet(parsed))
    BY <1>2 DEF IsComplete
  <2> QED
    BY <1>1, <1>2, <2>1 DEF IsConfig
<1>4. funds > 0 => IsFundingCheckAction(actions[1])
  <2>1. SUFFICES ASSUME funds > 0 PROVE IsFundingCheckAction(actions[1])
    OBVIOUS
  <2>2. funds \in Nat /\ funds # 0
    BY <2>1 DEF CollectionOK
  <2>3. parsed[1] = CheckFunds /\ 1 \in 1 .. n
    <3>1. DOMAIN parsed = 1 .. Len(executed) + 1 /\ Len(executed) \in Nat
      BY <1>2, <2>2 DEF IsComplete, Offset, CollectionOK, IsSeq
    <3> QED
      BY <1>2, <1>3, <2>2, <3>1 DEF IsComplete
  <2>4. PICK root, nested, x : root = parsed[1].root /\ nested = parsed[1].nested /\ x = actions[1]
    OBVIOUS
  <2>5. /\ root.kind = "Call" /\ root.account = Safe /\ root.data = "0x"
        /\ root.value = SafeBalance + funds /\ nested = <<>>
    BY <2>3, <2>4 DEF CheckFunds
  <2>6. IsAction(x, 1, parsed, estimates)
    BY <1>3, <2>3, <2>4
  <2>7. PICK found : found = ConfigArtifacts(parsed)
    OBVIOUS
  <2>8. /\ x.index = 1 /\ Labels(x, ToSet(Creates(Labeled(root, nested))), found)
        /\ ActsFor(x, root, nested, parsed)
    BY <2>4, <2>6, <2>7 DEF IsAction
  <2>9. x.contracts = {}
    <3>1. Labeled(root, nested) = <<>>
      BY <2>5 DEF Labeled
    <3>2. PICK none : none = Creates(Labeled(root, nested))
      OBVIOUS
    <3>3. ToSet(none) = {}
      <4>1. PICK e : e = Labeled(root, nested)
        OBVIOUS
      <4>2. e = <<>> /\ e \in Seq(Nat) /\ ToSet(e) = {}
        BY <3>1, <4>1 DEF ToSet
      <4>3. ToSet(Creates(e)) = {a \in ToSet(e) : a.kind = "Create"}
        BY <4>2, CreatesAre
      <4> QED
        BY <3>2, <4>1, <4>2, <4>3
    <3> QED
      BY <2>8, <3>2, <3>3 DEF Labels
  <2>10. ~isCreate2AccountAccess(root, nested)
    BY <2>5 DEF isCreate2AccountAccess
  <2>11. /\ x.actionType = "CALL" /\ x.to = Safe /\ x.value = SafeBalance + funds
         /\ x.txData = "0x"
         /\ x.referenceName =
              ReferenceName(Safe, findFullyQualifiedNameForAddress(Safe, parsed, found))
    BY <2>5, <2>7, <2>8, <2>10 DEF ActsFor
  <2>12. findFullyQualifiedNameForAddress(Safe, parsed, found) = Undefined
    <3>1. \A a \in Deployed(pos) : a.account # Safe
      BY DEF Deployed, CollectionOK, GoodAccess
    <3> QED
      BY <1>2, <3>1, NameOfAddress
  <2>13. x.referenceName = Safe
    BY <2>11, <2>12 DEF ReferenceName
  <2> QED
    BY <2>4, <2>8, <2>9, <2>11, <2>13 DEF IsFundingCheckAction
<1>5. getPreview = [i \in DOMAIN actions |->
                      IF i = 1 /\ funds > 0 THEN <<"FundingSafe", funds>>
                                            ELSE <<"Action", actions[i].referenceName>>]
  BY <1>1, <1>4 DEF getPreview
<1>6. PICK preview : preview = getPreview
  OBVIOUS
<1>7. DOMAIN preview = 1 .. n
  BY <1>3, <1>5, <1>6
<1>8. Len(preview) = n
  BY <1>3, <1>5, <1>6, <1>7
<1> QED
  BY <1>1, <1>3, <1>6, <1>8

(* What is known of the action of transaction t, recorded at access k and  *)
(* the n after it, when those up to l are taken to be nested in it.        *)
IsPlaced(t, k, n, l, x, parsed, estimates) ==
    /\ t \in 1 .. Len(executed) /\ k \in 1 .. Len(accesses) /\ n \in Nat
    /\ l \in k .. Len(accesses) /\ k + n <= l
    /\ isRootAccountAccess(accesses[k])
    /\ Performs(executed[t], accesses, k, n)
    /\ x = networkConfig.actionInputs[t + Offset] /\ t + Offset \in DOMAIN parsed
    /\ Labels(x, ToSet(Creates(Labeled(accesses[k], SubSeq(accesses, k + 1, l)))),
              ConfigArtifacts(parsed))
    /\ ActsFor(x, accesses[k], SubSeq(accesses, k + 1, l), parsed)
    /\ x.index = t + Offset /\ x.gas = calculateMerkleLeafGas(estimates[t + Offset])
    /\ parsed[t + Offset].root = accesses[k]

(* The action of a transaction is made of its accesses.                    *)
LEMMA ActionIsPlaced ==
    ASSUME CollectionOK, NEW pos, NEW len, NEW parsed, NEW estimates,
           IsMade(pos, len, parsed, estimates), NEW t \in 1 .. Len(executed)
    PROVE  IsPlaced(t, pos[t], len[t], LastNested(pos[t]), ActionOf(t), parsed, estimates)
<1>1. PICK k, n, l, i, x, root, nested :
         /\ k = pos[t] /\ n = len[t] /\ l = LastNested(k) /\ i = t + Offset /\ x = ActionOf(t)
         /\ root = accesses[k] /\ nested = SubSeq(accesses, k + 1, l)
  OBVIOUS
<1>2. /\ Blocks(pos, len, accesses, executed) /\ IsComplete(parsed, pos)
      /\ IsConfig(networkConfig, parsed, estimates)
  BY DEF IsMade
<1>3. /\ accesses \in Seq(ToSet(accesses)) /\ Len(accesses) \in Nat /\ Len(executed) \in Nat
      /\ Offset \in Nat
  BY DEF CollectionOK, IsSeq, Offset
<1>4. k \in 1 .. Len(accesses) /\ n \in Nat /\ Performs(executed[t], accesses, k, n)
  BY <1>1, <1>2 DEF Blocks
<1>5. isRootAccountAccess(accesses[k])
  BY <1>1, <1>2, <1>3 DEF Blocks, Lists, Roots
<1>6. l \in k .. Len(accesses)
  BY <1>1, <1>3, <1>4, LastNestedIs
<1>7. k + n <= l
  BY <1>1, <1>3, <1>4, NestedIsCovered
<1>8. DOMAIN parsed = 1 .. Len(executed) + Offset /\ i \in DOMAIN parsed
  <2>1. DOMAIN parsed = 1 .. Len(executed) + Offset
    BY <1>2 DEF IsComplete
  <2>2. i \in 1 .. Len(executed) + Offset
    BY <1>1, <1>3
  <2> QED
    BY <2>1, <2>2
<1>9. parsed[i].root = root /\ parsed[i].nested = nested
  BY <1>1, <1>2 DEF IsComplete
<1>10. x = networkConfig.actionInputs[i]
  BY <1>1 DEF ActionOf, Offset
<1>11. IsAction(x, i, parsed, estimates)
  BY <1>2, <1>8, <1>10 DEF IsConfig
<1>12. /\ x.index = i /\ x.gas = calculateMerkleLeafGas(estimates[i])
       /\ Labels(x, ToSet(Creates(Labeled(root, nested))), ConfigArtifacts(parsed))
       /\ ActsFor(x, root, nested, parsed)
  BY <1>9, <1>11 DEF IsAction
<1>13. IsPlaced(t, k, n, l, x, parsed, estimates)
  BY <1>1, <1>4, <1>5, <1>6, <1>7, <1>8, <1>9, <1>10, <1>12 DEF IsPlaced
<1> QED
  BY <1>1, <1>13

(* The contracts that are put down to an access are those from it on.      *)
LEMMA LabeledAre ==
    ASSUME accesses \in Seq(ToSet(accesses)), NEW k \in 1 .. Len(accesses),
           NEW l \in k .. Len(accesses)
    PROVE  ToSet(Creates(Labeled(accesses[k], SubSeq(accesses, k + 1, l)))) =
              {accesses[j] : j \in {i \in k .. l : accesses[i].kind = "Create"}}
<1>1. PICK root, nested, all, T :
         /\ root = accesses[k] /\ nested = SubSeq(accesses, k + 1, l)
         /\ all = Labeled(root, nested) /\ T = ToSet(accesses)
  OBVIOUS
<1>2. nested \in Seq(T) /\ ToSet(nested) = {accesses[j] : j \in k + 1 .. l}
  BY <1>1, RunIs
<1>3. root \in T /\ k \in Nat /\ l \in Nat /\ k <= l
  BY <1>1 DEF ToSet
<1>4. k .. l = {k} \cup (k + 1 .. l)
  BY <1>3
<1>5. CASE root.kind = "Create"
  <2>1. all = Append(nested, root)
    BY <1>1, <1>5 DEF Labeled
  <2>2. /\ all \in Seq(T) /\ Len(all) = Len(nested) + 1
        /\ \A i \in 1 .. Len(nested) + 1 :
              all[i] = IF i <= Len(nested) THEN nested[i] ELSE root
    BY <1>2, <1>3, <2>1, AppendProperties
  <2>3. ToSet(all) = ToSet(nested) \cup {root}
    <3>1. Len(nested) \in Nat /\ DOMAIN nested = 1 .. Len(nested) /\ DOMAIN all = 1 .. Len(nested) + 1
      BY <1>2, <2>2
    <3>2. ToSet(all) \subseteq ToSet(nested) \cup {root}
      BY <2>2, <3>1 DEF ToSet
    <3>3. \A i \in 1 .. Len(nested) : all[i] = nested[i] /\ i \in DOMAIN all
      BY <2>2, <3>1
    <3>4. Len(nested) + 1 \in DOMAIN all /\ all[Len(nested) + 1] = root
      BY <2>2, <3>1
    <3>5. ToSet(nested) \cup {root} \subseteq ToSet(all)
      BY <3>1, <3>3, <3>4 DEF ToSet
    <3> QED
      BY <3>2, <3>5
  <2>4. ToSet(Creates(all)) = {a \in ToSet(all) : a.kind = "Create"}
    BY <2>2, CreatesAre
  <2>5. ToSet(all) = {accesses[j] : j \in k .. l}
    BY <1>1, <1>2, <1>4, <2>3
  <2> QED
    BY <1>1, <2>4, <2>5
<1>6. CASE root.kind # "Create"
  <2>1. all = nested
    BY <1>1, <1>6 DEF Labeled
  <2>2. ToSet(Creates(all)) = {a \in ToSet(all) : a.kind = "Create"}
    BY <1>2, <2>1, CreatesAre
  <2>3. \A j \in k .. l : accesses[j].kind = "Create" => j \in k + 1 .. l
    BY <1>1, <1>4, <1>6
  <2>4. k + 1 .. l \subseteq k .. l
    BY <1>4
  <2>5. \A a \in ToSet(nested) : \E j \in k .. l : a = accesses[j]
    BY <1>2, <2>4
  <2>6. \A j \in k .. l : accesses[j].kind = "Create" => accesses[j] \in ToSet(nested)
    BY <1>2, <2>3
  <2> QED
    BY ZenonT(30), <1>1, <2>1, <2>2, <2>5, <2>6
<1> QED
  BY <1>5, <1>6

(* An action performs its transaction.                                     *)
LEMMA ActionIsTheTransaction ==
    ASSUME CollectionOK, NEW t, NEW k, NEW n, NEW l, NEW x, NEW parsed, NEW estimates,
           IsPlaced(t, k, n, l, x, parsed, estimates)
    PROVE  /\ x.actionType = executed[t].type
           /\ x.to = IF executed[t].type = "CREATE" THEN CreateCall ELSE executed[t].to
           /\ executed[t].type # "CALL" => x.target \in {c.address : c \in executed[t].created}
<1>1. PICK tx, root, nested : /\ tx = executed[t] /\ root = accesses[k]
                              /\ nested = SubSeq(accesses, k + 1, l)
  OBVIOUS
<1>2. /\ k \in 1 .. Len(accesses) /\ l \in k .. Len(accesses) /\ n \in Nat /\ k + n <= l
      /\ isRootAccountAccess(root) /\ Performs(tx, accesses, k, n)
      /\ ActsFor(x, root, nested, parsed)
  BY <1>1 DEF IsPlaced
<1>3. accesses \in Seq(ToSet(accesses)) /\ k \in Nat /\ l \in Nat
  BY <1>2 DEF CollectionOK, IsSeq
<1>4. /\ tx.to = root.account /\ IsOfType(tx.type, accesses, k, n)
      /\ \A j \in k + 1 .. k + n : IsNested(accesses[j])
      /\ tx.created = {[address |-> accesses[j].account, init |-> accesses[j].data] :
                          j \in {i \in k .. k + n : accesses[i].kind = "Create"}}
  BY <1>1, <1>2 DEF Performs
<1>5. \A j \in k .. k + n : accesses[j].kind = "Create" =>
         accesses[j].account \in {c.address : c \in tx.created}
  <2>1. ASSUME NEW j \in k .. k + n, accesses[j].kind = "Create"
        PROVE  accesses[j].account \in {c.address : c \in tx.created}
    <3>1. PICK c : c = [address |-> accesses[j].account, init |-> accesses[j].data]
      OBVIOUS
    <3>2. c \in tx.created /\ c.address = accesses[j].account
      BY <1>4, <2>1, <3>1
    <3> QED
      BY <3>2
  <2> QED
    BY <2>1
<1>6. CASE tx.type = "CREATE" /\ root.kind = "Create"
  <2>1. x.actionType = "CREATE" /\ x.to = CreateCall /\ x.target = root.account
    BY <1>2, <1>6 DEF ActsFor
  <2>2. k \in k .. k + n
    BY <1>2, <1>3
  <2> QED
    BY <1>1, <1>5, <1>6, <2>1, <2>2
<1>7. CASE tx.type = "CALL" /\ root.kind = "Call" /\ root.account # Proxy
  <2>1. ~isCreate2AccountAccess(root, nested) /\ root.kind # "Create"
    BY <1>7 DEF isCreate2AccountAccess
  <2>2. x.actionType = "CALL" /\ x.to = root.account
    BY <1>2, <2>1 DEF ActsFor
  <2> QED
    BY <1>1, <1>4, <1>7, <2>2
<1>8. CASE /\ tx.type = "CREATE2" /\ root.kind = "Call" /\ root.account = Proxy
           /\ n = 1 /\ accesses[k + 1].accessor = Proxy
           /\ accesses[k + 1].account = <<"create2", root.data[1], root.data[2]>>
  <2>1. k + 1 \in k + 1 .. k + n /\ k + 1 \in k .. k + n /\ l # k
    BY <1>2, <1>3, <1>8
  <2>2. accesses[k + 1].kind = "Create"
    BY <1>4, <2>1 DEF IsNested
  <2>3. nested # <<>> /\ nested[1] = accesses[k + 1]
    BY <1>1, <1>2, <1>3, <2>1, RunIs
  <2>4. isCreate2AccountAccess(root, nested) /\ root.kind # "Create"
    BY <1>8, <2>2, <2>3 DEF isCreate2AccountAccess, decodeDeterministicDeploymentProxyData
  <2>5. x.actionType = "CREATE2" /\ x.to = Proxy /\ x.target = accesses[k + 1].account
    BY <1>2, <1>8, <2>4 DEF ActsFor
  <2> QED
    BY <1>1, <1>4, <1>5, <1>8, <2>1, <2>2, <2>5
<1> QED
  BY <1>1, <1>4, <1>6, <1>7, <1>8 DEF IsOfType

(* The actions are the transactions.                                       *)
LEMMA ActionsHold ==
    ASSUME CollectionOK, NEW pos, NEW len, NEW parsed, NEW estimates,
           IsMade(pos, len, parsed, estimates)
    PROVE  ActionsAreTheTransactions
<1>1. PICK N, o : N = Len(executed) /\ o = Offset
  OBVIOUS
<1>2. N \in Nat /\ DOMAIN executed = 1 .. N
  BY <1>1 DEF CollectionOK, IsSeq
<1>3. Len(networkConfig.actionInputs) = N + IF funds = 0 THEN 0 ELSE 1
  <2>1. IsComplete(parsed, pos) /\ IsConfig(networkConfig, parsed, estimates)
    BY DEF IsMade
  <2>2. parsed \in Seq(ToSet(parsed)) /\ DOMAIN parsed = 1 .. N + o /\ o \in Nat
    BY <1>1, <2>1 DEF IsComplete, Offset
  <2>3. Len(parsed) = N + o
    BY <1>2, <2>2
  <2>4. Len(networkConfig.actionInputs) = Len(parsed)
    BY <2>1 DEF IsConfig
  <2> QED
    BY <1>1, <2>3, <2>4 DEF Offset
<1>4. ASSUME NEW t \in 1 .. N
      PROVE  /\ ActionOf(t).actionType = executed[t].type
             /\ networkConfig.actionInputs[ActionOf(t).index] = ActionOf(t)
             /\ ActionOf(t).to = IF executed[t].type = "CREATE" THEN CreateCall ELSE executed[t].to
             /\ executed[t].type # "CALL" =>
                   ActionOf(t).target \in {c.address : c \in executed[t].created}
             /\ executed[t].gas < ActionOf(t).gas /\ ActionOf(t).gas <= network.blockGasLimit
  <2>1. PICK k, n, l, x : /\ k = pos[t] /\ n = len[t] /\ l = LastNested(k) /\ x = ActionOf(t)
    OBVIOUS
  <2>2. IsPlaced(t, k, n, l, x, parsed, estimates)
    BY <1>1, <2>1, ActionIsPlaced
  <2>3. /\ x.actionType = executed[t].type
        /\ x.to = IF executed[t].type = "CREATE" THEN CreateCall ELSE executed[t].to
        /\ executed[t].type # "CALL" => x.target \in {c.address : c \in executed[t].created}
    BY <2>2, ActionIsTheTransaction
  <2>4. networkConfig.actionInputs[x.index] = x
    BY <2>2 DEF IsPlaced
  <2>5. executed[t].gas < x.gas /\ x.gas <= network.blockGasLimit
    <3>1. PICK i, g, estimate : i = t + o /\ g = executed[t].gas /\ estimate = estimates[i]
      OBVIOUS
    <3>2. /\ i \in DOMAIN parsed /\ x.gas = calculateMerkleLeafGas(estimate)
          /\ parsed[i].root.gas = g /\ k \in 1 .. Len(accesses) /\ g = accesses[k].gas
      BY <1>1, <2>2, <3>1 DEF IsPlaced, Performs
    <3>3. g \in Nat
      BY <3>2 DEF CollectionOK, GoodAccess
    <3>4. estimate = IF network.rootstock THEN 6 + (g * 11) \div 10 ELSE 12 + (g * 12) \div 10
      BY <3>1, <3>2 DEF IsMade
    <3>5. /\ network.hardcodedGas # 0 => estimate <= network.hardcodedGas
          /\ calculateMerkleLeafGas(estimate) <= getMaxGasLimit(network.blockGasLimit)
      <4>1. IsConfig(networkConfig, parsed, estimates) /\ x = networkConfig.actionInputs[i]
        BY <1>1, <2>2, <3>1 DEF IsMade, IsPlaced
      <4> QED
        BY <3>1, <3>2, <4>1 DEF IsConfig
    <3>6. network.hardcodedGas \in Nat /\ network.blockGasLimit \in Nat
      BY CollectionAssumption DEF CollectionOK
    <3> QED
      BY <3>1, <3>2, <3>3, <3>4, <3>5, <3>6, GasIsCovered
  <2> QED
    BY <2>1, <2>3, <2>4, <2>5
<1> QED
  BY <1>1, <1>2, <1>3, <1>4 DEF ActionsAreTheTransactions

(* What is put down to a transaction beyond its own contracts is a stray,  *)
(* and its own are not.                                                    *)
LEMMA StraysAre ==
    ASSUME CollectionOK, NEW pos, NEW len, Blocks(pos, len, accesses, executed),
           NEW t \in 1 .. Len(executed),
           NEW j \in pos[t] .. LastNested(pos[t]), accesses[j].kind = "Create"
    PROVE  accesses[j].account \in Strays <=> ~(j <= pos[t] + len[t])
<1>1. PICK L, N, k, n, l, a : /\ L = Len(accesses) /\ N = Len(executed)
                              /\ k = pos[t] /\ n = len[t] /\ l = LastNested(k) /\ a = accesses[j]
  OBVIOUS
<1>2. accesses \in Seq(ToSet(accesses)) /\ L \in Nat /\ N \in Nat /\ DOMAIN accesses = 1 .. L
  BY <1>1 DEF CollectionOK, IsSeq
<1>3. /\ pos \in [1 .. N -> 1 .. L] /\ len \in [1 .. N -> Nat] /\ Lists(pos, N, Roots(accesses))
      /\ \A u \in 1 .. N : Performs(executed[u], accesses, pos[u], len[u])
  BY <1>1 DEF Blocks
<1>4. k \in 1 .. L /\ n \in Nat /\ t \in 1 .. N
  BY <1>1, <1>3
<1>5. l \in k .. L /\ \A i \in k + 1 .. l : ~isRootAccountAccess(accesses[i]) /\ accesses[i].onNetwork
  BY <1>1, <1>2, <1>4, LastNestedIs
<1>6. j \in k .. l /\ j \in 1 .. L
  BY <1>1, <1>4, <1>5
<1>7. \A u \in 1 .. N : isRootAccountAccess(accesses[pos[u]])
  BY <1>2, <1>3 DEF Lists, Roots
<1>8. a.onNetwork
  <2>1. j = k \/ j \in k + 1 .. l
    BY <1>4, <1>5, <1>6
  <2>2. accesses[k].onNetwork
    BY <1>1, <1>7 DEF isRootAccountAccess
  <2> QED
    BY <1>1, <1>5, <2>1, <2>2
<1>9. CASE j <= k + n
  <2>1. a.accessor # Script
    <3>1. j = k \/ j \in k + 1 .. k + n
      BY <1>4, <1>6, <1>9
    <3>2. CASE j = k
      <4>1. a.accessor = Safe
        BY <1>1, <1>7, <3>2 DEF isRootAccountAccess
      <4> QED
        BY <4>1 DEF Safe, Script
    <3>3. CASE j \in k + 1 .. k + n
      BY <1>1, <1>3, <3>3 DEF Performs, IsNested
    <3> QED
      BY <3>1, <3>2, <3>3
  <2>2. ASSUME a.account \in Strays PROVE FALSE
    <3>1. PICK i \in 1 .. L : /\ accesses[i].kind = "Create" /\ accesses[i].accessor = Script
                              /\ accesses[i].account = a.account
      BY <1>2, <2>2 DEF Strays
    <3>2. PICK s : s = accesses[i]
      OBVIOUS
    <3>3. GoodAccess(s, nonce) /\ GoodAccess(a, nonce) /\ a.kind = "Create"
      BY <1>1, <1>6, <3>2 DEF CollectionOK
    <3>4. s.account = <<"new", Script, s.account[3]>>
      <4>1. Script # Proxy
        BY DEF Script, Proxy
      <4> QED
        BY <3>1, <3>2, <3>3, <4>1 DEF GoodAccess
    <3>5. s.account[1] = "new" /\ s.account[2] = Script
      BY <3>4
    <3>6. \/ a.account = <<"create2", a.account[2], a.data>>
          \/ a.account = <<"new", a.accessor, a.account[3]>>
      BY <3>3 DEF GoodAccess
    <3>7. a.account[1] = "create2" \/ a.account[2] = a.accessor
      BY <3>6
    <3>8. a.account = s.account
      BY <3>1, <3>2
    <3> QED
      BY <2>1, <3>5, <3>7, <3>8
  <2> QED
    BY <1>1, <1>9, <2>2
<1>10. CASE ~(j <= k + n)
  <2>1. ASSUME a.accessor # Script PROVE FALSE
    <3>1. PICK u \in 1 .. N : pos[u] <= j /\ j <= pos[u] + len[u]
      BY <1>1, <1>6, <1>8, <2>1 DEF Blocks
    <3>2. PICK m, p : m = pos[u] /\ p = len[u]
      OBVIOUS
    <3>3. m \in 1 .. L /\ p \in Nat /\ m <= j /\ j <= m + p /\ isRootAccountAccess(accesses[m])
      BY <1>3, <1>7, <3>1, <3>2
    <3>4. ~(m \in k + 1 .. l)
      BY <1>5, <3>3
    <3>5. m <= k
      BY <1>4, <1>5, <1>6, <3>3, <3>4
    <3>6. CASE m = k
      <4>1. u = t
        <5>1. u < t => m < k
          BY <1>1, <1>3, <1>4, <3>2 DEF Lists, Ascending
        <5>2. t < u => k < m
          BY <1>1, <1>3, <1>4, <3>2 DEF Lists, Ascending
        <5>3. ~(u < t) /\ ~(t < u)
          BY <1>4, <3>3, <3>6, <5>1, <5>2
        <5> QED
          BY <1>2, <1>4, <5>3
      <4> QED
        BY <1>1, <1>10, <3>1, <3>2, <4>1
    <3>7. CASE m < k
      <4>1. k \in m + 1 .. m + p
        BY <1>4, <1>6, <3>3, <3>7
      <4>2. IsNested(accesses[k])
        BY <1>3, <3>2, <4>1 DEF Performs
      <4>3. accesses[k].accessor = Safe
        BY <1>1, <1>7 DEF isRootAccountAccess
      <4> QED
        BY <4>2, <4>3 DEF IsNested
    <3> QED
      BY <1>4, <3>3, <3>5, <3>6, <3>7
  <2>2. a.account \in Strays
    BY <1>1, <1>2, <1>6, <2>1 DEF Strays
  <2> QED
    BY <1>1, <1>10, <2>2
<1> QED
  BY <1>1, <1>9, <1>10

(* The labels that an action has, of the contracts of its accesses.        *)
LEMMA LabelsAre ==
    ASSUME CollectionOK, NEW pos, NEW len, NEW parsed,
           Blocks(pos, len, accesses, executed), IsComplete(parsed, pos),
           NEW t \in 1 .. Len(executed), NEW x,
           Labels(x, {accesses[j] : j \in {i \in pos[t] .. LastNested(pos[t]) :
                                             accesses[i].kind = "Create"}},
                  ConfigArtifacts(parsed))
    PROVE  /\ {c \in x.contracts : c.address \notin Strays} =
                 {[address |-> c.address, name |-> TrueName(c.init)] :
                     c \in {d \in executed[t].created : TrueName(d.init) # Undefined}}
           /\ x.unlabeled \ Strays =
                 {c.address : c \in executed[t].created \
                     {d \in executed[t].created : TrueName(d.init) # Undefined}}
<1>1. PICK L, N, k, n, l : /\ L = Len(accesses) /\ N = Len(executed)
                           /\ k = pos[t] /\ n = len[t] /\ l = LastNested(k)
  OBVIOUS
<1>2. accesses \in Seq(ToSet(accesses)) /\ L \in Nat /\ N \in Nat /\ DOMAIN accesses = 1 .. L
  BY <1>1 DEF CollectionOK, IsSeq
<1>3. k \in 1 .. L /\ n \in Nat /\ t \in 1 .. N /\ Performs(executed[t], accesses, k, n)
  BY <1>1 DEF Blocks
<1>4. l \in k .. L /\ k + n <= l
  BY <1>1, <1>2, <1>3, LastNestedIs, NestedIsCovered
<1>5. PICK I, J, made, found : /\ I = {i \in k .. l : accesses[i].kind = "Create"}
                               /\ J = {i \in k .. k + n : accesses[i].kind = "Create"}
                               /\ made = {accesses[j] : j \in I} /\ found = ConfigArtifacts(parsed)
  OBVIOUS
<1>6. Labels(x, made, found)
  BY <1>1, <1>5
<1>7. \A j \in I : accesses[j].account \in Strays <=> j \notin J
  <2>1. ASSUME NEW j \in I PROVE accesses[j].account \in Strays <=> ~(j <= k + n)
    <3>1. j \in pos[t] .. LastNested(pos[t]) /\ accesses[j].kind = "Create"
      BY <1>1, <1>5
    <3> QED
      BY <1>1, <3>1, StraysAre
  <2>2. \A j \in I : j \in J <=> j <= k + n
    BY <1>3, <1>4, <1>5
  <2> QED
    BY <2>1, <2>2
<1>8. J \subseteq I
  BY <1>3, <1>4, <1>5
<1>9. PICK created : created = executed[t].created
  OBVIOUS
<1>10. created = {[address |-> accesses[j].account, init |-> accesses[j].data] : j \in J}
  BY <1>3, <1>5, <1>9 DEF Performs
<1>11. \A j \in I : findFullyQualifiedNameForInitCode(accesses[j].data, found) =
                      TrueName(accesses[j].data)
  <2>1. ASSUME NEW j \in I
        PROVE  findFullyQualifiedNameForInitCode(accesses[j].data, found) = TrueName(accesses[j].data)
    <3>1. j \in k .. l /\ accesses[j].kind = "Create"
      BY <1>5
    <3>2. j \in 1 .. L /\ k <= j /\ j <= l
      BY <1>2, <1>3, <1>4, <3>1
    <3>3. accesses[j] \in Deployed(pos)
      BY <1>1, <1>3, <3>1, <3>2 DEF Deployed
    <3> QED
      BY <1>5, <3>3, ArtifactsSuffice
  <2> QED
    BY <2>1
<1>12. PICK entry : entry = [j \in I |-> [address |-> accesses[j].account,
                                         name |-> TrueName(accesses[j].data)]]
  OBVIOUS
<1>13. \A j \in I : /\ accesses[j] \in made
                    /\ entry[j] = [address |-> accesses[j].account,
                                   name |-> TrueName(accesses[j].data)]
                    /\ entry[j].address = accesses[j].account
  BY <1>5, <1>12
<1>14. \A a \in made : \E j \in I : a = accesses[j]
  BY <1>5
<1>15. \A c : c \in x.contracts <=> \E j \in I : /\ TrueName(accesses[j].data) # Undefined
                                               /\ c = entry[j]
  <2>1. ASSUME NEW c \in x.contracts
        PROVE  \E j \in I : TrueName(accesses[j].data) # Undefined /\ c = entry[j]
    <3>1. PICK a \in made :
             /\ findFullyQualifiedNameForInitCode(a.data, found) # Undefined
             /\ c = [address |-> a.account,
                     name |-> findFullyQualifiedNameForInitCode(a.data, found)]
      BY <1>6, <2>1 DEF Labels
    <3>2. PICK j \in I : a = accesses[j]
      BY <1>14
    <3> QED
      BY <1>11, <1>13, <3>1, <3>2
  <2>2. ASSUME NEW j \in I, TrueName(accesses[j].data) # Undefined
        PROVE  entry[j] \in x.contracts
    <3>1. PICK a : a = accesses[j]
      OBVIOUS
    <3>2. /\ a \in made /\ findFullyQualifiedNameForInitCode(a.data, found) # Undefined
          /\ entry[j] = [address |-> a.account,
                         name |-> findFullyQualifiedNameForInitCode(a.data, found)]
      BY <1>11, <1>13, <2>2, <3>1
    <3> QED
      BY <1>6, <3>2 DEF Labels
  <2> QED
    BY <2>1, <2>2
<1>16. \A b : b \in x.unlabeled <=> \E j \in I : /\ TrueName(accesses[j].data) = Undefined
                                               /\ b = accesses[j].account
  <2>1. ASSUME NEW b \in x.unlabeled
        PROVE  \E j \in I : TrueName(accesses[j].data) = Undefined /\ b = accesses[j].account
    <3>1. PICK a \in made : /\ findFullyQualifiedNameForInitCode(a.data, found) = Undefined
                           /\ b = a.account
      BY <1>6, <2>1 DEF Labels
    <3> QED
      BY <1>11, <1>14, <3>1
  <2>2. ASSUME NEW j \in I, TrueName(accesses[j].data) = Undefined
        PROVE  accesses[j].account \in x.unlabeled
    <3>1. PICK a : a = accesses[j]
      OBVIOUS
    <3>2. a \in made /\ findFullyQualifiedNameForInitCode(a.data, found) = Undefined
      BY <1>11, <1>13, <2>2, <3>1
    <3> QED
      BY <1>6, <3>1, <3>2 DEF Labels
  <2> QED
    BY <2>1, <2>2
<1>17. PICK record : record = [j \in J |-> [address |-> accesses[j].account, init |-> accesses[j].data]]
  OBVIOUS
<1>18. /\ created = {record[j] : j \in J}
       /\ \A j \in J : /\ record[j].address = accesses[j].account
                       /\ record[j].init = accesses[j].data
                       /\ entry[j] = [address |-> record[j].address, name |-> TrueName(record[j].init)]
  <2>1. \A j \in J : /\ record[j].address = accesses[j].account
                    /\ record[j].init = accesses[j].data
    BY <1>17
  <2>2. created = {record[j] : j \in J}
    BY <1>10, <1>17
  <2> QED
    BY <1>8, <1>13, <2>1, <2>2
<1>19. PICK named, shown : /\ named = {d \in created : TrueName(d.init) # Undefined}
                           /\ shown = {c \in x.contracts : c.address \notin Strays}
  OBVIOUS
<1>20. shown = {[address |-> c.address, name |-> TrueName(c.init)] : c \in named}
  <2>1. ASSUME NEW c \in shown
        PROVE  \E d \in named : c = [address |-> d.address, name |-> TrueName(d.init)]
    <3>1. PICK j \in I : TrueName(accesses[j].data) # Undefined /\ c = entry[j]
      BY <1>15, <1>19, <2>1
    <3>2. j \in J
      BY <1>7, <1>13, <1>19, <2>1, <3>1
    <3> QED
      BY <1>18, <1>19, <3>1, <3>2
  <2>2. ASSUME NEW d \in named
        PROVE  [address |-> d.address, name |-> TrueName(d.init)] \in shown
    <3>1. PICK j \in J : d = record[j]
      BY <1>18, <1>19, <2>2
    <3>2. j \in I /\ TrueName(accesses[j].data) # Undefined
      BY <1>8, <1>18, <1>19, <2>2, <3>1
    <3>3. entry[j] \in x.contracts /\ entry[j].address \notin Strays
      BY <1>7, <1>13, <1>15, <3>1, <3>2
    <3> QED
      BY <1>18, <1>19, <3>1, <3>3
  <2> QED
    BY <2>1, <2>2
<1>21. x.unlabeled \ Strays = {c.address : c \in created \ named}
  <2>1. ASSUME NEW b \in x.unlabeled \ Strays PROVE \E c \in created \ named : b = c.address
    <3>1. PICK j \in I : TrueName(accesses[j].data) = Undefined /\ b = accesses[j].account
      BY <1>16, <2>1
    <3>2. j \in J
      BY <1>7, <2>1, <3>1
    <3> QED
      BY <1>18, <1>19, <3>1, <3>2
  <2>2. ASSUME NEW c \in created \ named PROVE c.address \in x.unlabeled \ Strays
    <3>1. PICK j \in J : c = record[j]
      BY <1>18, <2>2
    <3>2. j \in I /\ TrueName(accesses[j].data) = Undefined /\ c.address = accesses[j].account
      BY <1>8, <1>18, <1>19, <2>2, <3>1
    <3> QED
      BY <1>7, <1>16, <3>1, <3>2
  <2> QED
    BY <2>1, <2>2
<1> QED
  BY <1>9, <1>19, <1>20, <1>21

(* What is taken for a transaction's is on the network.                    *)
LEMMA DeployedHere ==
    ASSUME CollectionOK, NEW pos, NEW len, Blocks(pos, len, accesses, executed),
           NEW a \in Deployed(pos)
    PROVE  /\ \E j \in 1 .. Len(accesses) : a = accesses[j]
           /\ a.kind = "Create" /\ a.onNetwork
<1>1. PICK L, N : L = Len(accesses) /\ N = Len(executed)
  OBVIOUS
<1>2. accesses \in Seq(ToSet(accesses)) /\ L \in Nat /\ N \in Nat
  BY <1>1 DEF CollectionOK, IsSeq
<1>3. PICK j \in 1 .. L, t \in 1 .. N : /\ a = accesses[j] /\ accesses[j].kind = "Create"
                                        /\ pos[t] <= j /\ j <= LastNested(pos[t])
  BY <1>1 DEF Deployed
<1>4. PICK k, l : k = pos[t] /\ l = LastNested(k)
  OBVIOUS
<1>5. k \in 1 .. L /\ isRootAccountAccess(accesses[k])
  BY <1>1, <1>2, <1>4 DEF Blocks, Lists, Roots
<1>6. l \in k .. L /\ \A i \in k + 1 .. l : accesses[i].onNetwork
  BY <1>1, <1>2, <1>4, <1>5, LastNestedIs
<1>7. j = k \/ j \in k + 1 .. l
  BY <1>3, <1>4, <1>5, <1>6
<1>8. accesses[j].onNetwork
  BY <1>5, <1>6, <1>7 DEF isRootAccountAccess
<1> QED
  BY <1>1, <1>3, <1>8

(* What a transaction deployed is taken for a transaction's.               *)
LEMMA CreatedIsDeployed ==
    ASSUME CollectionOK, NEW pos, NEW len, Blocks(pos, len, accesses, executed),
           NEW u \in 1 .. Len(executed), NEW c \in executed[u].created
    PROVE  \E a \in Deployed(pos) : c.address = a.account /\ c.init = a.data
<1>1. PICK L, k, n, l : /\ L = Len(accesses) /\ k = pos[u] /\ n = len[u] /\ l = LastNested(k)
  OBVIOUS
<1>2. accesses \in Seq(ToSet(accesses)) /\ L \in Nat
  BY <1>1 DEF CollectionOK, IsSeq
<1>3. k \in 1 .. L /\ n \in Nat /\ Performs(executed[u], accesses, k, n)
  BY <1>1 DEF Blocks
<1>4. l \in k .. L /\ k + n <= l
  BY <1>1, <1>2, <1>3, LastNestedIs, NestedIsCovered
<1>5. PICK j \in k .. k + n :
         /\ accesses[j].kind = "Create"
         /\ c = [address |-> accesses[j].account, init |-> accesses[j].data]
  BY <1>3 DEF Performs
<1>6. j \in 1 .. L /\ k <= j /\ j <= l
  BY <1>2, <1>3, <1>4, <1>5
<1>7. accesses[j] \in Deployed(pos)
  BY <1>1, <1>5, <1>6 DEF Deployed
<1> QED
  BY <1>5, <1>7

(* On the network, an address has one init code.                           *)
LEMMA OneCodeHere ==
    ASSUME CollectionOK, NEW pos, NEW len, Blocks(pos, len, accesses, executed),
           NEW a \in Deployed(pos), NEW b \in Deployed(pos), a.account = b.account
    PROVE  a.data = b.data
<1>1. PICK i \in 1 .. Len(accesses) : a = accesses[i] /\ a.kind = "Create" /\ a.onNetwork
  BY DeployedHere
<1>2. PICK j \in 1 .. Len(accesses) : b = accesses[j] /\ b.kind = "Create" /\ b.onNetwork
  BY DeployedHere
<1>3. OneCode(accesses) /\ a.onNetwork \in BOOLEAN /\ b.onNetwork \in BOOLEAN
  BY <1>1, <1>2 DEF CollectionOK, GoodAccess
<1>4. a.onNetwork = b.onNetwork
  BY <1>1, <1>2, <1>3
<1> QED
  BY <1>1, <1>2, <1>3, <1>4 DEF OneCode

(* The access of transaction t, and what is taken to be nested in it. *)
Acts(x, pos, t, parsed) ==
    ActsFor(x, accesses[pos[t]], SubSeq(accesses, pos[t] + 1, LastNested(pos[t])), parsed)

(* An action shows the name of what it deploys or calls.                   *)
LEMMA NameIsShown ==
    ASSUME CollectionOK, NEW pos, NEW len, Blocks(pos, len, accesses, executed),
           NEW parsed, IsComplete(parsed, pos), NEW t \in 1 .. Len(executed), NEW x,
           Acts(x, pos, t, parsed),
           NEW b \in Deployed(pos), b.account = x.target
    PROVE  x.referenceName = ReferenceName(b.account, TrueName(b.data))
<1>1. PICK L, k, l, root, nested :
         /\ L = Len(accesses) /\ k = pos[t] /\ l = LastNested(k)
         /\ root = accesses[k] /\ nested = SubSeq(accesses, k + 1, l)
  OBVIOUS
<1>2. accesses \in Seq(ToSet(accesses)) /\ L \in Nat /\ k \in 1 .. L
  BY <1>1 DEF CollectionOK, IsSeq, Blocks
<1>3. l \in k .. L
  BY <1>1, <1>2, LastNestedIs
<1>4. ActsFor(x, root, nested, parsed)
  BY <1>1 DEF Acts
<1>5. PICK found : found = ConfigArtifacts(parsed)
  OBVIOUS
<1>6. ASSUME NEW a \in Deployed(pos)
      PROVE  findFullyQualifiedNameForInitCode(a.data, found) = TrueName(a.data)
  BY <1>5, <1>6, ArtifactsSuffice
<1>7. CASE /\ root.kind = "Create" /\ x.target = root.account
           /\ x.referenceName =
                 ReferenceName(root.account, findFullyQualifiedNameForInitCode(root.data, found))
  <2>1. root \in Deployed(pos)
    <3>1. k <= k /\ k <= l
      BY <1>2, <1>3
    <3> QED
      BY <1>1, <1>2, <1>7, <3>1 DEF Deployed
  <2>2. root.data = b.data
    BY <1>7, <2>1, OneCodeHere
  <2>3. findFullyQualifiedNameForInitCode(root.data, found) = TrueName(root.data)
    BY <1>6, <2>1
  <2> QED
    BY <1>7, <2>2, <2>3
<1>8. CASE /\ isCreate2AccountAccess(root, nested)
           /\ x.target = <<"create2", root.data[1], root.data[2]>>
           /\ x.referenceName =
                 ReferenceName(<<"create2", root.data[1], root.data[2]>>,
                    findFullyQualifiedNameForInitCode(root.data[2], found))
  <2>1. PICK j \in 1 .. L : b = accesses[j] /\ b.kind = "Create"
    BY <1>1, DeployedHere
  <2>2. GoodAccess(b, nonce)
    BY <1>1, <2>1 DEF CollectionOK
  <2>3. b.account[1] = "create2" /\ b.account[3] = root.data[2]
    BY <1>8
  <2>4. b.data = root.data[2]
    <3>1. \/ b.account = <<"create2", b.account[2], b.data>>
          \/ b.account = <<"new", b.accessor, b.account[3]>>
      BY <2>1, <2>2 DEF GoodAccess
    <3>2. b.account[3] = b.data \/ b.account[1] = "new"
      BY <3>1
    <3> QED
      BY <2>3, <3>2
  <2>5. findFullyQualifiedNameForInitCode(b.data, found) = TrueName(b.data)
    BY <1>6
  <2> QED
    BY <1>8, <2>4, <2>5
<1>9. CASE /\ x.target = root.account
           /\ x.referenceName =
                 ReferenceName(root.account,
                    findFullyQualifiedNameForAddress(root.account, parsed, found))
  <2>1. PICK address : address = root.account
    OBVIOUS
  <2>2. PICK a \in Deployed(pos) :
           /\ a.account = address
           /\ findFullyQualifiedNameForAddress(address, parsed, found) =
                 findFullyQualifiedNameForInitCode(a.data, found)
    BY <1>9, <2>1, NameOfAddress
  <2>3. a.data = b.data
    BY <1>9, <2>1, <2>2, OneCodeHere
  <2>4. findFullyQualifiedNameForInitCode(a.data, found) = TrueName(a.data)
    BY <1>6
  <2> QED
    BY <1>9, <2>1, <2>2, <2>3, <2>4
<1> QED
  BY <1>4, <1>5, <1>7, <1>8, <1>9 DEF ActsFor

(* The labels of the configuration are true.                               *)
LEMMA LabelsHold ==
    ASSUME CollectionOK, NEW pos, NEW len, NEW parsed, NEW estimates,
           IsMade(pos, len, parsed, estimates)
    PROVE  DeploymentsAreLabeled
<1>1. PICK N : N = Len(executed)
  OBVIOUS
<1>2. N \in Nat /\ DOMAIN executed = 1 .. N
  BY <1>1 DEF CollectionOK, IsSeq
<1>3. Blocks(pos, len, accesses, executed) /\ IsComplete(parsed, pos)
  BY DEF IsMade
<1>4. PICK known : known = UNION {executed[u].created : u \in DOMAIN executed}
  OBVIOUS
<1>5. ASSUME NEW t \in 1 .. N
      PROVE  /\ {c \in ActionOf(t).contracts : c.address \notin Strays} =
                   {[address |-> c.address, name |-> TrueName(c.init)] :
                       c \in {d \in executed[t].created : TrueName(d.init) # Undefined}}
             /\ ActionOf(t).unlabeled \ Strays =
                   {c.address : c \in executed[t].created \
                       {d \in executed[t].created : TrueName(d.init) # Undefined}}
             /\ \A c \in known : c.address = ActionOf(t).target =>
                   ActionOf(t).referenceName = ReferenceName(c.address, TrueName(c.init))
  <2>1. PICK x : x = ActionOf(t)
    OBVIOUS
  <2>2. IsPlaced(t, pos[t], len[t], LastNested(pos[t]), x, parsed, estimates)
    BY <1>1, <2>1, ActionIsPlaced
  <2>3. PICK k, l, made : /\ k = pos[t] /\ l = LastNested(k)
                          /\ made = ToSet(Creates(Labeled(accesses[k], SubSeq(accesses, k + 1, l))))
    OBVIOUS
  <2>4. /\ Labels(x, made, ConfigArtifacts(parsed))
        /\ k \in 1 .. Len(accesses) /\ l \in k .. Len(accesses)
    BY <2>2, <2>3 DEF IsPlaced
  <2>5. accesses \in Seq(ToSet(accesses))
    BY DEF CollectionOK, IsSeq
  <2>6. made = {accesses[j] : j \in {i \in pos[t] .. LastNested(pos[t]) :
                                        accesses[i].kind = "Create"}}
    BY <2>3, <2>4, <2>5, LabeledAre
  <2>7. Labels(x, {accesses[j] : j \in {i \in pos[t] .. LastNested(pos[t]) :
                                           accesses[i].kind = "Create"}},
               ConfigArtifacts(parsed))
    BY <2>4, <2>6
  <2>8. /\ {c \in x.contracts : c.address \notin Strays} =
              {[address |-> c.address, name |-> TrueName(c.init)] :
                  c \in {d \in executed[t].created : TrueName(d.init) # Undefined}}
        /\ x.unlabeled \ Strays =
              {c.address : c \in executed[t].created \
                  {d \in executed[t].created : TrueName(d.init) # Undefined}}
    BY <1>1, <1>3, <2>7, LabelsAre
  <2>9. ASSUME NEW c \in known, c.address = x.target
        PROVE  x.referenceName = ReferenceName(c.address, TrueName(c.init))
    <3>1. PICK u \in 1 .. N : c \in executed[u].created
      BY <1>2, <1>4, <2>9
    <3>2. PICK b \in Deployed(pos) : c.address = b.account /\ c.init = b.data
      BY <1>1, <1>3, <3>1, CreatedIsDeployed
    <3>3. /\ Blocks(pos, len, accesses, executed) /\ IsComplete(parsed, pos)
          /\ t \in 1 .. Len(executed) /\ Acts(x, pos, t, parsed) /\ b.account = x.target
      BY <1>1, <1>3, <2>2, <2>9, <3>2 DEF Acts, IsPlaced
    <3>4. x.referenceName = ReferenceName(b.account, TrueName(b.data))
      BY <3>3, NameIsShown
    <3> QED
      BY <3>2, <3>4
  <2> QED
    BY <2>1, <2>8, <2>9
<1> QED
  BY <1>2, <1>4, <1>5 DEF DeploymentsAreLabeled

(* The record is sound, and the configuration is what comes of it. *)
CollectionInv == CollectionOK /\ networkConfig \in {NotMade, TheConfig}

(* The configuration depends on nothing but what was recorded.             *)
LEMMA ConfigStays ==
    ASSUME network' = network, funds' = funds, accesses' = accesses
    PROVE  TheConfig' = TheConfig
<1>1. ASSUME NEW k PROVE LastNested(k)' = LastNested(k)
  BY DEF LastNested
<1>2. parseAccountAccesses' = parseAccountAccesses
  BY <1>1 DEF parseAccountAccesses
<1>3. CheckFunds' = CheckFunds
  BY DEF CheckFunds
<1>4. PICK parsed : parsed = addBalanceCheckAction(parseAccountAccesses)
  OBVIOUS
<1>5. addBalanceCheckAction(parseAccountAccesses)' = parsed
  BY <1>2, <1>3, <1>4 DEF addBalanceCheckAction
<1>6. estimateMerkleLeafGas(addBalanceCheckAction(parseAccountAccesses))' =
         estimateMerkleLeafGas(parsed)
  BY <1>5 DEF estimateMerkleLeafGas
<1>7. PICK estimates : estimates = estimateMerkleLeafGas(parsed)
  OBVIOUS
<1>8. ASSUME NEW gas PROVE calculateMerkleLeafGas(gas)' = calculateMerkleLeafGas(gas)
  BY DEF calculateMerkleLeafGas
<1>9. ASSUME NEW i PROVE ActionInput(i, parsed, estimates)' = ActionInput(i, parsed, estimates)
  BY <1>8 DEF ActionInput
<1>10. makeNetworkConfig(parsed, estimates)' = makeNetworkConfig(parsed, estimates)
  BY <1>9 DEF makeNetworkConfig
<1> QED
  BY <1>4, <1>5, <1>6, <1>7, <1>10 DEF TheConfig

(* Every step keeps it.                                                    *)
LEMMA CollectionInvNext ==
    ASSUME CollectionInv, [CollectionNext]_collectionVars
    PROVE  CollectionInv'
<1>1. CollectionOK'
  BY CollectionNextOK DEF CollectionInv
<1>2. CASE UNCHANGED collectionVars
  <2>1. TheConfig' = TheConfig
    BY <1>2, ConfigStays DEF collectionVars
  <2>2. NotMade' = NotMade
    BY DEF NotMade
  <2> QED
    BY <1>1, <1>2, <2>1, <2>2 DEF CollectionInv, collectionVars
<1>3. CASE Finalize
  <2>1. TheConfig' = TheConfig
    BY <1>3, ConfigStays DEF Finalize
  <2>2. networkConfig' = TheConfig
    BY <1>3 DEF Finalize, TheConfig
  <2> QED
    BY <1>1, <2>1, <2>2 DEF CollectionInv
<1>4. CASE CollectionNext /\ ~Finalize
  <2>1. networkConfig = NotMade /\ networkConfig' = networkConfig
    <3>1. ASSUME NEW type, NEW root, NEW nested, Record(type, root, nested)
          PROVE  networkConfig = NotMade /\ networkConfig' = networkConfig
      BY <3>1 DEF Record
    <3>2. ASSUME NEW init \in InitCode, NEW inner \in Inner, NEW gas \in GasUsed,
                 \/ Deploy(init, inner, gas)
                 \/ \E to \in {c \in Callees : c \notin {Utils, Proxy}} : Call(to, inner, gas)
          PROVE  networkConfig = NotMade /\ networkConfig' = networkConfig
      BY <3>1, <3>2 DEF Deploy, Call
    <3>3. ASSUME NEW salt \in Salts, NEW init \in InitCode, NEW gas \in GasUsed,
                 DeployCreate2(salt, init, gas)
          PROVE  networkConfig = NotMade /\ networkConfig' = networkConfig
      BY <3>1, <3>3 DEF DeployCreate2
    <3>4. CASE ByTheWay
      BY <3>4 DEF ByTheWay
    <3>5. CASE SelectFork
      BY <3>5 DEF SelectFork
    <3> QED
      BY <1>4, <3>2, <3>3, <3>4, <3>5 DEF CollectionNext
  <2> QED
    BY <1>1, <2>1 DEF CollectionInv, NotMade
<1> QED
  BY <1>2, <1>3, <1>4

(* The record and what is made of it are sound in every reachable state.   *)
LEMMA CollectionInvariance == CollectionSpec => []CollectionInv
<1>1. CollectionInit => CollectionInv
  BY CollectionInitOK DEF CollectionInv, CollectionInit
<1>2. CollectionInv /\ [CollectionNext]_collectionVars => CollectionInv'
  BY CollectionInvNext
<1> QED
  BY <1>1, <1>2, PTL DEF CollectionSpec

(* A configuration that is made is made of what was parsed.                *)
LEMMA MadeOrNot ==
    ASSUME CollectionInv, Collected
    PROVE  \E pos, len, parsed, estimates : IsMade(pos, len, parsed, estimates)
<1>1. networkConfig = TheConfig
  BY DEF CollectionInv, Collected, NotMade
<1> QED
  BY <1>1, MadeIs DEF CollectionInv

(* Whatever the script does, the preview finds the check of the Safe's     *)
(* funds where it expects it, and shows all that will be executed.         *)
THEOREM PreviewShowsTheCheck == CollectionSpec => []PreviewIsTrue
<1>1. CollectionInv => PreviewIsTrue
  BY MadeOrNot, PreviewHolds DEF CollectionInv, PreviewIsTrue
<1> QED
  BY <1>1, CollectionInvariance, PTL

(* Whatever the script does in between, on this network or another, each   *)
(* transaction of the Safe and nothing else becomes an action, in order,   *)
(* with enough gas.                                                        *)
THEOREM ActionsPerformTheTransactions == CollectionSpec => []ActionsAreTheTransactions
<1>1. CollectionInv /\ Collected => ActionsAreTheTransactions
  BY MadeOrNot, ActionsHold DEF CollectionInv
<1>2. CollectionInv => ActionsAreTheTransactions
  BY <1>1 DEF ActionsAreTheTransactions
<1> QED
  BY <1>2, CollectionInvariance, PTL

(* The contracts that are put down to an action by name or by address are  *)
(* those that its transaction deployed, directly or through others, but    *)
(* for those that a pranked account deployed right after it.               *)
THEOREM LabelsAreTrue == CollectionSpec => []DeploymentsAreLabeled
<1>1. CollectionInv /\ Collected => DeploymentsAreLabeled
  BY MadeOrNot, LabelsHold DEF CollectionInv
<1>2. CollectionInv => DeploymentsAreLabeled
  BY <1>1 DEF DeploymentsAreLabeled
<1> QED
  BY <1>2, CollectionInvariance, PTL

-----------------------------------------------------------------------------
(* The loop of makeSphinxLeaves *)

NetworkData == UNION {Data(c) : c \in Chains}

IsDeployment(data) == data.type = "deployment"
IsCancellation(data) == data.type = "cancellation"

(* What an entry contributes. *)
Size(data) == IF IsDeployment(data) THEN Len(data.txs) + 1 ELSE 1

LeafOf(data, k) ==
    IF IsDeployment(data)
    THEN IF k = 1 THEN ApproveLeaf(data) ELSE ExecuteLeaf(data, k - 1)
    ELSE CancelLeaf(data)

ChainOf(data) == IF IsArbitrary(data) THEN 0 ELSE data.chainId

(* What the loop knows of an entry.                                        *)
LEMMA NetworkDataKinds ==
    ASSUME NEW data \in NetworkData
    PROVE  /\ IsArbitrary(data) \in BOOLEAN
           /\ data.type \in {"deployment", "cancellation", "none", "both"}
           /\ data.type \notin {"deployment", "cancellation"} =>
                 (isNetworkDeploymentData(data) <=> isNetworkCancellationData(data))
           /\ IsDeployment(data) =>
                 /\ isNetworkDeploymentData(data) /\ ~isNetworkCancellationData(data)
                 /\ data.txs \in Seq(BOOLEAN) /\ data.arbitraryChain \in BOOLEAN
                 /\ IsArbitrary(data) = data.arbitraryChain
           /\ IsCancellation(data) =>
                 ~isNetworkDeploymentData(data) /\ isNetworkCancellationData(data)
           /\ ~IsDeployment(data) => ~IsArbitrary(data)
<1>1. PICK c \in Chains : data \in Data(c)
  BY DEF NetworkData
<1>2. CASE data.type = "deployment"
  <2>1. data \in [type : {"deployment"}, chainId : {c}, safeProxy : {"safe"},
                  moduleProxy : {"module"}, nonce : {0}, executor : {"executor"},
                  arbitraryChain : BOOLEAN,
                  txs : UNION {[1 .. n -> BOOLEAN] : n \in 0 .. MaxTxs}]
    BY <1>1, <1>2 DEF Data
  <2>2. /\ DOMAIN data = {"type", "chainId", "safeProxy", "moduleProxy", "nonce", "executor",
                          "arbitraryChain", "txs"}
        /\ data.arbitraryChain \in BOOLEAN
        /\ data.txs \in UNION {[1 .. n -> BOOLEAN] : n \in 0 .. MaxTxs}
    BY <2>1
  <2>3. PICK n \in 0 .. MaxTxs : data.txs \in [1 .. n -> BOOLEAN]
    BY <2>2
  <2>4. n \in Nat
    BY MerkleTreeLoopAssumption
  <2>5. data.txs \in Seq(BOOLEAN)
    BY <2>3, <2>4
  <2> QED
    BY <1>2, <2>2, <2>5 DEF IsDeployment, IsCancellation, IsArbitrary,
       isNetworkDeploymentData, isNetworkCancellationData
<1>3. CASE data.type = "cancellation"
  <2>1. data \in [type : {"cancellation"}, chainId : {c}, safeProxy : {"safe"},
                  moduleProxy : {"module"}, nonce : {0}, executor : {"executor"},
                  merkleRootToCancel : {"root"}]
    BY <1>1, <1>3 DEF Data
  <2>2. DOMAIN data = {"type", "chainId", "safeProxy", "moduleProxy", "nonce", "executor",
                       "merkleRootToCancel"}
    BY <2>1
  <2> QED
    BY <1>3, <2>2 DEF IsDeployment, IsCancellation, IsArbitrary,
       isNetworkDeploymentData, isNetworkCancellationData
<1>4. CASE data.type \notin {"deployment", "cancellation"}
  <2>1. \/ data = [type |-> "none", chainId |-> c]
        \/ data = [type |-> "both", chainId |-> c, arbitraryChain |-> FALSE,
                   txs |-> <<>>, merkleRootToCancel |-> "root"]
    BY <1>1, <1>4 DEF Data
  <2> QED
    BY <1>4, <2>1 DEF IsDeployment, IsCancellation, IsArbitrary,
       isNetworkDeploymentData, isNetworkCancellationData
<1> QED
  BY <1>2, <1>3, <1>4

(* What a leaf shows.                                                      *)
LEMMA LeafFields ==
    ASSUME NEW data \in NetworkData, IsDeployment(data) \/ IsCancellation(data), NEW k \in Nat \ {0}
    PROVE  /\ LeafOf(data, k).chainId = ChainOf(data)
           /\ IsDeployment(data) =>
                 /\ LeafOf(data, k).index = k - 1
                 /\ LeafOf(data, k).leafType = (IF k = 1 THEN "APPROVE" ELSE "EXECUTE")
                 /\ k = 1 => /\ LeafOf(data, k).numLeaves = Len(data.txs) + 1
                             /\ LeafOf(data, k).arbitraryChain = data.arbitraryChain
                 /\ k # 1 => LeafOf(data, k).requireSuccess = data.txs[k - 1]
           /\ IsCancellation(data) =>
                 LeafOf(data, k).index = 0 /\ LeafOf(data, k).leafType = "CANCEL"
<1>1. data.type = "deployment" => data.type # "cancellation"
  OBVIOUS
<1>2. IsDeployment(data) => IsArbitrary(data) = data.arbitraryChain
  BY NetworkDataKinds
<1>3. IsCancellation(data) => ~IsArbitrary(data)
  BY <1>1, NetworkDataKinds DEF IsDeployment, IsCancellation
<1> QED
  BY <1>1, <1>2, <1>3 DEF LeafOf, ChainOf, ApproveLeaf, ExecuteLeaf, CancelLeaf,
     IsDeployment, IsCancellation

(* The first n entries have their leaves one after the other: entry i      *)
(* those after place start[i], and src tells whose leaf is at a place.     *)
Layout(start, src, leaves, n) ==
    /\ start \in [1 .. n -> Nat] /\ src \in [1 .. Len(leaves) -> 1 .. n]
    /\ \A p \in 1 .. Len(leaves) :
          /\ p - start[src[p]] \in 1 .. Size(entries[src[p]])
          /\ leaves[p] = LeafOf(entries[src[p]], p - start[src[p]])
    /\ \A i \in 1 .. n : \A k \in 1 .. Size(entries[i]) :
          start[i] + k \in 1 .. Len(leaves) /\ src[start[i] + k] = i

Leaves == {LeafOf(data, k) : data \in NetworkData, k \in Nat}

AccFields ==
    {"leaves", "approvalIncluded", "arbitraryApprovalIncluded", "cancellationLeafIncluded", "thrown"}

Seen == 1 .. next - 1

(* As long as nothing is thrown.                                           *)
Collecting ==
    /\ \A i \in Seen : IsDeployment(entries[i]) \/ IsCancellation(entries[i])
    /\ acc.approvalIncluded = \E i \in Seen : IsDeployment(entries[i])
    /\ acc.arbitraryApprovalIncluded = \E i \in Seen : IsArbitrary(entries[i])
    /\ acc.cancellationLeafIncluded = \E i \in Seen : IsCancellation(entries[i])
    /\ acc.arbitraryApprovalIncluded => next = 2
    /\ \E start, src : Layout(start, src, acc.leaves, next - 1)

(* Why it is thrown.                                                       *)
Conflicting ==
    \/ \E i \in Seen : entries[i].type \in {"none", "both"}
    \/ \E i, j \in Seen : i # j /\ IsArbitrary(entries[i])

LoopOK ==
    /\ entries \in Seq(NetworkData)
    /\ \A i, j \in 1 .. Len(entries) : i # j => entries[i].chainId # entries[j].chainId
    /\ next \in 1 .. Len(entries) + 1
    /\ acc = [x \in AccFields |-> acc[x]]
    /\ acc.leaves \in Seq(Leaves)
    /\ acc.thrown \in BOOLEAN
    /\ ~acc.thrown => Collecting
    /\ acc.thrown => Conflicting

(* No leaf is there before the first iteration.                            *)
LEMMA LoopInitOK == LoopInit => LoopOK
<1>1. SUFFICES ASSUME LoopInit PROVE LoopOK
  OBVIOUS
<1>2. PICK n \in 0 .. MaxNetworks : entries \in [1 .. n -> NetworkData]
  BY <1>1 DEF LoopInit, Inputs, NetworkData
<1>3. n \in Nat
  BY MerkleTreeLoopAssumption
<1>4. entries \in Seq(NetworkData) /\ DOMAIN entries = 1 .. Len(entries) /\ Len(entries) \in Nat
  BY <1>2, <1>3
<1>5. \A i, j \in 1 .. Len(entries) : i # j => entries[i].chainId # entries[j].chainId
  BY <1>1, <1>4 DEF LoopInit, Inputs
<1>6. /\ acc = [x \in AccFields |-> acc[x]] /\ acc.leaves = <<>> /\ acc.thrown = FALSE
      /\ acc.approvalIncluded = FALSE /\ acc.arbitraryApprovalIncluded = FALSE
      /\ acc.cancellationLeafIncluded = FALSE
  BY <1>1 DEF LoopInit, NoLeaves, AccFields
<1>7. next = 1 /\ next \in 1 .. Len(entries) + 1 /\ Seen = {}
  BY <1>1, <1>4 DEF LoopInit, Seen
<1>8. <<>> \in Seq(Leaves)
  OBVIOUS
<1>9. \E start, src : Layout(start, src, acc.leaves, next - 1)
  <2> DEFINE none == [i \in 1 .. 0 |-> 0]
  <2>1. Layout(none, none, <<>>, 0)
    BY DEF Layout
  <2>2. next - 1 = 0
    BY <1>7
  <2> HIDE DEF none
  <2>3. \E start, src : Layout(start, src, <<>>, 0)
    BY <2>1
  <2> QED
    BY <1>6, <2>2, <2>3
<1>10. Collecting
  BY <1>6, <1>7, <1>9 DEF Collecting
<1> QED
  BY <1>4, <1>5, <1>6, <1>7, <1>8, <1>10 DEF LoopOK

(* The leaves of one more entry.                                           *)
LEMMA LayoutExtends ==
    ASSUME NEW n \in Nat, NEW leaves \in Seq(Leaves), NEW more \in Seq(Leaves),
           Len(more) = Size(entries[n + 1]),
           \A k \in 1 .. Len(more) : more[k] = LeafOf(entries[n + 1], k),
           NEW start, NEW src, Layout(start, src, leaves, n)
    PROVE  \E s, r : Layout(s, r, leaves \o more, n + 1)
<1> DEFINE all == leaves \o more
           L == Len(leaves)
           s == [i \in 1 .. n + 1 |-> IF i = n + 1 THEN L ELSE start[i]]
           r == [p \in 1 .. L + Len(more) |-> IF p <= L THEN src[p] ELSE n + 1]
<1>1. /\ L \in Nat /\ Len(more) \in Nat /\ Len(all) = L + Len(more)
      /\ \A p \in 1 .. L : all[p] = leaves[p]
      /\ \A k \in 1 .. Len(more) : all[L + k] = more[k]
  OBVIOUS
<1>2. /\ start \in [1 .. n -> Nat] /\ src \in [1 .. L -> 1 .. n]
      /\ \A p \in 1 .. L :
          /\ p - start[src[p]] \in 1 .. Size(entries[src[p]])
          /\ leaves[p] = LeafOf(entries[src[p]], p - start[src[p]])
      /\ \A i \in 1 .. n : \A k \in 1 .. Size(entries[i]) :
          start[i] + k \in 1 .. L /\ src[start[i] + k] = i
  BY DEF Layout
<1> HIDE DEF all, L
<1>3. s \in [1 .. n + 1 -> Nat] /\ s[n + 1] = L /\ \A i \in 1 .. n : s[i] = start[i]
  <2>1. \A i \in 1 .. n : i # n + 1 /\ i \in 1 .. n + 1 /\ start[i] \in Nat
    BY <1>2
  <2>2. \A i \in 1 .. n + 1 : i = n + 1 \/ i \in 1 .. n
    OBVIOUS
  <2>3. \A i \in 1 .. n + 1 : (IF i = n + 1 THEN L ELSE start[i]) \in Nat
    BY <1>1, <2>1, <2>2
  <2>4. n + 1 \in 1 .. n + 1
    OBVIOUS
  <2> QED
    BY <2>1, <2>3, <2>4
<1>4. /\ r \in [1 .. L + Len(more) -> 1 .. n + 1] /\ \A p \in 1 .. L : r[p] = src[p]
      /\ \A k \in 1 .. Len(more) : r[L + k] = n + 1
  <2>1. \A p \in 1 .. L : src[p] \in 1 .. n + 1 /\ p <= L /\ p \in 1 .. L + Len(more)
    <3>1. \A p \in 1 .. L : src[p] \in 1 .. n
      BY <1>2
    <3>2. \A i \in 1 .. n : i \in 1 .. n + 1
      OBVIOUS
    <3>3. \A p \in 1 .. L : p <= L /\ p \in 1 .. L + Len(more)
      BY <1>1
    <3> QED
      BY <3>1, <3>2, <3>3
  <2>2. \A p \in 1 .. L + Len(more) : p <= L => p \in 1 .. L
    BY <1>1
  <2>3. \A k \in 1 .. Len(more) : ~(L + k <= L) /\ L + k \in 1 .. L + Len(more)
    BY <1>1
  <2>4. n + 1 \in 1 .. n + 1
    OBVIOUS
  <2>5. \A p \in 1 .. L + Len(more) : (IF p <= L THEN src[p] ELSE n + 1) \in 1 .. n + 1
    BY <2>1, <2>2, <2>4
  <2>6. r \in [1 .. L + Len(more) -> 1 .. n + 1]
    BY <2>5
  <2> QED
    BY <2>1, <2>3, <2>6
<1> HIDE DEF s, r
<1>5. ASSUME NEW p \in 1 .. Len(all)
      PROVE  /\ p - s[r[p]] \in 1 .. Size(entries[r[p]])
             /\ all[p] = LeafOf(entries[r[p]], p - s[r[p]])
  <2>1. CASE p \in 1 .. L
    <3>1. r[p] = src[p] /\ s[r[p]] = start[src[p]]
      BY <1>2, <1>3, <1>4, <2>1
    <3> QED
      BY <1>1, <1>2, <2>1, <3>1
  <2>2. CASE p \notin 1 .. L
    <3>1. PICK k \in 1 .. Len(more) : p = L + k
      <4>1. p - L \in 1 .. Len(more) /\ p = L + (p - L)
        BY <1>1, <2>2
      <4> QED
        BY <4>1
    <3>2. r[p] = n + 1 /\ s[r[p]] = L
      BY <1>3, <1>4, <3>1
    <3>3. p - L = k
      BY <1>1, <3>1
    <3>4. all[p] = LeafOf(entries[n + 1], k)
      BY <1>1, <3>1
    <3> QED
      BY <3>1, <3>2, <3>3, <3>4
  <2> QED
    BY <2>1, <2>2
<1>6. ASSUME NEW i \in 1 .. n + 1, NEW k \in 1 .. Size(entries[i])
      PROVE  s[i] + k \in 1 .. Len(all) /\ r[s[i] + k] = i
  <2>1. CASE i = n + 1
    <3>1. k \in 1 .. Len(more) /\ s[i] = L
      BY <1>3, <2>1
    <3>2. L + k \in 1 .. L + Len(more)
      BY <1>1, <3>1
    <3> QED
      BY <1>1, <1>4, <2>1, <3>1, <3>2
  <2>2. CASE i # n + 1
    <3>1. i \in 1 .. n
      BY <2>2
    <3>2. s[i] = start[i] /\ start[i] + k \in 1 .. L /\ src[start[i] + k] = i
      BY <1>2, <1>3, <3>1
    <3>3. \A p \in 1 .. L : p \in 1 .. L + Len(more)
      BY <1>1
    <3> QED
      BY <1>1, <1>4, <3>2, <3>3
  <2> QED
    BY <2>1, <2>2
<1>7. Layout(s, r, all, n + 1)
  <2>1. r \in [1 .. Len(all) -> 1 .. n + 1]
    BY <1>1, <1>4
  <2> QED
    BY <1>3, <1>5, <1>6, <2>1 DEF Layout
<1> QED
  BY <1>7 DEF all

(* A sequence behind one element.                                          *)
LEMMA ConsElements ==
    ASSUME NEW T, NEW h \in Seq(T), NEW t \in Seq(T), Len(h) = 1
    PROVE  /\ h \o t \in Seq(T) /\ Len(h \o t) = Len(t) + 1
           /\ \A k \in 1 .. Len(t) + 1 : (h \o t)[k] = IF k = 1 THEN h[1] ELSE t[k - 1]
<1>1. /\ h \o t \in Seq(T) /\ Len(h \o t) = Len(t) + 1 /\ Len(t) \in Nat
      /\ \A k \in 1 .. Len(t) + 1 : (h \o t)[k] = IF k <= 1 THEN h[k] ELSE t[k - 1]
  <2>1. /\ h \o t \in Seq(T) /\ Len(h \o t) = Len(h) + Len(t)
        /\ \A k \in 1 .. Len(h) + Len(t) : (h \o t)[k] = IF k <= Len(h) THEN h[k] ELSE t[k - Len(h)]
    BY ConcatProperties
  <2>2. Len(t) \in Nat
    OBVIOUS
  <2>3. 1 + Len(t) = Len(t) + 1
    BY <2>2
  <2> QED
    BY <2>1, <2>2, <2>3, Zenon
<1>2. (h \o t)[1] = h[1]
  BY <1>1
<1>3. ASSUME NEW k \in 1 .. Len(t) + 1, k # 1 PROVE (h \o t)[k] = t[k - 1]
  BY <1>1, <1>3
<1> QED
  BY <1>1, <1>2, <1>3

(* The leaves that a deployment adds.                                      *)
LEMMA DeploymentLeaves ==
    ASSUME NEW leaves \in Seq(Leaves), NEW data \in NetworkData, IsDeployment(data)
    PROVE  \E more \in Seq(Leaves) :
              /\ Len(more) = Size(data)
              /\ \A k \in 1 .. Len(more) : more[k] = LeafOf(data, k)
              /\ leaves \o <<ApproveLeaf(data)>> \o
                    [i \in 1 .. Len(data.txs) |-> ExecuteLeaf(data, i)] = leaves \o more
<1> DEFINE n == Len(data.txs)
           rest == [i \in 1 .. n |-> ExecuteLeaf(data, i)]
<1>1. n \in Nat
  BY NetworkDataKinds
<1>2. ApproveLeaf(data) \in Leaves /\ ApproveLeaf(data) = LeafOf(data, 1)
  <2>1. ApproveLeaf(data) = LeafOf(data, 1)
    BY DEF LeafOf
  <2> QED
    BY <2>1 DEF Leaves
<1>3. ASSUME NEW i \in 1 .. n
      PROVE  ExecuteLeaf(data, i) \in Leaves /\ ExecuteLeaf(data, i) = LeafOf(data, i + 1)
  <2>1. i + 1 \in Nat /\ i + 1 # 1 /\ i + 1 - 1 = i
    BY <1>1
  <2>2. ExecuteLeaf(data, i) = LeafOf(data, i + 1)
    BY <2>1 DEF LeafOf
  <2> QED
    BY <2>1, <2>2 DEF Leaves
<1>4. rest \in Seq(Leaves) /\ Len(rest) = n /\ \A i \in 1 .. n : rest[i] = LeafOf(data, i + 1)
  BY <1>1, <1>3
<1> HIDE DEF rest
<1>5. PICK head : head = <<ApproveLeaf(data)>>
  OBVIOUS
<1>6. head \in Seq(Leaves) /\ Len(head) = 1 /\ head[1] = LeafOf(data, 1)
  BY <1>2, <1>5
<1>7. leaves \o head \o rest = leaves \o (head \o rest)
  BY SMTT(20), <1>4, <1>6, ConcatAssociative
<1>8. /\ head \o rest \in Seq(Leaves) /\ Len(head \o rest) = n + 1
      /\ \A k \in 1 .. n + 1 : (head \o rest)[k] = IF k = 1 THEN head[1] ELSE rest[k - 1]
  <2>1. PICK tail : tail = rest
    OBVIOUS
  <2>2. tail \in Seq(Leaves) /\ Len(tail) = n
    BY <1>4, <2>1
  <2> QED
    BY <1>6, <2>1, <2>2, ConsElements
<1>9. ASSUME NEW k \in 1 .. n + 1 PROVE (head \o rest)[k] = LeafOf(data, k)
  <2>1. CASE k = 1
    BY <1>6, <1>8, <2>1
  <2>2. CASE k # 1
    <3>1. k - 1 \in 1 .. n /\ k - 1 + 1 = k
      BY <1>1, <2>2
    <3>2. rest[k - 1] = LeafOf(data, k)
      BY <1>4, <3>1
    <3> QED
      BY <1>8, <2>2, <3>2
  <2> QED
    BY <2>1, <2>2
<1>10. Size(data) = n + 1
  BY DEF Size
<1> QED
  BY <1>5, <1>7, <1>8, <1>9, <1>10 DEF rest

(* What the flags allow.                                                   *)
LEMMA FlagsTell ==
    ASSUME Collecting, LoopOK, next <= Len(entries)
    PROVE  /\ entries[next] \in NetworkData /\ next \in Nat /\ next \in 1 .. Len(entries)
           /\ IsArbitrary(entries[next]) \in BOOLEAN
           /\ acc.approvalIncluded \in BOOLEAN /\ acc.arbitraryApprovalIncluded \in BOOLEAN
           /\ acc.cancellationLeafIncluded \in BOOLEAN
           /\ acc.arbitraryApprovalIncluded <=> \E i \in Seen : IsArbitrary(entries[i])
           /\ (acc.approvalIncluded \/ acc.cancellationLeafIncluded) <=> Seen # {}
<1>1. Len(entries) \in Nat /\ next \in Nat /\ next \in 1 .. Len(entries)
  BY DEF LoopOK
<1>2. entries[next] \in NetworkData
  BY <1>1 DEF LoopOK
<1>3. IsArbitrary(entries[next]) \in BOOLEAN
  BY <1>2, NetworkDataKinds
<1>4. /\ acc.approvalIncluded = \E i \in Seen : IsDeployment(entries[i])
      /\ acc.arbitraryApprovalIncluded = \E i \in Seen : IsArbitrary(entries[i])
      /\ acc.cancellationLeafIncluded = \E i \in Seen : IsCancellation(entries[i])
      /\ \A i \in Seen : IsDeployment(entries[i]) \/ IsCancellation(entries[i])
  BY DEF Collecting
<1>5. (acc.approvalIncluded \/ acc.cancellationLeafIncluded) <=> Seen # {}
  BY <1>4, Zenon
<1>6. /\ acc.approvalIncluded \in BOOLEAN /\ acc.arbitraryApprovalIncluded \in BOOLEAN
      /\ acc.cancellationLeafIncluded \in BOOLEAN
  BY <1>4, Zenon
<1>7. acc.arbitraryApprovalIncluded <=> \E i \in Seen : IsArbitrary(entries[i])
  BY <1>4, Zenon
<1> QED
  BY <1>1, <1>2, <1>3, <1>5, <1>6, <1>7

(* An entry that is refused, for a reason.                                 *)
LEMMA ThrowOK ==
    ASSUME LoopOK, LoopNext, acc' = Throw(acc), Conflicting'
    PROVE  LoopOK'
<1>1. acc' = [x \in AccFields |-> acc'[x]] /\ acc'.leaves = acc.leaves /\ acc'.thrown = TRUE
  <2>1. PICK a : a = acc
    OBVIOUS
  <2>2. a = [x \in AccFields |-> a[x]]
    BY <2>1 DEF LoopOK
  <2> QED
    BY <2>1, <2>2 DEF Throw, AccFields
<1>2. next' \in 1 .. Len(entries) + 1 /\ entries' = entries
  BY DEF LoopOK, LoopNext
<1> QED
  BY <1>1, <1>2 DEF LoopOK

(* An entry that is accepted.                                              *)
LEMMA AcceptedOK ==
    ASSUME LoopOK, LoopNext, NEW data, data = entries[next],
           IsDeployment(data) \/ IsCancellation(data),
           NEW more \in Seq(Leaves), Len(more) = Size(data),
           \A k \in 1 .. Len(more) : more[k] = LeafOf(data, k),
           acc' = [acc EXCEPT !.leaves = acc.leaves \o more,
                     !.approvalIncluded = acc.approvalIncluded \/ IsDeployment(data),
                     !.arbitraryApprovalIncluded = acc.arbitraryApprovalIncluded \/ IsArbitrary(data),
                     !.cancellationLeafIncluded = acc.cancellationLeafIncluded \/ IsCancellation(data)],
           ~acc.arbitraryApprovalIncluded, IsArbitrary(data) => Seen = {}
    PROVE  LoopOK'
<1>1. /\ acc.leaves \in Seq(Leaves) /\ next \in Nat \ {0} /\ next \in 1 .. Len(entries)
      /\ Len(entries) \in Nat /\ ~acc.thrown /\ Collecting
      /\ next' = next + 1 /\ entries' = entries
  BY DEF LoopOK, LoopNext
<1>2. acc.leaves \o more \in Seq(Leaves)
  BY <1>1
<1>3. PICK l, ap, ar, ca : /\ l = acc.leaves \o more
                           /\ ap = (acc.approvalIncluded \/ IsDeployment(data))
                           /\ ar = (acc.arbitraryApprovalIncluded \/ IsArbitrary(data))
                           /\ ca = (acc.cancellationLeafIncluded \/ IsCancellation(data))
  OBVIOUS
<1>4. /\ acc' = [x \in AccFields |-> acc'[x]] /\ acc'.leaves = l /\ acc'.thrown = acc.thrown
      /\ acc'.approvalIncluded = ap /\ acc'.arbitraryApprovalIncluded = ar
      /\ acc'.cancellationLeafIncluded = ca
  <2>1. PICK a : a = acc
    OBVIOUS
  <2>2. a = [x \in AccFields |-> a[x]]
    BY <2>1 DEF LoopOK
  <2>3. acc' = [a EXCEPT !.leaves = l, !.approvalIncluded = ap,
                         !.arbitraryApprovalIncluded = ar, !.cancellationLeafIncluded = ca]
    BY <1>3, <2>1
  <2> QED
    BY <2>1, <2>2, <2>3 DEF AccFields
<1>5. Seen' = Seen \cup {next}
  <2>1. Seen' = 1 .. next + 1 - 1
    BY <1>1 DEF Seen
  <2> QED
    BY <1>1, <2>1 DEF Seen
<1>6. /\ \A i \in Seen : IsDeployment(entries[i]) \/ IsCancellation(entries[i])
      /\ acc.approvalIncluded = \E i \in Seen : IsDeployment(entries[i])
      /\ acc.arbitraryApprovalIncluded = \E i \in Seen : IsArbitrary(entries[i])
      /\ acc.cancellationLeafIncluded = \E i \in Seen : IsCancellation(entries[i])
  BY <1>1 DEF Collecting
<1>7. /\ ap = \E i \in Seen' : IsDeployment(entries[i])
      /\ ar = \E i \in Seen' : IsArbitrary(entries[i])
      /\ ca = \E i \in Seen' : IsCancellation(entries[i])
      /\ \A i \in Seen' : IsDeployment(entries[i]) \/ IsCancellation(entries[i])
  <2>1. ap = \E i \in Seen' : IsDeployment(entries[i])
    BY <1>3, <1>5, <1>6, Zenon
  <2>2. ar = \E i \in Seen' : IsArbitrary(entries[i])
    BY <1>3, <1>5, <1>6, Zenon
  <2>3. ca = \E i \in Seen' : IsCancellation(entries[i])
    BY <1>3, <1>5, <1>6, Zenon
  <2> QED
    BY <1>5, <1>6, <2>1, <2>2, <2>3
<1>8. ar => next' = 2
  <2>1. ar => Seen = {}
    BY <1>3
  <2>2. Seen = {} => next = 1
    <3>1. next # 1 => 1 \in Seen
      BY <1>1 DEF Seen
    <3> QED
      BY <3>1
  <2> QED
    BY <1>1, <2>1, <2>2
<1>9. \E s, r : Layout(s, r, l, next)
  <2>1. PICK start, src : Layout(start, src, acc.leaves, next - 1)
    BY <1>1 DEF Collecting
  <2>2. PICK n : n = next - 1
    OBVIOUS
  <2>3. n \in Nat /\ n + 1 = next
    BY <1>1, <2>2
  <2>4. /\ Len(more) = Size(entries[n + 1])
        /\ \A k \in 1 .. Len(more) : more[k] = LeafOf(entries[n + 1], k)
    BY <2>3
  <2>5. Layout(start, src, acc.leaves, n)
    BY <2>1, <2>2
  <2>6. \E s, r : Layout(s, r, acc.leaves \o more, n + 1)
    BY <1>1, <2>3, <2>4, <2>5, LayoutExtends
  <2> QED
    BY <1>3, <2>3, <2>6
<1>10. Collecting'
  <2>1. \E s, r : Layout(s, r, acc.leaves, next - 1)'
    <3>1. next' - 1 = next
      BY <1>1
    <3>2. PICK s, r : Layout(s, r, l, next)
      BY <1>9
    <3>3. Layout(s, r, acc'.leaves, next' - 1)
      BY <1>4, <3>1, <3>2
    <3>4. Layout(s, r, acc.leaves, next - 1)'
      BY <1>1, <3>3 DEF Layout
    <3> QED
      BY <3>4
  <2>2. /\ acc'.approvalIncluded = \E i \in Seen' : IsDeployment(entries'[i])
        /\ acc'.arbitraryApprovalIncluded = \E i \in Seen' : IsArbitrary(entries'[i])
        /\ acc'.cancellationLeafIncluded = \E i \in Seen' : IsCancellation(entries'[i])
        /\ \A i \in Seen' : IsDeployment(entries'[i]) \/ IsCancellation(entries'[i])
    BY <1>1, <1>4, <1>7, Zenon
  <2>3. acc'.arbitraryApprovalIncluded => next' = 2
    BY <1>4, <1>8
  <2> QED
    BY <2>1, <2>2, <2>3, Zenon DEF Collecting
<1>11. /\ next' \in 1 .. Len(entries) + 1 /\ acc'.leaves \in Seq(Leaves) /\ ~acc'.thrown
       /\ acc'.thrown \in BOOLEAN
  <2>1. acc.thrown \in BOOLEAN
    BY DEF LoopOK
  <2> QED
    BY <1>1, <1>2, <1>3, <1>4, <2>1
<1> QED
  BY <1>1, <1>4, <1>10, <1>11 DEF LoopOK

(* An iteration adds the leaves of its entry behind the others.            *)
LEMMA LoopNextOK == ASSUME LoopOK, [LoopNext]_loopVars PROVE LoopOK'
<1>1. CASE UNCHANGED loopVars
  <2>1. acc' = acc /\ entries' = entries /\ next' = next
    BY <1>1 DEF loopVars
  <2>2. Seen' = Seen
    BY <2>1 DEF Seen
  <2>3. Conflicting => Conflicting'
    BY <2>1, <2>2, Zenon DEF Conflicting
  <2>4. Collecting => Collecting'
    <3>1. ASSUME Collecting PROVE \E s, r : Layout(s, r, acc.leaves, next - 1)'
      <4>1. PICK s, r : Layout(s, r, acc.leaves, next - 1)
        BY <3>1 DEF Collecting
      <4>2. Layout(s, r, acc.leaves, next - 1)'
        BY <2>1, <4>1, Zenon DEF Layout
      <4> QED
        BY <4>2
    <3> QED
      BY <2>1, <2>2, <3>1, Zenon DEF Collecting
  <2> QED
    BY <2>1, <2>3, <2>4, Zenon DEF LoopOK
<1>2. CASE LoopNext
  <2>1. PICK data : data = entries[next]
    OBVIOUS
  <2>2. /\ next \in 1 .. Len(entries) /\ ~acc.thrown /\ Collecting /\ next <= Len(entries)
        /\ acc' = Include(acc, data) /\ next' = next + 1 /\ entries' = entries
        /\ next \in Nat \ {0} /\ acc.leaves \in Seq(Leaves) /\ data \in NetworkData
    BY <1>2, <2>1 DEF LoopOK, LoopNext
  <2>3. /\ IsArbitrary(data) \in BOOLEAN
        /\ acc.approvalIncluded \in BOOLEAN /\ acc.arbitraryApprovalIncluded \in BOOLEAN
        /\ acc.cancellationLeafIncluded \in BOOLEAN
        /\ acc.arbitraryApprovalIncluded <=> \E i \in Seen : IsArbitrary(entries[i])
        /\ (acc.approvalIncluded \/ acc.cancellationLeafIncluded) <=> Seen # {}
    BY <2>1, <2>2, FlagsTell
  <2>4. Seen' = Seen \cup {next} /\ next \notin Seen
    <3>1. Seen' = 1 .. next + 1 - 1
      BY <2>2 DEF Seen
    <3> QED
      BY <2>2, <3>1 DEF Seen
  <2>5. data.type \in {"none", "both"} => Conflicting'
    BY <2>1, <2>2, <2>4 DEF Conflicting
  <2>6. ASSUME acc.arbitraryApprovalIncluded \/ (IsArbitrary(data) /\ Seen # {})
        PROVE  Conflicting'
    <3>1. \E i, j \in Seen' : i # j /\ IsArbitrary(entries[i])
      BY <2>1, <2>3, <2>4, <2>6
    <3> QED
      BY <2>2, <3>1 DEF Conflicting
  <2>7. CASE IsDeployment(data)
    <3>1. /\ isNetworkDeploymentData(data) /\ ~isNetworkCancellationData(data)
          /\ IsArbitrary(data) = data.arbitraryChain /\ data.arbitraryChain \in BOOLEAN
      BY <2>2, <2>7, NetworkDataKinds
    <3>2. acc' = IF Conflicts(acc, data) THEN Throw(acc) ELSE IncludeDeployment(acc, data)
      BY <2>2, <3>1 DEF Include
    <3>3. Conflicts(acc, data) <=>
             \/ acc.arbitraryApprovalIncluded
             \/ IsArbitrary(data) /\ (acc.approvalIncluded \/ acc.cancellationLeafIncluded)
      <4>1. CASE data.arbitraryChain
        BY <3>1, <4>1 DEF Conflicts
      <4>2. CASE ~data.arbitraryChain
        BY <3>1, <4>2 DEF Conflicts
      <4> QED
        BY <4>1, <4>2
    <3>4. CASE Conflicts(acc, data)
      BY <1>2, <2>3, <2>6, <3>2, <3>3, <3>4, ThrowOK
    <3>5. CASE ~Conflicts(acc, data)
      <4>1. PICK more \in Seq(Leaves) :
               /\ Len(more) = Size(data)
               /\ \A k \in 1 .. Len(more) : more[k] = LeafOf(data, k)
               /\ acc.leaves \o <<ApproveLeaf(data)>> \o
                    [i \in 1 .. Len(data.txs) |-> ExecuteLeaf(data, i)] = acc.leaves \o more
        BY <2>2, <2>7, DeploymentLeaves
      <4>2. acc' = [acc EXCEPT
               !.leaves = acc.leaves \o <<ApproveLeaf(data)>> \o
                          [i \in 1 .. Len(data.txs) |-> ExecuteLeaf(data, i)],
               !.approvalIncluded = TRUE,
               !.arbitraryApprovalIncluded = acc.arbitraryApprovalIncluded \/ data.arbitraryChain]
        BY <3>2, <3>5 DEF IncludeDeployment
      <4>3. PICK l, ap, ar, ca :
               /\ l = acc.leaves \o more
               /\ ap = (acc.approvalIncluded \/ IsDeployment(data))
               /\ ar = (acc.arbitraryApprovalIncluded \/ IsArbitrary(data))
               /\ ca = (acc.cancellationLeafIncluded \/ IsCancellation(data))
        OBVIOUS
      <4>4. ap = TRUE
        BY <2>7, <4>3
      <4>5. ca = acc.cancellationLeafIncluded
        <5>1. ~IsCancellation(data)
          BY <2>7 DEF IsDeployment, IsCancellation
        <5> QED
          BY <2>3, <4>3, <5>1
      <4>6. ar = (acc.arbitraryApprovalIncluded \/ data.arbitraryChain)
        BY <3>1, <4>3
      <4>7. acc' = [acc EXCEPT !.leaves = l, !.approvalIncluded = ap,
                       !.arbitraryApprovalIncluded = ar, !.cancellationLeafIncluded = ca]
        <5>1. acc' = [acc EXCEPT !.leaves = l, !.approvalIncluded = ap,
                                 !.arbitraryApprovalIncluded = ar]
          BY <4>1, <4>2, <4>3, <4>4, <4>6
        <5>2. PICK a : a = acc
          OBVIOUS
        <5>3. a = [x \in AccFields |-> a[x]]
          BY <5>2 DEF LoopOK
        <5>4. [a EXCEPT !.leaves = l, !.approvalIncluded = ap, !.arbitraryApprovalIncluded = ar] =
              [a EXCEPT !.leaves = l, !.approvalIncluded = ap, !.arbitraryApprovalIncluded = ar,
                        !.cancellationLeafIncluded = a.cancellationLeafIncluded]
          BY <5>3 DEF AccFields
        <5> QED
          BY <4>5, <5>1, <5>2, <5>4
      <4>8. ~acc.arbitraryApprovalIncluded /\ (IsArbitrary(data) => Seen = {})
        BY <2>3, <3>3, <3>5
      <4> QED
        BY <1>2, <2>1, <2>7, <4>1, <4>3, <4>7, <4>8, AcceptedOK
    <3> QED
      BY <3>4, <3>5
  <2>8. CASE IsCancellation(data)
    <3>1. /\ ~isNetworkDeploymentData(data) /\ isNetworkCancellationData(data)
          /\ ~IsDeployment(data) /\ ~IsArbitrary(data)
      <4>1. ~IsDeployment(data)
        BY <2>8 DEF IsDeployment, IsCancellation
      <4> QED
        BY <2>2, <2>8, <4>1, NetworkDataKinds
    <3>2. acc' = IF acc.arbitraryApprovalIncluded THEN Throw(acc) ELSE IncludeCancellation(acc, data)
      BY <2>2, <3>1 DEF Include
    <3>3. CASE acc.arbitraryApprovalIncluded
      BY <1>2, <2>6, <3>2, <3>3, ThrowOK
    <3>4. CASE ~acc.arbitraryApprovalIncluded
      <4>1. PICK more : more = <<CancelLeaf(data)>>
        OBVIOUS
      <4>2. CancelLeaf(data) = LeafOf(data, 1) /\ CancelLeaf(data) \in Leaves
        <5>1. CancelLeaf(data) = LeafOf(data, 1)
          BY <3>1 DEF LeafOf
        <5> QED
          BY <2>2, <5>1 DEF Leaves
      <4>3. /\ more \in Seq(Leaves) /\ Len(more) = Size(data)
            /\ \A k \in 1 .. Len(more) : more[k] = LeafOf(data, k)
        BY <3>1, <4>1, <4>2 DEF Size
      <4>4. Append(acc.leaves, CancelLeaf(data)) = acc.leaves \o more
        BY <2>2, <4>1, <4>2
      <4>5. PICK l, ap, ar, ca :
               /\ l = acc.leaves \o more
               /\ ap = (acc.approvalIncluded \/ IsDeployment(data))
               /\ ar = (acc.arbitraryApprovalIncluded \/ IsArbitrary(data))
               /\ ca = (acc.cancellationLeafIncluded \/ IsCancellation(data))
        OBVIOUS
      <4>6. ca = TRUE
        BY <2>8, <4>5
      <4>7. ap = acc.approvalIncluded /\ ar = acc.arbitraryApprovalIncluded
        BY <2>3, <3>1, <4>5
      <4>8. acc' = [acc EXCEPT !.leaves = l, !.approvalIncluded = ap,
                       !.arbitraryApprovalIncluded = ar, !.cancellationLeafIncluded = ca]
        <5>1. acc' = [acc EXCEPT !.leaves = l, !.cancellationLeafIncluded = ca]
          BY <3>2, <3>4, <4>4, <4>5, <4>6 DEF IncludeCancellation
        <5>2. PICK a : a = acc
          OBVIOUS
        <5>3. a = [x \in AccFields |-> a[x]]
          BY <5>2 DEF LoopOK
        <5>4. [a EXCEPT !.leaves = l, !.cancellationLeafIncluded = ca] =
              [a EXCEPT !.leaves = l, !.approvalIncluded = a.approvalIncluded,
                        !.arbitraryApprovalIncluded = a.arbitraryApprovalIncluded,
                        !.cancellationLeafIncluded = ca]
          BY <5>3 DEF AccFields
        <5> QED
          BY <4>7, <5>1, <5>2, <5>4
      <4> QED
        BY <1>2, <2>1, <2>8, <3>1, <3>4, <4>3, <4>5, <4>8, AcceptedOK
    <3> QED
      BY <2>3, <3>3, <3>4
  <2>9. CASE ~IsDeployment(data) /\ ~IsCancellation(data)
    <3>1. data.type \notin {"deployment", "cancellation"}
      BY <2>9 DEF IsDeployment, IsCancellation
    <3>2. /\ isNetworkDeploymentData(data) <=> isNetworkCancellationData(data)
          /\ data.type \in {"none", "both"}
      BY <2>2, <3>1, NetworkDataKinds
    <3>3. acc' = Throw(acc)
      BY <2>2, <3>2 DEF Include
    <3> QED
      BY <1>2, <2>5, <3>2, <3>3, ThrowOK
  <2> QED
    BY <2>7, <2>8, <2>9
<1> QED
  BY <1>1, <1>2

(* After every iteration the leaves are those of the entries so far.       *)
LEMMA LoopInvariance == LoopSpec => []LoopOK
  BY LoopInitOK, LoopNextOK, PTL DEF LoopSpec

(* Two entries that were seen are two values. *)
LEMMA SeenEntries ==
    ASSUME LoopOK
    PROVE  LET seen == {entries[i] : i \in 1 .. next - 1} IN
           /\ IsFiniteSet(seen)
           /\ Cardinality(seen) > 1 <=> \E i, j \in Seen : i # j
<1> DEFINE seen == {entries[i] : i \in 1 .. next - 1}
<1>1. next \in Nat /\ next - 1 \in Nat /\ next - 1 <= Len(entries) /\ Len(entries) \in Nat
  BY DEF LoopOK
<1>2. IsFiniteSet(1 .. next - 1)
  BY <1>1, FS_Interval
<1>3. IsFiniteSet(seen)
  <2>1. [i \in 1 .. next - 1 |-> entries[i]] \in [1 .. next - 1 -> seen]
    OBVIOUS
  <2>2. \A y \in seen : \E i \in 1 .. next - 1 : [j \in 1 .. next - 1 |-> entries[j]][i] = y
    OBVIOUS
  <2> HIDE DEF seen
  <2> QED
    BY <1>2, <2>1, <2>2, FiniteRange
<1>4. Cardinality(seen) \in Nat
  BY <1>3, FS_CardinalityType
<1>5. ASSUME NEW i \in Seen, NEW j \in Seen, i # j PROVE Cardinality(seen) > 1
  <2>1. entries[i] \in seen /\ entries[j] \in seen
    BY DEF Seen
  <2>2. entries[i] # entries[j]
    <3>1. i \in 1 .. Len(entries) /\ j \in 1 .. Len(entries)
      BY <1>1 DEF Seen
    <3> QED
      BY <1>5, <3>1 DEF LoopOK
  <2>3. Cardinality(seen) # 0
    BY <1>3, <2>1, FS_EmptySet
  <2>4. Cardinality(seen) # 1
    <3>1. Cardinality(seen) = 1 => \E x : seen = {x}
      BY <1>3, FS_Singleton
    <3> QED
      BY <2>1, <2>2, <3>1
  <2> HIDE DEF seen
  <2> QED
    BY <1>4, <2>3, <2>4
<1>6. ASSUME ~\E i, j \in Seen : i # j PROVE ~(Cardinality(seen) > 1)
  <2>1. CASE Seen = {}
    <3>1. seen = {}
      BY <2>1 DEF Seen
    <3> QED
      BY <3>1, FS_EmptySet
  <2>2. CASE Seen # {}
    <3>1. PICK i : Seen = {i}
      BY <1>6, <2>2
    <3>2. seen = {entries[i]}
      BY <3>1 DEF Seen
    <3>3. Cardinality({entries[i]}) = 1
      BY FS_Singleton
    <3> QED
      BY <3>2, <3>3
  <2> QED
    BY <2>1, <2>2
<1> QED
  BY <1>3, <1>5, <1>6

(* ThrowsExactlyOnConflict: an error for the conflicting entries, whatever *)
(* their order, and for no others (makeSphinxLeaves).                      *)
THEOREM ConflictsAreRefused == LoopSpec => []ThrowsExactlyOnConflict
<1>1. ASSUME LoopOK PROVE ThrowsExactlyOnConflict
  <2> DEFINE seen == {entries[i] : i \in 1 .. next - 1}
  <2>1. Cardinality(seen) > 1 <=> \E i, j \in Seen : i # j
    BY <1>1, SeenEntries
  <2>2. acc.thrown \in BOOLEAN
    BY <1>1 DEF LoopOK
  <2>3. ASSUME acc.thrown
        PROVE  \/ \E d \in seen : d.type \in {"none", "both"}
               \/ Cardinality(seen) > 1 /\ \E d \in seen : IsArbitrary(d)
    <3>1. Conflicting
      BY <1>1, <2>3 DEF LoopOK
    <3>2. CASE \E i \in Seen : entries[i].type \in {"none", "both"}
      BY <3>2 DEF Seen
    <3>3. CASE \E i, j \in Seen : i # j /\ IsArbitrary(entries[i])
      <4>1. \E d \in seen : IsArbitrary(d)
        BY <3>3 DEF Seen
      <4> HIDE DEF seen
      <4> QED
        BY <2>1, <3>3, <4>1
    <3> QED
      BY <3>1, <3>2, <3>3 DEF Conflicting
  <2>4. ASSUME ~acc.thrown
        PROVE  /\ ~\E d \in seen : d.type \in {"none", "both"}
               /\ ~(Cardinality(seen) > 1 /\ \E d \in seen : IsArbitrary(d))
    <3>1. Collecting
      BY <1>1, <2>4 DEF LoopOK
    <3>2. ASSUME NEW d \in seen, d.type \in {"none", "both"} PROVE FALSE
      <4>1. PICK i \in Seen : d = entries[i]
        BY DEF Seen
      <4> QED
        BY <3>1, <3>2, <4>1 DEF Collecting, IsDeployment, IsCancellation
    <3>3. ASSUME Cardinality(seen) > 1, NEW d \in seen, IsArbitrary(d) PROVE FALSE
      <4>1. PICK i \in Seen : IsArbitrary(entries[i])
        BY <3>3 DEF Seen
      <4>2. acc.arbitraryApprovalIncluded
        BY <3>1, <4>1 DEF Collecting
      <4>3. next = 2
        BY <3>1, <4>2 DEF Collecting
      <4>4. Seen = {1}
        BY <4>3 DEF Seen
      <4> QED
        BY <2>1, <3>3, <4>4
    <3> QED
      BY <3>2, <3>3
  <2> QED
    BY <2>2, <2>3, <2>4, Zenon DEF ThrowsExactlyOnConflict
<1> QED
  BY <1>1, LoopInvariance, PTL

-----------------------------------------------------------------------------
(* The tree *)

(* leaf is the k-th of an entry, and as many follow as the entry has.       *)
Shows(leaf, data, k) ==
    /\ k \in 1 .. Size(data)
    /\ leaf.chainId = ChainOf(data) /\ leaf.index = k - 1
    /\ IsCancellation(data) => leaf.leafType = "CANCEL" /\ k = 1
    /\ IsDeployment(data) =>
          /\ leaf.leafType = IF k = 1 THEN "APPROVE" ELSE "EXECUTE"
          /\ k = 1 => leaf.numLeaves = Len(data.txs) + 1 /\ leaf.arbitraryChain = IsArbitrary(data)
          /\ k # 1 => leaf.requireSuccess = data.txs[k - 1]

(* The leaves of n entries, told apart by their chains.                    *)
Tree(start, src, leaves, n) ==
    /\ n \in Nat /\ start \in [1 .. n -> Nat] /\ src \in [1 .. Len(leaves) -> 1 .. n]
    /\ leaves \in Seq(Leaves)
    /\ \A i \in 1 .. n :
          /\ entries[i] \in NetworkData
          /\ IsDeployment(entries[i]) \/ IsCancellation(entries[i])
          /\ ~(IsDeployment(entries[i]) /\ IsCancellation(entries[i]))
          /\ Size(entries[i]) \in Nat \ {0}
          /\ \A j \in 1 .. n : i # j => ChainOf(entries[i]) # ChainOf(entries[j])
          /\ \A k \in 1 .. Size(entries[i]) :
                start[i] + k \in 1 .. Len(leaves) /\ src[start[i] + k] = i
          /\ IsArbitrary(entries[i]) => n = 1
    /\ \A p \in 1 .. Len(leaves) :
          Shows(leaves[p], entries[src[p]], p - start[src[p]])

(* Unless it threw, the loop has put each entry's leaves in one place.     *)
LEMMA IsTree ==
    ASSUME LoopOK, ~acc.thrown
    PROVE  \E start, src : Tree(start, src, acc.leaves, next - 1)
<1>1. /\ next \in Nat /\ next - 1 \in Nat /\ next - 1 <= Len(entries) /\ Len(entries) \in Nat
      /\ acc.leaves \in Seq(Leaves) /\ Collecting
  BY DEF LoopOK
<1>2. PICK start, src : Layout(start, src, acc.leaves, next - 1)
  BY <1>1 DEF Collecting
<1>3. PICK n : n = next - 1
  OBVIOUS
<1>4. n \in Nat /\ Seen = 1 .. n
  BY <1>1, <1>3 DEF Seen
<1>5. ASSUME NEW i \in 1 .. n
      PROVE  /\ entries[i] \in NetworkData
             /\ IsDeployment(entries[i]) \/ IsCancellation(entries[i])
             /\ ~(IsDeployment(entries[i]) /\ IsCancellation(entries[i]))
             /\ Size(entries[i]) \in Nat \ {0}
             /\ IsArbitrary(entries[i]) => n = 1
  <2>1. entries[i] \in NetworkData
    <3>1. i \in 1 .. Len(entries)
      BY <1>1, <1>3
    <3> QED
      BY <3>1 DEF LoopOK
  <2>2. IsDeployment(entries[i]) \/ IsCancellation(entries[i])
    BY <1>1, <1>4 DEF Collecting
  <2>3. Size(entries[i]) \in Nat \ {0}
    <3>1. IsDeployment(entries[i]) => entries[i].txs \in Seq(BOOLEAN)
      BY <2>1, NetworkDataKinds
    <3>2. IsDeployment(entries[i]) => Len(entries[i].txs) + 1 \in Nat \ {0}
      BY <3>1
    <3> QED
      BY <3>2 DEF Size
  <2>4. IsArbitrary(entries[i]) => n = 1
    <3>1. IsArbitrary(entries[i]) => acc.arbitraryApprovalIncluded
      BY <1>1, <1>4 DEF Collecting
    <3>2. acc.arbitraryApprovalIncluded => next = 2
      BY <1>1 DEF Collecting
    <3> QED
      BY <1>3, <3>1, <3>2
  <2> QED
    BY <2>1, <2>2, <2>3, <2>4 DEF IsDeployment, IsCancellation
<1>6. ASSUME NEW i \in 1 .. n, NEW j \in 1 .. n, i # j
      PROVE  ChainOf(entries[i]) # ChainOf(entries[j])
  <2>1. ~IsArbitrary(entries[i]) /\ ~IsArbitrary(entries[j])
    BY <1>5, <1>6
  <2>2. i \in 1 .. Len(entries) /\ j \in 1 .. Len(entries)
    BY <1>1, <1>3
  <2>3. entries[i].chainId # entries[j].chainId
    BY <1>6, <2>2 DEF LoopOK
  <2> QED
    BY <2>1, <2>3 DEF ChainOf
<1>7. ASSUME NEW p \in 1 .. Len(acc.leaves)
      PROVE  Shows(acc.leaves[p], entries[src[p]], p - start[src[p]])
  <2>1. PICK data, k : data = entries[src[p]] /\ k = p - start[src[p]]
    OBVIOUS
  <2>2. /\ src[p] \in 1 .. n /\ k \in 1 .. Size(data)
        /\ acc.leaves[p] = LeafOf(data, k)
    BY <1>2, <1>3, <2>1 DEF Layout
  <2>3. /\ data \in NetworkData
        /\ IsDeployment(data) \/ IsCancellation(data)
        /\ ~(IsDeployment(data) /\ IsCancellation(data))
        /\ Size(data) \in Nat \ {0}
    BY <1>5, <2>1, <2>2
  <2>4. k \in Nat \ {0}
    BY <2>2, <2>3
  <2>5. IsCancellation(data) => k = 1
    BY <2>2, <2>3 DEF Size
  <2>6. IsDeployment(data) => IsArbitrary(data) = data.arbitraryChain
    BY <2>3, NetworkDataKinds
  <2>7. Shows(LeafOf(data, k), data, k)
    <3>1. PICK leaf : leaf = LeafOf(data, k)
      OBVIOUS
    <3>2. /\ leaf.chainId = ChainOf(data)
          /\ IsDeployment(data) =>
                 /\ leaf.index = k - 1
                 /\ leaf.leafType = (IF k = 1 THEN "APPROVE" ELSE "EXECUTE")
                 /\ k = 1 => /\ leaf.numLeaves = Len(data.txs) + 1
                             /\ leaf.arbitraryChain = data.arbitraryChain
                 /\ k # 1 => leaf.requireSuccess = data.txs[k - 1]
          /\ IsCancellation(data) => leaf.index = 0 /\ leaf.leafType = "CANCEL"
      BY <2>3, <2>4, <3>1, LeafFields
    <3>3. ASSUME IsDeployment(data) PROVE Shows(leaf, data, k)
      BY <2>2, <2>3, <2>6, <3>2, <3>3, Zenon DEF Shows
    <3>4. ASSUME IsCancellation(data) PROVE Shows(leaf, data, k)
      <4>1. leaf.index = k - 1
        BY <2>5, <3>2, <3>4
      <4> QED
        BY <2>2, <2>3, <2>5, <3>2, <3>4, <4>1, Zenon DEF Shows
    <3> QED
      BY <2>3, <3>1, <3>3, <3>4
  <2> QED
    BY <2>1, <2>2, <2>7
<1>8. Tree(start, src, acc.leaves, n)
  <2>1. /\ start \in [1 .. n -> Nat] /\ src \in [1 .. Len(acc.leaves) -> 1 .. n]
        /\ \A i \in 1 .. n : \A k \in 1 .. Size(entries[i]) :
              start[i] + k \in 1 .. Len(acc.leaves) /\ src[start[i] + k] = i
    BY <1>2, <1>3 DEF Layout
  <2> QED
    BY <1>1, <1>4, <1>5, <1>6, <1>7, <2>1 DEF Tree
<1> QED
  BY <1>3, <1>8

(* Where the leaves of a chain are.                                        *)
LEMMA OnChain ==
    ASSUME NEW start, NEW src, NEW leaves, NEW n, Tree(start, src, leaves, n),
           NEW i \in 1 .. n, NEW p \in 1 .. Len(leaves)
    PROVE  /\ leaves[p].chainId = ChainOf(entries[i]) <=>
                 start[i] < p /\ p <= start[i] + Size(entries[i])
           /\ leaves[p].chainId = ChainOf(entries[i]) =>
                 src[p] = i /\ Shows(leaves[p], entries[i], p - start[i])
<1>1. /\ src[p] \in 1 .. n /\ Shows(leaves[p], entries[src[p]], p - start[src[p]])
      /\ start[i] \in Nat /\ Size(entries[i]) \in Nat \ {0} /\ start[src[p]] \in Nat
      /\ Size(entries[src[p]]) \in Nat \ {0} /\ p \in Nat
  BY DEF Tree
<1>2. leaves[p].chainId = ChainOf(entries[src[p]]) /\ p - start[src[p]] \in 1 .. Size(entries[src[p]])
  BY <1>1 DEF Shows
<1>3. leaves[p].chainId = ChainOf(entries[i]) => src[p] = i
  BY <1>1, <1>2 DEF Tree
<1>4. src[p] = i => start[i] < p /\ p <= start[i] + Size(entries[i])
  BY <1>1, <1>2
<1>5. start[i] < p /\ p <= start[i] + Size(entries[i]) => src[p] = i
  <2>1. SUFFICES ASSUME start[i] < p, p <= start[i] + Size(entries[i]) PROVE src[p] = i
    OBVIOUS
  <2>2. PICK k : k = p - start[i]
    OBVIOUS
  <2>3. k \in 1 .. Size(entries[i]) /\ start[i] + k = p
    BY SMTT(20), <1>1, <2>1, <2>2
  <2>4. \A j \in 1 .. Size(entries[i]) : src[start[i] + j] = i
    BY DEF Tree
  <2> QED
    BY <2>3, <2>4
<1> QED
  BY <1>1, <1>2, <1>3, <1>4, <1>5

(* The first leaf of each chain.                                           *)
LEMMA FirstLeaves ==
    ASSUME NEW start, NEW src, NEW leaves, NEW n, Tree(start, src, leaves, n),
           NEW p \in 1 .. Len(leaves)
    PROVE  /\ First(leaves[p]) <=> p = start[src[p]] + 1
           /\ First(leaves[p]) => leaves[p].index = 0
           /\ Arbitrary(leaves[p]) <=> First(leaves[p]) /\ IsArbitrary(entries[src[p]])
<1>1. PICK data, k : data = entries[src[p]] /\ k = p - start[src[p]]
  OBVIOUS
<1>2. /\ src[p] \in 1 .. n /\ Shows(leaves[p], data, k) /\ data \in NetworkData
      /\ start[src[p]] \in Nat /\ p \in Nat
      /\ IsDeployment(data) \/ IsCancellation(data)
      /\ ~(IsDeployment(data) /\ IsCancellation(data))
  <2>1. src[p] \in 1 .. n /\ Shows(leaves[p], data, k) /\ start[src[p]] \in Nat /\ p \in Nat
    BY <1>1 DEF Tree
  <2>2. \A i \in 1 .. n :
           /\ entries[i] \in NetworkData
           /\ IsDeployment(entries[i]) \/ IsCancellation(entries[i])
           /\ ~(IsDeployment(entries[i]) /\ IsCancellation(entries[i]))
    BY DEF Tree
  <2> QED
    BY <1>1, <2>1, <2>2
<1>3. p = start[src[p]] + 1 <=> k = 1
  BY <1>1, <1>2
<1>4. First(leaves[p]) <=> k = 1
  BY <1>2 DEF Shows, First
<1>5. First(leaves[p]) => leaves[p].index = 0
  BY <1>2, <1>4 DEF Shows
<1>6. IsArbitrary(data) => IsDeployment(data)
  BY <1>2, NetworkDataKinds
<1>7. Arbitrary(leaves[p]) <=> k = 1 /\ IsArbitrary(data)
  <2>1. CASE IsDeployment(data)
    <3>1. /\ leaves[p].leafType = IF k = 1 THEN "APPROVE" ELSE "EXECUTE"
          /\ k = 1 => leaves[p].arbitraryChain = IsArbitrary(data)
      BY <1>2, <2>1 DEF Shows
    <3> QED
      BY <3>1 DEF Arbitrary
  <2>2. CASE ~IsDeployment(data)
    <3>1. leaves[p].leafType = "CANCEL"
      BY <1>2, <2>2 DEF Shows
    <3> QED
      BY <1>6, <2>2, <3>1 DEF Arbitrary
  <2> QED
    BY <2>1, <2>2
<1> QED
  BY <1>1, <1>3, <1>4, <1>5, <1>7

(* The places P hold the leaves of an entry that starts after place a. *)
HoldsEntry(P, leaves, data, a) ==
    /\ {p \in P : First(leaves[p])} = {a + 1}
    /\ Cardinality(P \ {a + 1}) = Size(data) - 1
    /\ {leaves[p].index : p \in P \ {a + 1}} = 1 .. Size(data) - 1

PlacesOn(leaves, chain) == {p \in 1 .. Len(leaves) : leaves[p].chainId = chain}

(* The leaves of an entry's network: the first of them, how many others,   *)
(* and their indices.                                                      *)
LEMMA LeavesOfEntry ==
    ASSUME NEW start, NEW src, NEW leaves, NEW n, Tree(start, src, leaves, n), NEW i \in 1 .. n
    PROVE  HoldsEntry(PlacesOn(leaves, ChainOf(entries[i])), leaves, entries[i], start[i])
<1> DEFINE On == {p \in 1 .. Len(leaves) : leaves[p].chainId = ChainOf(entries[i])}
<1>1. PICK a, z : a = start[i] /\ z = Size(entries[i])
  OBVIOUS
<1>2. /\ a \in Nat /\ z \in Nat \ {0} /\ Len(leaves) \in Nat
      /\ \A k \in 1 .. z : a + k \in 1 .. Len(leaves) /\ src[a + k] = i
  BY <1>1 DEF Tree
<1>3. \A p \in 1 .. Len(leaves) : leaves[p].chainId = ChainOf(entries[i]) <=> a < p /\ p <= a + z
  BY <1>1, OnChain
<1>4. On = a + 1 .. a + z
  <2>1. \A p \in 1 .. Len(leaves) : p \in a + 1 .. a + z <=> a < p /\ p <= a + z
    BY <1>2
  <2>2. ASSUME NEW p \in a + 1 .. a + z PROVE p \in 1 .. Len(leaves)
    <3>1. p - a \in 1 .. z /\ a + (p - a) = p
      BY <1>2
    <3> QED
      BY <1>2, <3>1
  <2>3. \A p \in On : p \in a + 1 .. a + z
    BY <1>3, <2>1
  <2>4. \A p \in a + 1 .. a + z : p \in On
    BY <1>3, <2>1, <2>2
  <2> QED
    BY <2>3, <2>4
<1>5. \A p \in On : p \in 1 .. Len(leaves) /\ src[p] = i /\ leaves[p].index = p - a - 1
  <2>1. ASSUME NEW p \in On PROVE src[p] = i /\ leaves[p].index = p - a - 1
    BY <1>1, <2>1, OnChain DEF Shows
  <2> QED
    BY <2>1
<1>6. \A p \in On : First(leaves[p]) <=> p = a + 1
  BY <1>1, <1>5, FirstLeaves
<1>7. a + 1 \in On
  BY <1>2, <1>4
<1> HIDE DEF On
<1>8. {p \in On : First(leaves[p])} = {a + 1}
  BY <1>6, <1>7
<1>9. On \ {a + 1} = a + 2 .. a + z
  BY <1>2, <1>4
<1>10. Cardinality(On \ {a + 1}) = z - 1
  <2>1. a + 2 \in Int /\ a + z \in Int
    BY <1>2
  <2>2. PICK b, c : b = a + 2 /\ c = a + z
    OBVIOUS
  <2>3. Cardinality(b .. c) = IF b > c THEN 0 ELSE c - b + 1
    BY <2>1, <2>2, FS_Interval
  <2>4. (IF b > c THEN 0 ELSE c - b + 1) = z - 1
    BY <1>2, <2>2
  <2>5. On \ {a + 1} = b .. c
    BY <1>9, <2>2
  <2> QED
    BY <2>3, <2>4, <2>5, Zenon
<1>11. {leaves[p].index : p \in On \ {a + 1}} = 1 .. z - 1
  <2>1. ASSUME NEW p \in On \ {a + 1} PROVE leaves[p].index \in 1 .. z - 1
    <3>1. p \in a + 2 .. a + z /\ leaves[p].index = p - a - 1
      BY <1>5, <1>9
    <3> QED
      BY <1>2, <3>1
  <2>2. ASSUME NEW k \in 1 .. z - 1 PROVE \E p \in On \ {a + 1} : leaves[p].index = k
    <3>1. a + 1 + k \in a + 2 .. a + z /\ a + 1 + k - a - 1 = k
      BY <1>2
    <3>2. a + 1 + k \in On \ {a + 1}
      BY <1>9, <3>1
    <3>3. PICK p : p = a + 1 + k
      OBVIOUS
    <3>4. p \in On \ {a + 1} /\ p - a - 1 = k
      <4>1. p - a - 1 = k
        BY <1>2, <3>3
      <4> QED
        BY <3>2, <3>3, <4>1, Zenon
    <3>5. leaves[p].index = k
      BY <1>5, <3>4
    <3> QED
      BY <3>4, <3>5
  <2> QED
    BY <2>1, <2>2
<1>12. On = PlacesOn(leaves, ChainOf(entries[i]))
  BY DEF On, PlacesOn
<1> QED
  BY <1>1, <1>8, <1>10, <1>11, <1>12 DEF HoldsEntry

(* A tree of this kind is valid.                                           *)
LEMMA TreeIsValid ==
    ASSUME NEW start, NEW src, NEW leaves, NEW n, Tree(start, src, leaves, n)
    PROVE  ValidTree(leaves)
<1> DEFINE Positions == 1 .. Len(leaves)
           Named == {leaves[p].chainId : p \in Positions}
           On(chain) == {p \in Positions : leaves[p].chainId = chain}
           Firsts(chain) == {p \in On(chain) : First(leaves[p])}
<1>1. /\ n \in Nat /\ Len(leaves) \in Nat
      /\ \A p \in Positions : /\ src[p] \in 1 .. n /\ start[src[p]] \in Nat
                              /\ Shows(leaves[p], entries[src[p]], p - start[src[p]])
  BY DEF Tree
<1>2. \A p \in Positions : leaves[p].chainId = ChainOf(entries[src[p]])
  BY <1>1 DEF Shows
<1>3. ASSUME NEW c \in Named
      PROVE  \E i \in 1 .. n :
                /\ c = ChainOf(entries[i]) /\ Firsts(c) = {start[i] + 1}
                /\ Cardinality(On(c) \ {start[i] + 1}) = Size(entries[i]) - 1
                /\ {leaves[p].index : p \in On(c) \ {start[i] + 1}} = 1 .. Size(entries[i]) - 1
  <2>1. PICK p \in Positions : c = leaves[p].chainId
    OBVIOUS
  <2>2. PICK i \in 1 .. n : c = ChainOf(entries[i])
    BY <1>1, <1>2, <2>1
  <2>3. PICK R : R = {q \in Positions : leaves[q].chainId = ChainOf(entries[i])}
    OBVIOUS
  <2>4. /\ {q \in R : First(leaves[q])} = {start[i] + 1}
        /\ Cardinality(R \ {start[i] + 1}) = Size(entries[i]) - 1
        /\ {leaves[q].index : q \in R \ {start[i] + 1}} = 1 .. Size(entries[i]) - 1
    <3>1. HoldsEntry(PlacesOn(leaves, ChainOf(entries[i])), leaves, entries[i], start[i])
      BY LeavesOfEntry
    <3>2. R = PlacesOn(leaves, ChainOf(entries[i]))
      BY <2>3 DEF PlacesOn
    <3> QED
      BY <3>1, <3>2 DEF HoldsEntry
  <2>5. On(c) = R
    BY <2>2, <2>3
  <2> HIDE DEF On
  <2> QED
    BY <2>2, <2>4, <2>5
<1>4. \A c \in Named : Cardinality(Firsts(c)) = 1
  <2>1. \A x : Cardinality({x}) = 1
    BY FS_Singleton
  <2> QED
    BY <1>3, <2>1
<1>5. ASSUME NEW q \in Positions, Arbitrary(leaves[q])
      PROVE  Cardinality({p \in Positions : First(leaves[p])}) = 1
  <2>1. IsArbitrary(entries[src[q]])
    BY <1>5, FirstLeaves
  <2>2. n = 1
    BY <1>1, <2>1 DEF Tree
  <2>3. \A p \in Positions : src[p] = 1
    BY <1>1, <2>2
  <2>4. \A p \in Positions : leaves[p].chainId = leaves[q].chainId
    BY <1>2, <2>3
  <2>5. {p \in Positions : First(leaves[p])} = Firsts(leaves[q].chainId)
    BY <2>4
  <2> QED
    BY <1>4, <2>5
<1>6. ASSUME NEW p \in Positions, NEW q \in Positions, leaves[p].chainId = leaves[q].chainId
      PROVE  src[p] = src[q]
  <2>1. src[p] \in 1 .. n /\ src[q] \in 1 .. n
    BY <1>1
  <2>2. ChainOf(entries[src[p]]) = ChainOf(entries[src[q]])
    BY <1>2, <1>6
  <2> QED
    BY <2>1, <2>2 DEF Tree
<1>7. ASSUME NEW p \in Positions, leaves[p].leafType = "EXECUTE"
      PROVE  \E q \in 1 .. p - 1 :
                leaves[q].leafType = "APPROVE" /\ leaves[q].chainId = leaves[p].chainId
  <2>1. PICK a, i, z : a = start[src[p]] /\ i = src[p] /\ z = Size(entries[src[p]])
    OBVIOUS
  <2>2. /\ Shows(leaves[p], entries[i], p - a) /\ i \in 1 .. n /\ a \in Nat /\ p \in Nat
        /\ IsDeployment(entries[i]) \/ IsCancellation(entries[i])
        /\ z \in Nat \ {0} /\ start[i] = a
    <3>1. Shows(leaves[p], entries[i], p - a) /\ i \in 1 .. n /\ a \in Nat
      BY <1>1, <2>1
    <3> QED
      BY <1>1, <2>1, <3>1 DEF Tree
  <2>3. IsDeployment(entries[i]) /\ p - a # 1 /\ p - a \in 1 .. z
    BY <1>7, <2>1, <2>2 DEF Shows
  <2>4. a + 1 \in Positions /\ src[a + 1] = i
    <3>1. 1 \in 1 .. z
      BY <2>2
    <3> QED
      BY <2>1, <2>2, <3>1 DEF Tree
  <2>5. leaves[a + 1].chainId = leaves[p].chainId
    BY <1>2, <2>1, <2>4
  <2>6. leaves[a + 1].leafType = "APPROVE"
    <3>1. Shows(leaves[a + 1], entries[i], a + 1 - a) /\ a + 1 - a = 1
      BY <1>1, <2>2, <2>4
    <3> QED
      BY <2>3, <3>1 DEF Shows
  <2>7. a + 1 \in 1 .. p - 1
    BY <1>1, <2>2, <2>3
  <2> QED
    BY <2>5, <2>6, <2>7
<1>8. ASSUME NEW p \in Positions, NEW q \in Positions,
             leaves[p].leafType = "EXECUTE", leaves[q].leafType = "CANCEL"
      PROVE  leaves[p].chainId # leaves[q].chainId
  <2>1. SUFFICES ASSUME leaves[p].chainId = leaves[q].chainId PROVE FALSE
    OBVIOUS
  <2>2. src[p] = src[q]
    BY <1>6, <2>1
  <2>3. PICK data, k, m : data = entries[src[p]] /\ k = p - start[src[p]] /\ m = q - start[src[q]]
    OBVIOUS
  <2>4. Shows(leaves[p], data, k) /\ Shows(leaves[q], data, m)
    BY <1>1, <2>2, <2>3
  <2>5. IsDeployment(data) \/ IsCancellation(data)
    BY <1>1, <2>3 DEF Tree
  <2> QED
    BY <1>8, <2>4, <2>5 DEF Shows
<1>9. ASSUME NEW p \in Positions, NEW q \in Positions, p # q,
             leaves[p].chainId = leaves[q].chainId
      PROVE  leaves[p].index # leaves[q].index
  <2>1. src[p] = src[q]
    BY <1>6, <1>9
  <2>2. leaves[p].index = p - start[src[p]] - 1 /\ leaves[q].index = q - start[src[q]] - 1
    BY <1>1 DEF Shows
  <2>3. start[src[p]] \in Nat /\ p \in Nat /\ q \in Nat
    BY <1>1
  <2> QED
    BY <1>9, <2>1, <2>2, <2>3
<1>10. \A p \in Positions : First(leaves[p]) => leaves[p].index = 0
  BY FirstLeaves
<1>11. \A c \in Named :
          {leaves[p].index : p \in On(c) \ Firsts(c)} = 1 .. Cardinality(On(c) \ Firsts(c))
  <2> HIDE DEF On, Firsts
  <2> QED
    BY <1>3
<1> QED
  BY <1>4, <1>5, <1>7, <1>8, <1>9, <1>10, <1>11 DEF ValidTree

(* LeavesAreValid: what makeSphinxLeaves has collected after any iteration *)
(* is a valid tree in the sense of the specification.                      *)
THEOREM TreesAreValid == LoopSpec => []LeavesAreValid
<1>1. LoopOK => LeavesAreValid
  BY IsTree, TreeIsValid DEF LeavesAreValid
<1> QED
  BY <1>1, LoopInvariance, PTL

-----------------------------------------------------------------------------
(* What the executor picks out *)

(* The leaves that the executor filters for a network are the entry's.     *)
LEMMA NetworkLeavesAreOwn ==
    ASSUME NEW start, NEW src, NEW leaves, NEW n, Tree(start, src, leaves, n), NEW i \in 1 .. n
    PROVE  LET own == networkLeaves(leaves, ChainOf(entries[i]))
           IN /\ Len(own) = Size(entries[i])
              /\ \A k \in 1 .. Size(entries[i]) :
                    own[k] = leaves[start[i] + k] /\ Shows(own[k], entries[i], k)
<1>1. PICK a, z, c : a = start[i] /\ z = Size(entries[i]) /\ c = ChainOf(entries[i])
  OBVIOUS
<1> DEFINE S == {leaf \in ToSet(leaves) : leaf.chainId = c}
<1>2. /\ a \in Nat /\ z \in Nat \ {0} /\ Len(leaves) \in Nat
      /\ leaves \in Seq(Leaves)
      /\ \A k \in 1 .. z : a + k \in 1 .. Len(leaves)
  BY <1>1 DEF Tree
<1>3. a + z <= Len(leaves)
  BY <1>2
<1>4. \A p \in 1 .. Len(leaves) : leaves[p].chainId = c <=> a < p /\ p <= a + z
  BY <1>1, OnChain
<1>5. \A p \in 1 .. Len(leaves) : leaves[p] \in S <=> a < p /\ p <= a + z
  <2>1. \A p \in 1 .. Len(leaves) : leaves[p] \in ToSet(leaves)
    BY <1>2 DEF ToSet
  <2> QED
    BY <1>4, <2>1
<1>6. networkLeaves(leaves, c) = SelectIn(leaves, S)
  BY DEF networkLeaves
<1> HIDE DEF S
<1>7. /\ Len(SelectIn(leaves, S)) = z
      /\ \A k \in 1 .. z : SelectIn(leaves, S)[k] = leaves[a + k]
  <2>1. z \in Nat
    BY <1>2
  <2>2. PICK R : R = S
    OBVIOUS
  <2>3. leaves \in Seq(Leaves) /\ a \in Nat /\ z \in Nat /\ a + z <= Len(leaves)
    BY <1>2, <1>3, <2>1
  <2>4. \A p \in 1 .. Len(leaves) : leaves[p] \in R <=> a < p /\ p <= a + z
    BY <1>5, <2>2
  <2>5. /\ Len(SelectIn(leaves, R)) = z
        /\ \A k \in 1 .. z : SelectIn(leaves, R)[k] = leaves[a + k]
    BY ZenonT(30), <2>3, <2>4, SelectInRun
  <2> QED
    BY <2>2, <2>5
<1>8. ASSUME NEW k \in 1 .. z PROVE Shows(leaves[a + k], entries[i], k)
  <2>1. PICK p : p = a + k
    OBVIOUS
  <2>2. p \in 1 .. Len(leaves) /\ p - a = k /\ a < p /\ p <= a + z
    BY <1>2, <2>1
  <2>3. leaves[p].chainId = c
    BY <1>4, <2>2
  <2>4. Shows(leaves[p], entries[i], p - a)
    BY <1>1, <2>2, <2>3, OnChain
  <2> QED
    BY <2>1, <2>2, <2>4
<1> QED
  BY <1>1, <1>6, <1>7, <1>8

(* The one leaf of a type other than EXECUTE is found.                     *)
LEMMA FindsFirstLeaf ==
    ASSUME NEW start, NEW src, NEW leaves, NEW n, Tree(start, src, leaves, n), NEW i \in 1 .. n,
           NEW type \in {"APPROVE", "CANCEL"},
           type = IF IsDeployment(entries[i]) THEN "APPROVE" ELSE "CANCEL"
    PROVE  /\ hasLeaf(leaves, type, ChainOf(entries[i]))
           /\ findLeaf(leaves, type, ChainOf(entries[i])) = leaves[start[i] + 1]
           /\ \A other \in {"APPROVE", "CANCEL"} :
                 hasLeaf(leaves, other, ChainOf(entries[i])) => other = type
<1>1. PICK a, c : a = start[i] /\ c = ChainOf(entries[i])
  OBVIOUS
<1> DEFINE S == {leaf \in ToSet(leaves) : leaf.leafType = type /\ leaf.chainId = c}
<1>2. /\ a \in Nat /\ Len(leaves) \in Nat /\ leaves \in Seq(Leaves)
      /\ a + 1 \in 1 .. Len(leaves) /\ Size(entries[i]) \in Nat \ {0}
      /\ IsDeployment(entries[i]) \/ IsCancellation(entries[i])
      /\ ~(IsDeployment(entries[i]) /\ IsCancellation(entries[i]))
  <2>1. Size(entries[i]) \in Nat \ {0}
    BY DEF Tree
  <2>2. 1 \in 1 .. Size(entries[i])
    BY <2>1
  <2>3. /\ start \in [1 .. n -> Nat] /\ leaves \in Seq(Leaves)
        /\ start[i] + 1 \in 1 .. Len(leaves)
        /\ IsDeployment(entries[i]) \/ IsCancellation(entries[i])
        /\ ~(IsDeployment(entries[i]) /\ IsCancellation(entries[i]))
    BY <2>2 DEF Tree
  <2> QED
    BY <1>1, <2>1, <2>3
<1>3. ASSUME NEW p \in 1 .. Len(leaves), leaves[p].chainId = c
      PROVE  /\ leaves[p].leafType = type <=> p = a + 1
             /\ leaves[p].leafType \in {"APPROVE", "CANCEL"} => leaves[p].leafType = type
  <2>1. Shows(leaves[p], entries[i], p - a) /\ p \in Nat
    BY <1>1, <1>3, OnChain
  <2>2. p = a + 1 <=> p - a = 1
    BY <1>2, <2>1
  <2>3. CASE IsDeployment(entries[i])
    BY <2>1, <2>2, <2>3 DEF Shows
  <2>4. CASE IsCancellation(entries[i])
    BY <1>2, <2>1, <2>2, <2>4 DEF Shows
  <2> QED
    BY <1>2, <2>3, <2>4
<1>4. leaves[a + 1].chainId = c
  <2>1. PICK p : p = a + 1
    OBVIOUS
  <2>2. p \in 1 .. Len(leaves) /\ start[i] < p /\ p <= start[i] + Size(entries[i])
    BY <1>1, <1>2, <2>1
  <2>3. leaves[p].chainId = ChainOf(entries[i])
    BY <2>2, OnChain
  <2> QED
    BY <1>1, <2>1, <2>3
<1>5. \A p \in 1 .. Len(leaves) : leaves[p] \in S <=> a < p /\ p <= a + 1
  <2>1. ASSUME NEW p \in 1 .. Len(leaves) PROVE leaves[p] \in S <=> p = a + 1
    <3>1. leaves[p] \in ToSet(leaves)
      BY <1>2 DEF ToSet
    <3> QED
      BY <1>3, <1>4, <3>1
  <2>2. \A p \in 1 .. Len(leaves) : p = a + 1 <=> a < p /\ p <= a + 1
    BY <1>2
  <2> QED
    BY <2>1, <2>2
<1>6. findLeaf(leaves, type, c) = SelectIn(leaves, S)[1]
  BY DEF findLeaf
<1>7. hasLeaf(leaves, type, c)
  BY <1>2, <1>3, <1>4 DEF hasLeaf
<1>8. ASSUME NEW other \in {"APPROVE", "CANCEL"}, hasLeaf(leaves, other, c) PROVE other = type
  BY <1>3, <1>8 DEF hasLeaf
<1> HIDE DEF S
<1>9. SelectIn(leaves, S)[1] = leaves[a + 1]
  <2>1. PICK m : m = 1
    OBVIOUS
  <2>2. a \in Nat /\ m \in Nat /\ leaves \in Seq(Leaves) /\ a + m <= Len(leaves)
    BY <1>2, <2>1
  <2>3. \A p \in 1 .. Len(leaves) : leaves[p] \in S <=> a < p /\ p <= a + m
    BY <1>5, <2>1
  <2>4. \A k \in 1 .. m : SelectIn(leaves, S)[k] = leaves[a + k]
    BY ZenonT(30), <2>2, <2>3, SelectInRun
  <2> QED
    BY <2>1, <2>4
<1> QED
  BY <1>1, <1>6, <1>7, <1>8, <1>9

(* NetworkLeavesAreABatchPlan: what the executor filters out of the array  *)
(* for a network is the APPROVE leaf, then one leaf for each transaction   *)
(* in order, with its place as its index; of a cancellation, the one leaf. *)
THEOREM LeavesAreABatchPlan == LoopSpec => []NetworkLeavesAreABatchPlan
<1>1. ASSUME LoopOK PROVE NetworkLeavesAreABatchPlan
  <2>1. SUFFICES ASSUME LoopReturned, NEW i \in 1 .. Len(entries)
                 PROVE  LET data == entries[i]
                            chain == ChainOf(data)
                            leaves == networkLeaves(acc.leaves, chain)
                        IN
                        /\ \A k \in 1 .. Len(leaves) : leaves[k].index = k - 1
                        /\ data.type = "deployment" =>
                              /\ hasLeaf(acc.leaves, "APPROVE", chain)
                              /\ ~hasLeaf(acc.leaves, "CANCEL", chain)
                              /\ leaves[1] = findLeaf(acc.leaves, "APPROVE", chain)
                              /\ leaves[1].numLeaves = Len(leaves)
                              /\ Len(leaves) = Len(data.txs) + 1
                              /\ \A k \in 2 .. Len(leaves) :
                                    leaves[k].requireSuccess = data.txs[k - 1]
                        /\ data.type = "cancellation" =>
                              /\ ~hasLeaf(acc.leaves, "APPROVE", chain)
                              /\ leaves = <<findLeaf(acc.leaves, "CANCEL", chain)>>
    BY DEF NetworkLeavesAreABatchPlan, ChainOf
  <2>2. ~acc.thrown /\ i \in 1 .. next - 1
    BY <1>1, <2>1 DEF LoopReturned, LoopOK
  <2>3. PICK start, src : Tree(start, src, acc.leaves, next - 1)
    BY <1>1, <2>2, IsTree
  <2>4. PICK n, all : n = next - 1 /\ all = acc.leaves
    OBVIOUS
  <2>5. Tree(start, src, all, n) /\ i \in 1 .. n
    BY <2>2, <2>3, <2>4
  <2>6. PICK data, chain, leaves, z :
           /\ data = entries[i] /\ chain = ChainOf(data) /\ leaves = networkLeaves(all, chain)
           /\ z = Size(data)
    OBVIOUS
  <2>7. /\ Len(leaves) = z
        /\ \A k \in 1 .. z : leaves[k] = all[start[i] + k] /\ Shows(leaves[k], data, k)
    BY <2>5, <2>6, NetworkLeavesAreOwn
  <2>8. /\ z \in Nat \ {0} /\ ~(IsDeployment(data) /\ IsCancellation(data))
    BY <2>5, <2>6 DEF Tree
  <2>9. 1 \in 1 .. z /\ \A k \in 2 .. z : k \in 1 .. z /\ k # 1
    BY <2>8
  <2>10. \A k \in 1 .. Len(leaves) : leaves[k].index = k - 1
    BY <2>7 DEF Shows
  <2>11. ASSUME IsDeployment(data)
         PROVE  /\ hasLeaf(all, "APPROVE", chain) /\ ~hasLeaf(all, "CANCEL", chain)
                /\ leaves[1] = findLeaf(all, "APPROVE", chain)
                /\ leaves[1].numLeaves = Len(leaves)
                /\ Len(leaves) = Len(data.txs) + 1
                /\ \A k \in 2 .. Len(leaves) : leaves[k].requireSuccess = data.txs[k - 1]
    <3>1. /\ hasLeaf(all, "APPROVE", chain) /\ leaves[1] = findLeaf(all, "APPROVE", chain)
          /\ hasLeaf(all, "CANCEL", chain) => "CANCEL" = "APPROVE"
      BY <2>5, <2>6, <2>7, <2>9, <2>11, FindsFirstLeaf
    <3>2. z = Len(data.txs) + 1
      BY <2>6, <2>11 DEF Size
    <3>3. leaves[1].numLeaves = Len(data.txs) + 1
      BY <2>7, <2>9, <2>11 DEF Shows
    <3>4. \A k \in 2 .. z : leaves[k].requireSuccess = data.txs[k - 1]
      BY <2>7, <2>9, <2>11 DEF Shows
    <3> QED
      BY <2>7, <3>1, <3>2, <3>3, <3>4
  <2>12. ASSUME IsCancellation(data)
         PROVE  ~hasLeaf(all, "APPROVE", chain) /\ leaves = <<findLeaf(all, "CANCEL", chain)>>
    <3>1. ~IsDeployment(data) /\ z = 1
      BY <2>6, <2>8, <2>12 DEF Size
    <3>2. /\ leaves[1] = findLeaf(all, "CANCEL", chain)
          /\ hasLeaf(all, "APPROVE", chain) => "APPROVE" = "CANCEL"
      BY <2>5, <2>6, <2>7, <2>9, <3>1, FindsFirstLeaf
    <3>3. PICK S : leaves = SelectIn(all, S)
      BY <2>6 DEF networkLeaves
    <3>4. leaves \in Seq(S)
      <4>1. all \in Seq(Leaves)
        BY <2>5 DEF Tree
      <4> QED
        BY <3>3, <4>1, SelectInType
    <3>5. leaves = <<leaves[1]>>
      BY <2>7, <3>1, <3>4
    <3> QED
      BY <3>2, <3>5
  <2> QED
    BY <2>4, <2>6, <2>10, <2>11, <2>12 DEF IsDeployment, IsCancellation
<1> QED
  BY <1>1, LoopInvariance, PTL

=============================================================================
