---------------------------- MODULE BuildInfoCache ----------------------------
(***************************************************************************)
(* The search for the artifact and the build info of each contract that a  *)
(* script deploys (packages/plugins/src/foundry/utils/index.ts,            *)
(* makeGetConfigArtifacts and readContractArtifact).                       *)
(*                                                                         *)
(* Forge compiles only what has changed, so a contract's build info may be *)
(* any file of the folder, and an index of all files is cached between     *)
(* commands.  Several commands may run at the same time in one project,    *)
(* each recompiles, and the user edits, cleans and deletes files; a command*)
(* reads the folder, the artifacts and the build infos one after the other.*)
(***************************************************************************)
EXTENDS Naturals, FiniteSets, InitCodes, Selection

CONSTANTS
    Names,     \* fully qualified names
    Versions,  \* Versions[n]: the codes n may compile to
    Path,      \* Path[n]: n as the parts of a path
    Place,     \* Place[n]: the path of its artifact in Forge's folder
    Linked,    \* the codes that link libraries
    ScriptName,\* the user's script, one of Names
    Commands,  \* processes of the command line tool
    Scripts,   \* what a script may deploy: sequences of different init codes
    MaxTime    \* bound: how often something is compiled

None == "none"

(* Of all artifacts that could be taken for the one of n, Forge puts n's   *)
(* own the deepest.                                                        *)
ASSUME BuildInfoCacheAssumption ==
    /\ ScriptName \in Names /\ None \notin Codes /\ MaxTime \in Nat
    /\ Scripts \subseteq Seq(InitCode)
    /\ Path \in [Names -> Seq(STRING)] /\ Place \in [Names -> Seq(STRING)]
    /\ \A n \in Names : Versions[n] \subseteq Codes /\ IsSuffix(Place[n], Path[n])
    /\ \A n, m \in Names : n # m /\ IsSuffix(Place[m], Path[n])
                                => Len(Place[m]) < Len(Place[n])

(* Code that a script holds as data: no source compiles to it. *)
Inline == Codes \ UNION {Versions[n] : n \in Names}

(* The name of a build info file is a hash of the sources it was compiled  *)
(* from, so it is modelled by them: a function from some names to codes.   *)
BuildInfoFile == UNION {[ns -> Codes] : ns \in SUBSET Names}

VARIABLES
    source,     \* source[n]: what n compiles to now
    artifact,   \* artifact[n]: the code in its artifact file, or None
    buildInfos, \* the folder: a function from files to modification times
    cacheFile,  \* sphinx-cache.json: the same, as of the last command
    clock,
    command     \* command[p]: see Idle

vars == <<source, artifact, buildInfos, cacheFile, clock, command>>

(* A process: its progress, what it collected, its copy of the index, what *)
(* it found and returns, and history: whether a compilation, or the user's *)
(* deletion of a file, came between its steps.                             *)
Idle == [pc |-> "idle", inits |-> <<>>, cache |-> <<>>, resolved |-> <<>>,
         configArtifacts |-> <<>>, raced |-> FALSE]

Init ==
    /\ source \in {f \in [Names -> Codes] : \A n \in Names : f[n] \in Versions[n]}
    /\ artifact = [n \in Names |-> None]
    /\ buildInfos = <<>>
    /\ cacheFile = <<>>
    /\ clock = 0
    /\ command = [p \in Commands |-> Idle]

RestrictTo(f, S) == [x \in DOMAIN f \cap S |-> f[x]]

(* Every command that is running sees files change under it. *)
Raced == [p \in Commands |-> [command[p] EXCEPT !.raced = command[p].pc # "idle"]]

-----------------------------------------------------------------------------
(* Mutants, each the body of the definition after it as a plausible bug    *)
(* would leave it; no action uses them.                                    *)
KeepsDeleted(cached, files) == files @@ cached
Shallowest(n) ==
    CHOOSE m \in Names :
        /\ artifact[m] # None /\ IsSuffix(Place[m], Path[n])
        /\ \A o \in Names : artifact[o] # None /\ IsSuffix(Place[o], Path[n])
                => Len(Place[m]) <= Len(Place[o])

(* The index after a look at the folder: entries of files that are gone    *)
(* are removed (all, if a single new file tells of a forced compilation),  *)
(* times are updated and new files are read.                               *)
UpdateCache(cached, files) ==
    LET kept == IF Cardinality(DOMAIN files) = 1 /\ DOMAIN files \cap DOMAIN cached = {}
                THEN <<>>
                ELSE RestrictTo(cached, DOMAIN files)
    IN [f \in DOMAIN kept \cup DOMAIN files |-> files[f]]

(* readContractArtifact looks in the deepest folder first; files of the    *)
(* same name lie in different folders.                                     *)
readContractArtifact(n) ==
    CHOOSE m \in Names :
        /\ artifact[m] # None /\ IsSuffix(Place[m], Path[n])
        /\ \A o \in Names : artifact[o] # None /\ IsSuffix(Place[o], Path[n])
                => Len(Place[m]) >= Len(Place[o])

(* The files of an index that contain the contract of an init code. *)
FilesWith(cache, init) ==
    {f \in DOMAIN cache : \E n \in DOMAIN f : isInitCodeMatch(init, f[n])}

(* The most recent of them, and the contract's name in it. *)
Lookup(cache, init) ==
    LET file == CHOOSE f \in FilesWith(cache, init) :
                    \A g \in FilesWith(cache, init) : cache[f] >= cache[g]
    IN [file |-> file,
        name |-> CHOOSE n \in DOMAIN file : isInitCodeMatch(init, file[n])]

-----------------------------------------------------------------------------
(* Forge and the user *)

Edit(n, code) ==
    /\ code \in Versions[n] \ {source[n]}
    /\ source' = [source EXCEPT ![n] = code]
    /\ UNCHANGED <<artifact, buildInfos, cacheFile, clock, command>>

(* forge build --build-info of the names in `dirty`. *)
Write(dirty, files) ==
    /\ clock < MaxTime
    /\ clock' = clock + 1
    /\ LET file == [n \in dirty |-> source[n]]
       IN buildInfos' = [f \in {file} \cup DOMAIN files |->
                            IF f = file THEN clock' ELSE files[f]]
    /\ artifact' = [n \in Names |-> IF n \in dirty THEN source[n] ELSE artifact[n]]

(* The user compiles everything again. *)
ForceCompile ==
    /\ Write(Names, <<>>)
    /\ command' = Raced
    /\ UNCHANGED <<source, cacheFile>>

DeleteBuildInfo(file) ==
    /\ file \in DOMAIN buildInfos
    /\ buildInfos' = RestrictTo(buildInfos, DOMAIN buildInfos \ {file})
    /\ command' = Raced
    /\ UNCHANGED <<source, artifact, cacheFile, clock>>

-----------------------------------------------------------------------------
(* A command *)

(* compile, then the script runs on what was compiled.                     *)
Compile(p) ==
    LET dirty == {n \in Names : artifact[n] # source[n]}
        before == IF dirty = {} THEN command ELSE Raced
    IN /\ command[p].pc = "idle"
       /\ \E inits \in Scripts :
             /\ \A k \in DOMAIN inits :
                    \/ \E n \in Names : source[n] = inits[k].code
                    \/ inits[k].code \in Inline
             /\ command' = [before EXCEPT ![p] = [Idle EXCEPT !.pc = "index",
                                                             !.inits = inits]]
       /\ IF dirty = {}
          THEN UNCHANGED <<artifact, buildInfos, clock>>
          ELSE Write(dirty, buildInfos)
       /\ UNCHANGED <<source, cacheFile>>

(* getConfigArtifacts up to the look at the folder. *)
Index(p) ==
    /\ command[p].pc = "index"
    /\ command' = [command EXCEPT
          ![p] = [@ EXCEPT !.pc = "resolve",
                           !.cache = UpdateCache(cacheFile, buildInfos)]]
    /\ UNCHANGED <<source, artifact, buildInfos, cacheFile, clock>>

(* Each init code is looked up in the index, and its artifact is read; an  *)
(* init code that no source explains is left out.                          *)
Resolve(p) ==
    /\ command[p].pc = "resolve"
    /\ LET c == command[p]
           known == SelectIn(c.inits, {init \in InitCode : FilesWith(c.cache, init) # {}})
           found == [k \in DOMAIN known |->
                        LET entry == Lookup(c.cache, known[k])
                        IN [name |-> entry.name, file |-> entry.file,
                            code |-> artifact[readContractArtifact(entry.name)]]]
       IN command' = [command EXCEPT
             ![p] = [@ EXCEPT !.pc = "read", !.resolved = found]]
    /\ UNCHANGED <<source, artifact, buildInfos, cacheFile, clock>>

(* The build infos are read.  If one is missing, the index on disk is      *)
(* removed and the command fails.                                          *)
ReadBuildInfos(p) ==
    /\ command[p].pc = "read"
    /\ LET c == command[p]
           missing == {k \in DOMAIN c.resolved : c.resolved[k].file \notin DOMAIN buildInfos}
       IN IF missing # {}
          THEN /\ cacheFile' = <<>>
               /\ command' = [command EXCEPT ![p].pc = "outdated"]
          ELSE /\ command' = [command EXCEPT ![p].pc = "write"]
               /\ UNCHANGED cacheFile
    /\ UNCHANGED <<source, artifact, buildInfos, clock>>

(* The index is saved.  A later entry of configArtifacts for a name        *)
(* replaces an earlier one.                                                *)
Save(p) ==
    /\ command[p].pc = "write"
    /\ cacheFile' = command[p].cache
    /\ LET r == command[p].resolved
           names == {r[k].name : k \in DOMAIN r}
           last(n) == CHOOSE k \in DOMAIN r :
                          /\ r[k].name = n
                          /\ \A j \in DOMAIN r : r[j].name = n => j <= k
       IN command' = [command EXCEPT
             ![p] = [@ EXCEPT !.pc = "done", !.cache = <<>>, !.resolved = <<>>,
                              !.configArtifacts = [n \in names |-> r[last(n)]]]]
    /\ UNCHANGED <<source, artifact, buildInfos, clock>>

(* assertNoLinkedLibraries: the script's name is taken from the most recent*)
(* file of the index on disk, then its artifact is read; without an index, *)
(* or if the script links a library, the command fails.                    *)
CheckLibraries(p) ==
    /\ command[p].pc = "done"
    /\ LET files == {f \in DOMAIN cacheFile : ScriptName \in DOMAIN f}
           ok == files # {} /\ artifact[readContractArtifact(ScriptName)] \notin Linked
       IN command' = [command EXCEPT ![p].pc = IF ok THEN "accepted" ELSE "refused"]
    /\ UNCHANGED <<source, artifact, buildInfos, cacheFile, clock>>

(* The process ends, by itself or not; another command may follow. *)
Exit(p) ==
    /\ command[p].pc # "idle"
    /\ command' = [command EXCEPT ![p] = Idle]
    /\ UNCHANGED <<source, artifact, buildInfos, cacheFile, clock>>

Next ==
    \/ \E n \in Names, code \in Codes : Edit(n, code)
    \/ ForceCompile
    \/ \E file \in DOMAIN buildInfos : DeleteBuildInfo(file)
    \/ \E p \in Commands :
          \/ Compile(p) \/ Index(p) \/ Resolve(p) \/ ReadBuildInfos(p)
          \/ Save(p) \/ CheckLibraries(p) \/ Exit(p)

Spec == Init /\ [][Next]_vars

-----------------------------------------------------------------------------
(* What a command found for contract n. *)
Found(p, n) == command[p].configArtifacts[n]

(* configArtifacts as findFullyQualifiedNameForInitCode walks through it. *)
Entries(p) ==
    LET names == SetToSeq(DOMAIN command[p].configArtifacts)
    IN [k \in DOMAIN names |-> [name |-> names[k], code |-> Found(p, names[k]).code]]

(* The caching, the clean-ups of the user and the commands before it do    *)
(* not mislead a command that nothing disturbs: if there is a build info of*)
(* a contract that the script deploys, the contract is found by its init   *)
(* code, its artifact is the code that is deployed, and the build info next*)
(* to it is one that has this code.                                        *)
ArtifactsAreOfTheScript ==
    \A p \in Commands :
        command[p].pc \in {"done", "accepted"} /\ ~command[p].raced =>
            \A k \in DOMAIN command[p].inits :
                LET init == command[p].inits[k]
                    n == findFullyQualifiedNameForInitCode(init, Entries(p))
                IN IF FilesWith(buildInfos, init) = {}
                   THEN n = "undefined"
                   ELSE /\ n \in DOMAIN command[p].configArtifacts
                        /\ Found(p, n).file[n] = init.code

(* "Build info cache is outdated" is never the fault of the cache: the     *)
(* command fails only if somebody deleted or rebuilt files while it ran.   *)
OutdatedOnlyIfRaced ==
    \A p \in Commands : command[p].pc = "outdated" => command[p].raced

=============================================================================
