----------------------------- MODULE ModuleLoader -----------------------------
(***************************************************************************)
(* Loading the modules of the script: module_loader.inc, called by V8's    *)
(* InstantiateModule.  V8 asks ResolveModuleCallback for all imports of a  *)
(* module and then visits each imported module in the same way; a module   *)
(* it has met before is not visited again.  The callback learns which file *)
(* the importing module is from only by searching the cache, so a module   *)
(* must be in the cache, under its own path, before its imports are asked  *)
(* for.                                                                    *)
(***************************************************************************)
EXTENDS Naturals, Sequences

CONSTANTS Files,        \* canonical paths
          Directories, Names,
          Cwd,          \* the directory in which the process was started
          Dir,          \* the directory of each canonical path
          Lookup,       \* std::filesystem::canonical(directory / name)
          Missing,
          Entry,        \* the file named on the command line
          MaxImports,   \* bound: imports of one module
          MaxCompiles   \* bound: compilations of one file

(* A specifier is "./name", or it is anything else, such as "../name":     *)
(* only "./" is resolved against the directory of the importing module.    *)
Specifier == [dot : BOOLEAN, name : Names]

(* A file that can be read and compiled, or one that cannot.               *)
Content == [usable : {TRUE}, imports : UNION {[1 .. n -> Specifier] : n \in 0 .. MaxImports}]
             \cup [usable : {FALSE}, imports : {<<>>}]

ASSUME LoaderAssumption ==
  /\ Cwd \in Directories /\ Entry \in Files /\ Missing \notin Files
  /\ Dir \in [Files -> Directories]
  /\ Lookup \in [Directories \X Names -> Files \cup {Missing}]
  /\ MaxImports \in Nat /\ MaxCompiles \in Nat \ {0}

VARIABLES content,    \* of each file
          at,         \* where main() is
          compiled,   \* how often each file has been compiled
          cache,      \* module_cache: from paths to modules
          imports,    \* the modules that V8 has got for the imports of a module
          stack       \* V8's visits: [module, visited]

vars == <<content, at, compiled, cache, imports, stack>>

(* Compiling a file again would make a second module.                      *)
Module == Files \X Nat
FileOf(module) == module[1]

Init ==
  /\ content \in [Files -> Content]
  /\ at = "start"
  /\ compiled = [f \in Files |-> 0]
  /\ cache = <<>> /\ imports = <<>> /\ stack = <<>>

With(function, key, value) ==
  [k \in DOMAIN function \cup {key} |-> IF k = key THEN value ELSE function[k]]

NotCached(specifier, file, module) == cache

CachedUnderName(specifier, file, module) == With(cache, specifier.name, module)

(* module_cache[path_key].Reset(isolate, local_module).                    *)
Cached(specifier, file, module) == With(cache, file, module)

(* V8 begins with a module: none of its imports is known.                  *)
Visit(module) == [module |-> module, visited |-> 0]
Top == stack[Len(stack)]
Below == SubSeq(stack, 1, Len(stack) - 1)

(* canonical, ReadFileSync and CompileModule succeed.                      *)
Loads(file) == file # Missing /\ content[file].usable

(* load_module: the entry must be found, read and compiled, or exit(1).    *)
LoadEntry ==
  LET module == <<Entry, 1>> IN
  /\ at = "start"
  /\ IF ~Loads(Entry)
       THEN at' = "exited" /\ UNCHANGED <<compiled, cache, imports, stack>>
       ELSE /\ at' = "linking"
            /\ compiled' = [compiled EXCEPT ![Entry] = 1]
            /\ cache' = With(cache, Entry, module)
            /\ imports' = With(imports, module, <<>>)
            /\ stack' = <<Visit(module)>>
  /\ UNCHANGED content

(* The reverse lookup of the referrer; an unknown one gives "", whose      *)
(* parent is the working directory.                                        *)
ReferrerDirectory(module) ==
  LET paths == {p \in DOMAIN cache : cache[p] = module}
  IN  IF paths = {} THEN Cwd ELSE Dir[CHOOSE p \in paths : TRUE]

Resolve(specifier, directory) ==
  Lookup[IF specifier.dot THEN directory ELSE Cwd, specifier.name]

NextSpecifier(module) == content[FileOf(module)].imports[Len(imports[module]) + 1]
Asking == at = "linking" /\ Len(imports[Top.module]) < Len(content[FileOf(Top.module)].imports)
Give(module, import) == imports' = [imports EXCEPT ![module] = Append(@, import)]

(* ResolveModuleCallback, when the file is in the cache ...                *)
ResolveCached ==
  /\ Asking
  /\ LET specifier == NextSpecifier(Top.module)
         file == Resolve(specifier, ReferrerDirectory(Top.module))
     IN  /\ file \in DOMAIN cache
         /\ Give(Top.module, cache[file])
  /\ UNCHANGED <<content, at, compiled, cache, stack>>

(* ... when it has to be read and compiled ...                             *)
ResolveNew ==
  /\ Asking
  /\ LET specifier == NextSpecifier(Top.module)
         file == Resolve(specifier, ReferrerDirectory(Top.module))
     IN  /\ file \notin DOMAIN cache
         /\ Loads(file)
         /\ compiled[file] < MaxCompiles
         /\ compiled' = [compiled EXCEPT ![file] = @ + 1]
         /\ cache' = Cached(specifier, file, <<file, compiled[file] + 1>>)
         /\ Give(Top.module, <<file, compiled[file] + 1>>)
  /\ UNCHANGED <<content, at, stack>>

(* ... and when that fails: InstantiateModule returns nothing, exit(1).    *)
ResolveFails ==
  /\ Asking
  /\ LET specifier == NextSpecifier(Top.module)
         file == Resolve(specifier, ReferrerDirectory(Top.module))
     IN  /\ file \notin DOMAIN cache
         /\ ~Loads(file)
  /\ at' = "exited"
  /\ UNCHANGED <<content, compiled, cache, imports, stack>>

(* V8 has all imports of a module: it visits the next one, unless it has   *)
(* met it before, and returns after the last one.                          *)
PrepareInstantiate ==
  /\ at = "linking" /\ ~Asking
  /\ Top.visited < Len(imports[Top.module])
  /\ LET next == imports[Top.module][Top.visited + 1]
         here == Append(Below, [Top EXCEPT !.visited = @ + 1])
     IN  IF next \in DOMAIN imports
           THEN stack' = here /\ UNCHANGED imports
           ELSE stack' = Append(here, Visit(next)) /\ imports' = With(imports, next, <<>>)
  /\ UNCHANGED <<content, at, compiled, cache>>

ReturnFromVisit ==
  /\ at = "linking" /\ ~Asking
  /\ Top.visited = Len(imports[Top.module])
  /\ stack' = Below
  /\ at' = IF Below = <<>> THEN "linked" ELSE "linking"
  /\ UNCHANGED <<content, compiled, cache, imports>>

(* Evaluate returns a promise, also when a module throws: main() goes on   *)
(* to uv_run and the error is lost.                                        *)
Evaluate ==
  /\ at = "linked"
  /\ at' = "loop"
  /\ UNCHANGED <<content, compiled, cache, imports, stack>>

Next == \/ LoadEntry \/ ResolveCached \/ ResolveNew \/ ResolveFails
        \/ PrepareInstantiate \/ ReturnFromVisit \/ Evaluate

Spec == Init /\ [][Next]_vars
FairSpec == Spec /\ WF_vars(Next)
-------------------------------------------------------------------------------
(* Every variable has its type.                                            *)
TypeOK ==
  /\ content \in [Files -> Content]
  /\ at \in {"start", "linking", "linked", "loop", "exited"}
  /\ compiled \in [Files -> Nat]
  /\ DOMAIN cache \subseteq Files /\ cache \in [DOMAIN cache -> Module]
  /\ DOMAIN imports \subseteq Module /\ imports \in [DOMAIN imports -> Seq(Module)]
  /\ stack \in Seq([module : Module, visited : Nat])
  /\ at = "linking" => stack # <<>>

(* The module that an import of file f, by its i-th specifier, stands for. *)
Target(f, i) == Resolve(content[f].imports[i], Dir[f])

(* Whoever imports a file, by whatever specifier, gets the one module that *)
(* was made of it, and the importing module itself is found in the cache,  *)
(* so that "./" means its own directory.                                   *)
ImportsAreShared ==
  \A m \in DOMAIN imports :
    /\ FileOf(m) \in DOMAIN cache /\ cache[FileOf(m)] = m
    /\ \A i \in DOMAIN imports[m] :
         /\ Target(FileOf(m), i) \in DOMAIN cache
         /\ imports[m][i] = cache[Target(FileOf(m), i)]

(* Linking ends, also when modules import each other in a cycle.           *)
LoadingEnds == (at = "linking") ~> (at \in {"loop", "exited"})
===============================================================================
