--------------------------- MODULE ModuleLoaderProofs -------------------------
(***************************************************************************)
(* Every import of a file gets the module that was made of it: for all     *)
(* files, directories and links, and any number of imports.  The invariant *)
(* says in addition that a cached file was compiled once, that a visited   *)
(* module is cached, and that a visit is for a module V8 has begun with.   *)
(***************************************************************************)
EXTENDS ModuleLoader, SequenceTheorems, TLAPS

CacheInv ==
  /\ \A f \in DOMAIN cache : cache[f] = <<f, 1>>
  /\ \A f \in Files : f \notin DOMAIN cache => compiled[f] = 0

VisitInv == \A i \in DOMAIN stack : stack[i].module \in DOMAIN imports

StartInv == at = "start" => DOMAIN cache = {} /\ DOMAIN imports = {}

IInv == TypeOK /\ CacheInv /\ VisitInv /\ StartInv /\ ImportsAreShared
-------------------------------------------------------------------------------
(* What With(function, key, value) is.                                     *)
LEMMA WithFact ==
  ASSUME NEW F, NEW k, NEW v
  PROVE  /\ DOMAIN With(F, k, v) = DOMAIN F \cup {k}
         /\ With(F, k, v) = [j \in DOMAIN With(F, k, v) |-> With(F, k, v)[j]]
         /\ With(F, k, v)[k] = v
         /\ \A j \in DOMAIN F : j # k => With(F, k, v)[j] = F[j]
  BY DEF With

(* The imports of a file are a sequence of specifiers.                     *)
LEMMA ContentType ==
  ASSUME content \in [Files -> Content], NEW f \in Files
  PROVE  content[f].imports \in Seq(Specifier)
<1>1. content[f] \in Content
  OBVIOUS
<1>2. CASE content[f] \in [usable : {TRUE}, imports : UNION {[1 .. n -> Specifier] :
                                                      n \in 0 .. MaxImports}]
  <2>1. content[f].imports \in UNION {[1 .. n -> Specifier] : n \in 0 .. MaxImports}
    BY <1>2
  <2>2. PICK n \in 0 .. MaxImports : content[f].imports \in [1 .. n -> Specifier]
    BY <2>1
  <2> QED
    BY <2>2, LoaderAssumption
<1>3. CASE content[f] \in [usable : {FALSE}, imports : {<<>>}]
  <2>1. content[f].imports \in {<<>>}
    BY <1>3
  <2>2. content[f].imports = <<>>
    BY <2>1
  <2>3. <<>> \in Seq(Specifier)
    OBVIOUS
  <2> QED
    BY <2>2, <2>3
<1> QED
  BY <1>1, <1>2, <1>3 DEF Content

(* While V8 links, there is a visit at the top.                            *)
LEMMA TopType ==
  ASSUME TypeOK, VisitInv, at = "linking"
  PROVE  /\ Len(stack) \in DOMAIN stack
         /\ Top = stack[Len(stack)]
         /\ Top \in [module : Module, visited : Nat]
         /\ Top.module \in DOMAIN imports
         /\ Below \in Seq([module : Module, visited : Nat])
         /\ DOMAIN Below \subseteq DOMAIN stack
         /\ \A i \in DOMAIN Below : Below[i] = stack[i]
<1>1. stack \in Seq([module : Module, visited : Nat]) /\ stack # <<>>
  BY DEF TypeOK
<1>2. Len(stack) \in Nat /\ Len(stack) > 0 /\ DOMAIN stack = 1 .. Len(stack)
  BY <1>1
<1>3. Len(stack) \in DOMAIN stack
  BY <1>2
<1>4. Top \in [module : Module, visited : Nat]
  <2> DEFINE S == [module : Module, visited : Nat]
  <2>1. stack \in Seq(S) /\ Len(stack) \in 1 .. Len(stack)
    BY <1>1, <1>2
  <2> HIDE DEF S
  <2>2. stack[Len(stack)] \in S
    BY <2>1
  <2> QED
    BY <2>2 DEF Top, S
<1>5. Top.module \in DOMAIN imports
  BY <1>3 DEF Top, VisitInv
<1>6. /\ Below \in Seq([module : Module, visited : Nat])
      /\ Len(Below) = Len(stack) - 1
      /\ \A i \in 1 .. Len(stack) - 1 : Below[i] = stack[i]
  <2> DEFINE S == [module : Module, visited : Nat]
             last == Len(stack) - 1
  <2>1. stack \in Seq(S) /\ last \in Int /\ 1 \in Int /\ last = last - 1 + 1
    BY <1>1, <1>2
  <2> HIDE DEF S
  <2>2. \A i \in 1 .. last : stack[i] \in S
    BY <1>2, <2>1
  <2>3. /\ SubSeq(stack, 1, last) \in Seq(S)
        /\ Len(SubSeq(stack, 1, last)) = IF 1 <= last THEN last - 1 + 1 ELSE 0
        /\ \A i \in 1 .. last - 1 + 1 : SubSeq(stack, 1, last)[i] = stack[1 + i - 1]
    BY <2>1, <2>2, SubSeqProperties
  <2>4. \A i \in 1 .. last : 1 + i - 1 = i
    OBVIOUS
  <2> QED
    BY <2>1, <2>3, <2>4, <1>2 DEF Below, S
<1>7. DOMAIN Below = 1 .. Len(stack) - 1
  BY <1>6
<1> QED
  BY <1>2, <1>3, <1>4, <1>5, <1>6, <1>7 DEF Top

(* The reverse lookup finds the directory of the importing module.         *)
LEMMA ReferrerFound ==
  ASSUME CacheInv, ImportsAreShared, NEW m \in DOMAIN imports
  PROVE  ReferrerDirectory(m) = Dir[FileOf(m)]
<1> DEFINE paths == {p \in DOMAIN cache : cache[p] = m}
<1>1. FileOf(m) \in paths
  BY DEF ImportsAreShared
<1>2. \A p \in paths : p = FileOf(m)
  <2> SUFFICES ASSUME NEW p \in paths PROVE p = FileOf(m)
    OBVIOUS
  <2>1. m = <<p, 1>>
    BY DEF CacheInv
  <2> QED
    BY <2>1 DEF FileOf
<1>3. paths # {} /\ (CHOOSE p \in paths : TRUE) \in paths
  BY <1>1
<1> QED
  BY <1>2, <1>3 DEF ReferrerDirectory

(* What the callback resolves is the target of the next import.            *)
LEMMA Asked ==
  ASSUME IInv, Asking
  PROVE  LET m == Top.module
             file == Resolve(NextSpecifier(m), ReferrerDirectory(m))
         IN  /\ m \in Module /\ m \in DOMAIN imports
             /\ imports[m] \in Seq(Module)
             /\ file = Target(FileOf(m), Len(imports[m]) + 1)
             /\ file \in Files \cup {Missing}
<1> DEFINE m == Top.module
<1> USE DEF IInv
<1>1. m \in DOMAIN imports /\ m \in Module /\ imports[m] \in Seq(Module)
  <2>1. m \in DOMAIN imports /\ m \in Module
    BY TopType DEF Asking
  <2> QED
    BY <2>1 DEF TypeOK
<1>2. FileOf(m) \in Files /\ ReferrerDirectory(m) = Dir[FileOf(m)]
  BY <1>1, ReferrerFound DEF Module, FileOf
<1>3. content[FileOf(m)].imports \in Seq(Specifier)
  BY <1>2, ContentType DEF TypeOK
<1>4. NextSpecifier(m) \in Specifier
  BY <1>1, <1>3 DEF Asking, NextSpecifier
<1>5. Resolve(NextSpecifier(m), Dir[FileOf(m)]) \in Files \cup {Missing}
  <2>1. Dir[FileOf(m)] \in Directories /\ Cwd \in Directories
    BY <1>2, LoaderAssumption
  <2>2. NextSpecifier(m).name \in Names
    BY <1>4 DEF Specifier
  <2> QED
    BY <2>1, <2>2, LoaderAssumption DEF Resolve
<1>6. Resolve(NextSpecifier(m), ReferrerDirectory(m)) = Target(FileOf(m), Len(imports[m]) + 1)
  BY <1>2 DEF NextSpecifier, Target
<1> QED
  BY <1>1, <1>2, <1>5, <1>6

(* Giving V8 the cached module of the next target keeps imports shared.    *)
LEMMA GiveStep ==
  ASSUME IInv, Asking, NEW x \in Module, Give(Top.module, x), content' = content,
         \A f \in DOMAIN cache : f \in DOMAIN cache' /\ cache'[f] = cache[f],
         LET target == Target(FileOf(Top.module), Len(imports[Top.module]) + 1)
         IN  target \in DOMAIN cache' /\ x = cache'[target]
  PROVE  /\ ImportsAreShared'
         /\ DOMAIN imports' = DOMAIN imports
         /\ imports' \in [DOMAIN imports' -> Seq(Module)]
<1> DEFINE m == Top.module
           n == Len(imports[m]) + 1
<1>1. m \in Module /\ m \in DOMAIN imports /\ imports[m] \in Seq(Module)
  BY Asked
<1>2. imports \in [DOMAIN imports -> Seq(Module)]
  BY DEF IInv, TypeOK
<1>3. /\ imports' = [imports EXCEPT ![m] = Append(@, x)]
      /\ DOMAIN imports' = DOMAIN imports
  BY <1>2 DEF Give
<1>4. /\ Append(imports[m], x) \in Seq(Module)
      /\ DOMAIN Append(imports[m], x) = DOMAIN imports[m] \cup {n}
      /\ Append(imports[m], x)[n] = x
      /\ \A i \in DOMAIN imports[m] : Append(imports[m], x)[i] = imports[m][i]
  BY <1>1
<1>5. imports' \in [DOMAIN imports' -> Seq(Module)]
  BY <1>2, <1>3, <1>4
<1>6. \A f, i : Target(f, i)' = Target(f, i)
  BY DEF Target, Resolve
<1>7. ASSUME NEW k \in DOMAIN imports'
      PROVE  /\ FileOf(k) \in DOMAIN cache' /\ cache'[FileOf(k)] = k
             /\ \A i \in DOMAIN imports'[k] :
                  /\ Target(FileOf(k), i) \in DOMAIN cache'
                  /\ imports'[k][i] = cache'[Target(FileOf(k), i)]
  <2>1. /\ FileOf(k) \in DOMAIN cache /\ cache[FileOf(k)] = k
        /\ \A i \in DOMAIN imports[k] :
             /\ Target(FileOf(k), i) \in DOMAIN cache
             /\ imports[k][i] = cache[Target(FileOf(k), i)]
    BY <1>3 DEF IInv, ImportsAreShared
  <2>2. CASE k # m
    <3>1. imports'[k] = imports[k]
      BY <1>3, <2>2
    <3> QED
      BY <2>1, <3>1
  <2>3. CASE k = m
    <3>1. imports'[k] = Append(imports[m], x)
      BY <1>1, <1>3, <2>3
    <3>2. ASSUME NEW i \in DOMAIN imports'[k]
          PROVE  /\ Target(FileOf(k), i) \in DOMAIN cache'
                 /\ imports'[k][i] = cache'[Target(FileOf(k), i)]
      <4>1. CASE i = n
        BY <1>4, <2>3, <3>1, <4>1
      <4>2. CASE i \in DOMAIN imports[m]
        BY <1>4, <2>1, <2>3, <3>1, <4>2
      <4> QED
        BY <1>4, <3>1, <4>1, <4>2
    <3> QED
      BY <2>1, <3>2
  <2> QED
    BY <2>2, <2>3
<1> QED
  BY <1>3, <1>5, <1>6, <1>7 DEF ImportsAreShared, FileOf

(* V8 begins with a module that is in the cache.                           *)
LEMMA BeginStep ==
  ASSUME CacheInv, ImportsAreShared, NEW m \in Module, m \notin DOMAIN imports,
         imports \in [DOMAIN imports -> Seq(Module)], DOMAIN imports \subseteq Module,
         imports' = With(imports, m, <<>>), content' = content,
         \A f \in DOMAIN cache : f \in DOMAIN cache' /\ cache'[f] = cache[f],
         FileOf(m) \in DOMAIN cache' /\ cache'[FileOf(m)] = m
  PROVE  /\ ImportsAreShared'
         /\ DOMAIN imports' = DOMAIN imports \cup {m}
         /\ imports' \in [DOMAIN imports' -> Seq(Module)]
         /\ DOMAIN imports' \subseteq Module
<1>1. /\ DOMAIN imports' = DOMAIN imports \cup {m}
      /\ imports' = [j \in DOMAIN imports' |-> imports'[j]]
      /\ imports'[m] = <<>>
      /\ \A j \in DOMAIN imports : imports'[j] = imports[j]
  <2>1. imports' = [j \in DOMAIN imports \cup {m} |-> IF j = m THEN <<>> ELSE imports[j]]
    BY DEF With
  <2> QED
    BY <2>1
<1>2. <<>> \in Seq(Module) /\ DOMAIN <<>> = {}
  OBVIOUS
<1>3. \A j \in DOMAIN imports' : imports'[j] \in Seq(Module)
  BY <1>1, <1>2
<1>4. imports' \in [DOMAIN imports' -> Seq(Module)]
  BY <1>1, <1>3
<1>5. \A f, i : Target(f, i)' = Target(f, i)
  BY DEF Target, Resolve
<1>6. ASSUME NEW k \in DOMAIN imports'
      PROVE  /\ FileOf(k) \in DOMAIN cache' /\ cache'[FileOf(k)] = k
             /\ \A i \in DOMAIN imports'[k] :
                  /\ Target(FileOf(k), i) \in DOMAIN cache'
                  /\ imports'[k][i] = cache'[Target(FileOf(k), i)]
  <2>1. CASE k = m
    BY <1>1, <1>2, <2>1
  <2>2. CASE k \in DOMAIN imports
    BY <1>1, <2>2 DEF ImportsAreShared
  <2> QED
    BY <1>1, <2>1, <2>2
<1> QED
  BY <1>1, <1>4, <1>5, <1>6 DEF ImportsAreShared, FileOf

(* A step that changes no file, no cached module and no import keeps them. *)
LEMMA SharedUnchanged ==
  ASSUME ImportsAreShared, UNCHANGED <<content, cache, imports>>
  PROVE  ImportsAreShared'
<1>1. \A f, i : Target(f, i)' = Target(f, i)
  BY DEF Target, Resolve
<1>2. \A m : FileOf(m)' = FileOf(m)
  BY DEF FileOf
<1> QED
  BY <1>1, <1>2 DEF ImportsAreShared
-------------------------------------------------------------------------------
LEMMA InitInv == Init => IInv
<1> SUFFICES ASSUME Init PROVE IInv
  OBVIOUS
<1>1. DOMAIN <<>> = {} /\ <<>> \in [{} -> Module] /\ <<>> \in [{} -> Seq(Module)]
  OBVIOUS
<1>2. <<>> \in Seq([module : Module, visited : Nat])
  BY EmptySeq
<1>3. TypeOK
  BY <1>1, <1>2 DEF Init, TypeOK
<1> QED
  BY <1>1, <1>3 DEF Init, IInv, CacheInv, VisitInv, StartInv, ImportsAreShared

LEMMA LoadEntryInv == ASSUME IInv, LoadEntry PROVE IInv'
<1> DEFINE m == <<Entry, 1>>
<1> USE DEF IInv
<1>1. CASE ~Loads(Entry)
  <2>1. at' = "exited" /\ UNCHANGED <<content, compiled, cache, imports, stack>>
    BY <1>1 DEF LoadEntry
  <2>2. TypeOK' /\ CacheInv' /\ VisitInv' /\ StartInv'
    BY <2>1 DEF TypeOK, CacheInv, VisitInv, StartInv
  <2>3. ImportsAreShared'
    BY <2>1, SharedUnchanged
  <2> QED
    BY <2>2, <2>3
<1>2. CASE Loads(Entry)
  <2>1. /\ at = "start" /\ at' = "linking" /\ content' = content
        /\ compiled' = [compiled EXCEPT ![Entry] = 1]
        /\ cache' = With(cache, Entry, m)
        /\ imports' = With(imports, m, <<>>)
        /\ stack' = <<Visit(m)>>
    BY <1>2 DEF LoadEntry
  <2>2. Entry \in Files /\ m \in Module /\ FileOf(m) = Entry
    BY LoaderAssumption DEF Module, FileOf
  <2>3. DOMAIN cache = {} /\ DOMAIN imports = {}
    BY <2>1 DEF StartInv
  <2>4. cache' = [f \in {Entry} |-> m]
    BY <2>1, <2>3 DEF With
  <2>5. /\ ImportsAreShared'
        /\ DOMAIN imports' = {m}
        /\ imports' \in [DOMAIN imports' -> Seq(Module)]
        /\ DOMAIN imports' \subseteq Module
    <3>1. m \notin DOMAIN imports
      BY <2>3
    <3>2. imports \in [DOMAIN imports -> Seq(Module)] /\ DOMAIN imports \subseteq Module
      BY DEF TypeOK
    <3>3. FileOf(m) \in DOMAIN cache' /\ cache'[FileOf(m)] = m
      BY <2>2, <2>4
    <3>4. \A f \in DOMAIN cache : f \in DOMAIN cache' /\ cache'[f] = cache[f]
      BY <2>3
    <3> HIDE DEF m
    <3> QED
      BY <2>1, <2>2, <2>3, <3>1, <3>2, <3>3, <3>4, BeginStep
  <2>6. Visit(m) \in [module : Module, visited : Nat] /\ Visit(m).module = m
    BY <2>2 DEF Visit
  <2>7. stack' \in Seq([module : Module, visited : Nat]) /\ stack' # <<>> /\ DOMAIN stack' = {1}
    BY <2>1, <2>6
  <2>8. TypeOK'
    BY <2>1, <2>2, <2>4, <2>5, <2>7 DEF TypeOK
  <2>9. CacheInv'
    <3>1. DOMAIN cache' = {Entry} /\ cache'[Entry] = <<Entry, 1>>
      BY <2>4
    <3>2. \A f \in Files : f # Entry => compiled'[f] = compiled[f]
      BY <2>1 DEF TypeOK
    <3>3. \A f \in Files : compiled[f] = 0
      BY <2>3 DEF CacheInv
    <3> QED
      BY <3>1, <3>2, <3>3 DEF CacheInv
  <2>10. VisitInv'
    <3> HIDE DEF m
    <3>1. DOMAIN stack' = {1} /\ stack'[1] = Visit(m)
      BY <2>1
    <3> QED
      BY <2>5, <2>6, <3>1 DEF VisitInv
  <2>11. StartInv'
    BY <2>1 DEF StartInv
  <2> QED
    BY <2>5, <2>8, <2>9, <2>10, <2>11
<1> QED
  BY <1>1, <1>2

LEMMA ResolveCachedInv == ASSUME IInv, ResolveCached PROVE IInv'
<1> DEFINE m == Top.module
           file == Resolve(NextSpecifier(m), ReferrerDirectory(m))
<1>1. /\ Asking /\ file \in DOMAIN cache /\ Give(m, cache[file])
      /\ UNCHANGED <<content, at, compiled, cache, stack>>
  BY DEF ResolveCached
<1>2. file = Target(FileOf(m), Len(imports[m]) + 1)
  BY <1>1, Asked
<1>3. cache[file] \in Module
  BY <1>1 DEF IInv, TypeOK
<1>4. /\ ImportsAreShared'
      /\ DOMAIN imports' = DOMAIN imports
      /\ imports' \in [DOMAIN imports' -> Seq(Module)]
  <2> HIDE DEF file
  <2> QED
    BY <1>1, <1>2, <1>3, GiveStep
<1>5. TypeOK' /\ CacheInv' /\ VisitInv' /\ StartInv'
  BY <1>1, <1>4 DEF IInv, TypeOK, CacheInv, VisitInv, StartInv, Asking
<1> QED
  BY <1>4, <1>5 DEF IInv

LEMMA ResolveNewInv == ASSUME IInv, ResolveNew PROVE IInv'
<1> DEFINE m == Top.module
           file == Resolve(NextSpecifier(m), ReferrerDirectory(m))
           new == <<file, compiled[file] + 1>>
<1>1. /\ Asking /\ file \notin DOMAIN cache /\ Loads(file)
      /\ compiled' = [compiled EXCEPT ![file] = @ + 1]
      /\ cache' = With(cache, file, new)
      /\ Give(m, new)
      /\ UNCHANGED <<content, at, stack>>
  BY DEF ResolveNew, Cached
<1>2. file = Target(FileOf(m), Len(imports[m]) + 1) /\ file \in Files
  BY <1>1, Asked DEF Loads
<1>3. compiled[file] = 0 /\ new = <<file, 1>> /\ new \in Module
  BY <1>1, <1>2 DEF IInv, CacheInv, Module
<1>4. /\ DOMAIN cache' = DOMAIN cache \cup {file}
      /\ cache' \in [DOMAIN cache' -> Module]
      /\ cache'[file] = new
      /\ \A f \in DOMAIN cache : f \in DOMAIN cache' /\ cache'[f] = cache[f]
  <2> HIDE DEF file, new
  <2>1. cache' = [f \in DOMAIN cache \cup {file} |-> IF f = file THEN new ELSE cache[f]]
    BY <1>1 DEF With
  <2>2. cache \in [DOMAIN cache -> Module]
    BY DEF IInv, TypeOK
  <2> QED
    BY <1>1, <1>3, <2>1, <2>2
<1> HIDE DEF file
<1>5. /\ ImportsAreShared'
      /\ DOMAIN imports' = DOMAIN imports
      /\ imports' \in [DOMAIN imports' -> Seq(Module)]
  <2> HIDE DEF new
  <2> QED
    BY <1>1, <1>2, <1>3, <1>4, GiveStep
<1>6. TypeOK'
  <2> HIDE DEF new
  <2>1. compiled' \in [Files -> Nat]
    BY <1>1, <1>3, <1>2 DEF IInv, TypeOK
  <2>2. DOMAIN cache' \subseteq Files /\ DOMAIN imports' \subseteq Module
    BY <1>2, <1>4, <1>5 DEF IInv, TypeOK
  <2>3. /\ content' \in [Files -> Content]
        /\ at' \in {"start", "linking", "linked", "loop", "exited"}
        /\ stack' \in Seq([module : Module, visited : Nat])
        /\ at' = "linking" => stack' # <<>>
    BY <1>1 DEF IInv, TypeOK
  <2> QED
    BY <1>4, <1>5, <2>1, <2>2, <2>3 DEF TypeOK
<1>7. CacheInv'
  BY <1>1, <1>2, <1>3, <1>4 DEF IInv, CacheInv, TypeOK
<1>8. VisitInv' /\ StartInv'
  BY <1>1, <1>5 DEF IInv, VisitInv, StartInv, Asking
<1> QED
  BY <1>5, <1>6, <1>7, <1>8 DEF IInv

LEMMA PrepareInstantiateInv == ASSUME IInv, PrepareInstantiate PROVE IInv'
<1> DEFINE S == [module : Module, visited : Nat]
           next == imports[Top.module][Top.visited + 1]
           here == Append(Below, [Top EXCEPT !.visited = @ + 1])
<1> USE DEF IInv
<1>1. /\ at = "linking" /\ Top.visited < Len(imports[Top.module])
      /\ UNCHANGED <<content, at, compiled, cache>>
  BY DEF PrepareInstantiate
<1>2. /\ Top \in S /\ Top.module \in DOMAIN imports /\ Below \in Seq(S)
      /\ \A i \in DOMAIN Below : Below[i].module \in DOMAIN imports
  BY <1>1, TopType DEF VisitInv
<1>3. [Top EXCEPT !.visited = @ + 1] \in S /\ [Top EXCEPT !.visited = @ + 1].module = Top.module
  BY <1>2
<1>4. /\ here \in Seq(S) /\ here # <<>>
      /\ \A i \in DOMAIN here : here[i].module \in DOMAIN imports
  <2> DEFINE top == [Top EXCEPT !.visited = @ + 1]
  <2> HIDE DEF S, top
  <2>1. /\ Append(Below, top) \in Seq(S) /\ Append(Below, top) # <<>>
        /\ \A i \in DOMAIN Append(Below, top) :
             Append(Below, top)[i] = top \/ (i \in DOMAIN Below /\ Append(Below, top)[i] = Below[i])
    BY <1>2, <1>3 DEF top
  <2> QED
    BY <1>2, <1>3, <2>1 DEF top
<1>5. next \in Module /\ FileOf(next) \in DOMAIN cache /\ cache[FileOf(next)] = next
  <2> DEFINE k == Top.visited + 1
             t == Target(FileOf(Top.module), k)
  <2>1. imports[Top.module] \in Seq(Module) /\ k \in DOMAIN imports[Top.module]
    BY <1>1, <1>2 DEF TypeOK
  <2>2. t \in DOMAIN cache /\ next = cache[t]
    BY <1>2, <2>1 DEF ImportsAreShared
  <2>3. next = <<t, 1>>
    BY <2>2 DEF CacheInv
  <2> HIDE DEF next, k, t
  <2>4. next = imports[Top.module][k]
    BY DEF next, k
  <2>5. next \in Module
    BY <2>1, <2>4
  <2>6. FileOf(next) = t
    BY <2>3 DEF FileOf
  <2> QED
    BY <2>2, <2>5, <2>6
<1>6. CASE next \in DOMAIN imports
  <2>1. stack' = here /\ imports' = imports
    BY <1>6 DEF PrepareInstantiate
  <2>2. TypeOK' /\ CacheInv' /\ StartInv'
    BY <1>1, <1>4, <2>1 DEF TypeOK, CacheInv, StartInv
  <2>3. VisitInv'
    BY <1>4, <2>1 DEF VisitInv
  <2>4. ImportsAreShared'
    BY <1>1, <2>1, SharedUnchanged
  <2> QED
    BY <2>2, <2>3, <2>4
<1>7. CASE next \notin DOMAIN imports
  <2> HIDE DEF S, next, here
  <2>1. stack' = Append(here, Visit(next)) /\ imports' = With(imports, next, <<>>)
    BY <1>7 DEF PrepareInstantiate, next, here
  <2>2. Visit(next) \in S /\ Visit(next).module = next
    BY <1>5 DEF Visit, S
  <2>3. imports \in [DOMAIN imports -> Seq(Module)] /\ DOMAIN imports \subseteq Module
    BY DEF TypeOK
  <2>4. /\ ImportsAreShared'
        /\ DOMAIN imports' = DOMAIN imports \cup {next}
        /\ imports' \in [DOMAIN imports' -> Seq(Module)]
        /\ DOMAIN imports' \subseteq Module
    BY <1>1, <1>5, <1>7, <2>1, <2>3, BeginStep
  <2>5. /\ stack' \in Seq(S) /\ stack' # <<>>
        /\ \A i \in DOMAIN stack' :
             stack'[i] = Visit(next) \/ (i \in DOMAIN here /\ stack'[i] = here[i])
    BY <1>4, <2>1, <2>2
  <2>6. TypeOK' /\ CacheInv' /\ StartInv'
    BY <1>1, <2>4, <2>5 DEF TypeOK, CacheInv, StartInv, S
  <2>7. VisitInv'
    BY <1>4, <2>2, <2>4, <2>5 DEF VisitInv
  <2> QED
    BY <2>4, <2>6, <2>7
<1> QED
  BY <1>6, <1>7

(* The invariant is inductive.                                             *)
LEMMA StepInv == IInv /\ [Next]_vars => IInv'
<1> SUFFICES ASSUME IInv, [Next]_vars PROVE IInv'
  OBVIOUS
<1>1. CASE UNCHANGED vars
  <2>1. TypeOK' /\ CacheInv' /\ VisitInv' /\ StartInv'
    BY <1>1 DEF vars, IInv, TypeOK, CacheInv, VisitInv, StartInv
  <2> QED
    BY <1>1, <2>1, SharedUnchanged DEF vars, IInv
<1>2. ASSUME \/ ResolveFails \/ Evaluate PROVE IInv'
  <2>1. /\ at' \in {"loop", "exited"}
        /\ UNCHANGED <<content, compiled, cache, imports, stack>>
    BY <1>2 DEF ResolveFails, Evaluate
  <2>2. TypeOK' /\ CacheInv' /\ VisitInv' /\ StartInv'
    BY <2>1 DEF IInv, TypeOK, CacheInv, VisitInv, StartInv
  <2> QED
    BY <2>1, <2>2, SharedUnchanged DEF IInv
<1>3. ASSUME ReturnFromVisit PROVE IInv'
  <2>1. /\ at = "linking" /\ stack' = Below
        /\ at' = IF Below = <<>> THEN "linked" ELSE "linking"
        /\ UNCHANGED <<content, compiled, cache, imports>>
    BY <1>3 DEF ReturnFromVisit
  <2>2. Below \in Seq([module : Module, visited : Nat])
    BY <2>1, TopType DEF IInv
  <2>3. VisitInv'
    BY <2>1, TopType DEF IInv, VisitInv
  <2>4. TypeOK'
    BY <2>1, <2>2 DEF IInv, TypeOK
  <2>6. CacheInv' /\ StartInv'
    BY <2>1 DEF IInv, CacheInv, StartInv
  <2>5. ImportsAreShared'
    BY <2>1, SharedUnchanged DEF IInv
  <2> QED
    BY <2>3, <2>4, <2>5, <2>6 DEF IInv
<1> QED
  BY <1>1, <1>2, <1>3, LoadEntryInv, ResolveCachedInv, ResolveNewInv,
     PrepareInstantiateInv DEF Next

LEMMA Invariant == Spec => []IInv
<1> QED
  BY InitInv, StepInv, PTL DEF Spec

(* Every variable keeps its type.                                          *)
THEOREM LoaderTypeCorrect == Spec => []TypeOK
<1>1. IInv => TypeOK
  BY DEF IInv
<1> QED
  BY <1>1, Invariant, PTL

(* Whatever the modules import, by whatever specifiers and in whatever     *)
(* cycles: an import is the one module that was made of its file, and "./" *)
(* means the directory of the importing file.                              *)
THEOREM SharedModules == Spec => []ImportsAreShared
<1>1. IInv => ImportsAreShared
  BY DEF IInv
<1> QED
  BY <1>1, Invariant, PTL
===============================================================================
