--------------------------- MODULE ModuleLoad_proofs ---------------------------
(***************************************************************************)
(* Proofs about loading: the tree of modules and the stack of loaders keep *)
(* their shape, files are loaded in an order that LoadOrder allows, names  *)
(* are resolved to elements of loaded files only, and what is recorded of  *)
(* the imports is what the files say.  For every set of files, whatever    *)
(* they import, declare and use.                                           *)
(***************************************************************************)
EXTENDS ModuleLoad, SequenceTheorems, TLAPS

Paths == Seq(STRING) \ {<<>>}
Calls == [file : Files, name : Names, mods : Seq(Paths), phase : {"import", "define"}]

\* The operators of the model with what the files hold as a parameter.
Space(src, f)    == src[f].namespace
Count(src, f)    == Len(src[f].imports)
Found(src, f, j) == {g \in find_import(src[f].imports[j], f.dir) :
                        g.ext = "lidl" /\ src[g].parses}
Imports(src, f)  == UNION {Found(src, f, j) : j \in 1 .. Count(src, f)}
Reach(src, g, f) == \A S \in SUBSET Files :
                       (g \in S /\ \A x \in S : Imports(src, x) \subseteq S) => f \in S

\* A loader that is under way has modules for the imports before the one it is at.
CallOK(src, im, c) ==
    /\ c.file \in im
    /\ Len(c.mods) <= Count(src, c.file)
    /\ \A j \in 1 .. Len(c.mods) : Found(src, c.file, j) \subseteq im
    /\ c.phase = "define" => Len(c.mods) = Count(src, c.file)

\* c is at the import that d loads.
Waits(src, c, d) ==
    /\ c.phase = "import"
    /\ Len(c.mods) < Count(src, c.file)
    /\ d.file \in Found(src, c.file, Len(c.mods) + 1)

\* The stack is a chain of imports: a loader reaches all that are above it.
StackOK(src, im, cs) ==
    /\ cs \in Seq(Calls)
    /\ \A k \in 1 .. Len(cs) : CallOK(src, im, cs[k])
    /\ \A k \in 1 .. Len(cs) - 1 : Waits(src, cs[k], cs[k + 1])
    /\ \A j, k \in 1 .. Len(cs) : j <= k => Reach(src, cs[j].file, cs[k].file)
    /\ \A j, k \in 1 .. Len(cs) : j # k => cs[j].file # cs[k].file

\* The tree of modules: what is above a path is a module, and so are the namespaces of
\* the files that have a loader.
TreeOK(src, im, sym) ==
    /\ DOMAIN sym \subseteq Paths
    /\ \A p \in DOMAIN sym : \A q \in Prefixes(p) \ {p} : q \in DOMAIN sym /\ sym[q] = <<>>
    /\ \A f \in im : \A q \in Prefixes(Space(src, f)) : q \in DOMAIN sym /\ sym[q] = <<>>

\* The files of a stack, and those of them that have declared their elements.
FilesOf(cs)   == {cs[k].file : k \in 1 .. Len(cs)}
Declaring(cs) == {cs[k].file : k \in {j \in 1 .. Len(cs) : cs[j].phase = "define"}}

\* What is no module is an element, below a module, of a file that has declared its own.
OwnedOK(sym, declared) ==
    \A p \in DOMAIN sym :
        sym[p] = <<>> \/ (Len(p) # 1 /\ \E f \in declared : sym[p] = <<f>>)

\* What a use was bound to is an element of a file that is loaded, a module, or basic.
BoundOK(sym, loaded, bd) ==
    \A r \in bd :
        IF r.to \in DOMAIN sym
        THEN sym[r.to] = <<>> \/ \E f \in loaded : sym[r.to] = <<f>>
        ELSE Len(r.to) = 1

\* The modules that are claimed by a file, marked as imported and have imports.
ClaimsOK(src, im, org, imp, mods) ==
    /\ DOMAIN org = {Space(src, f) : f \in im}
    /\ \A p \in DOMAIN org : org[p] \in im /\ Space(src, org[p]) = p
    /\ imp \subseteq DOMAIN org
    /\ DOMAIN mods \subseteq DOMAIN org

IInv == /\ source \in Sources /\ import_mapping \subseteq Files
        /\ status \in {"start", "loading", "loaded", "no module", "no import", "clash",
                       "unknown name"}
        /\ status = "start" => calls = <<>> /\ import_mapping = {}
        /\ status = "loading" => calls # <<>>
        /\ StackOK(source, import_mapping, calls)
        /\ TreeOK(source, import_mapping, symbols)
        /\ OwnedOK(symbols, (import_mapping \ FilesOf(calls)) \cup Declaring(calls))
        /\ BoundOK(symbols, import_mapping \ FilesOf(calls), bound)
        /\ ClaimsOK(source, import_mapping, origin, imported, imported_modules)

------------------------------------------------------------------------------
\* What a file holds has its type.
LEMMA TextFacts ==
    ASSUME NEW src \in Sources, NEW f \in Files
    PROVE  /\ src[f] \in Texts
           /\ Space(src, f) \in Paths
           /\ Count(src, f) \in Nat
           /\ DOMAIN src[f].imports = 1 .. Count(src, f)
           /\ \A j \in 1 .. Count(src, f) : src[f].imports[j] \in Names
           /\ f.dir \in DOMAIN Listing
<1>1. src \in [Files -> Texts]
    BY ModuleLoadAssumption
<1>2. src[f] \in Texts
    BY <1>1
<1>3. src[f].imports \in Seq(Names) /\ src[f].namespace \in Seq(STRING) \ {<<>>}
    BY <1>2 DEF Texts
<1>4. f.dir \in DOMAIN Listing
    BY ModuleLoadAssumption
<1> QED
    BY <1>2, <1>3, <1>4, LenProperties, ElementOfSeq DEF Space, Paths, Count

\* A directory yields at most one file.
LEMMA SearchFacts ==
    ASSUME NEW dir \in DOMAIN Listing, NEW imp
    PROVE  /\ search_in_path(dir, imp) \subseteq Files
           /\ \A f, g \in search_in_path(dir, imp) : f = g
<1>1. Listing[dir] \in Seq(Files)
    BY ModuleLoadAssumption
<1>2. DOMAIN Listing[dir] = 1 .. Len(Listing[dir]) /\ Len(Listing[dir]) \in Nat
    BY <1>1, LenProperties
<1>3. \A i \in DOMAIN Listing[dir] : Listing[dir][i] \in Files /\ i \in Nat
    BY <1>1, <1>2, ElementOfSeq
<1>4. \A i, j \in DOMAIN Listing[dir] : i <= j /\ j <= i => i = j
    BY <1>2
<1>5. \A f \in search_in_path(dir, imp) :
         \E i \in DOMAIN Listing[dir] :
            /\ f = Listing[dir][i] /\ Listing[dir][i].stem = imp.stem
            /\ imp.ext \in {"", Listing[dir][i].ext}
            /\ \A k \in DOMAIN Listing[dir] :
                  /\ Listing[dir][k].stem = imp.stem
                  /\ imp.ext \in {"", Listing[dir][k].ext}
                  => i <= k
    BY Zenon DEF search_in_path
<1>6. search_in_path(dir, imp) \subseteq Files
    BY <1>3, <1>5
<1>7. ASSUME NEW f \in search_in_path(dir, imp), NEW g \in search_in_path(dir, imp)
      PROVE  f = g
    <2>1. PICK i \in DOMAIN Listing[dir] :
            /\ f = Listing[dir][i] /\ Listing[dir][i].stem = imp.stem
            /\ imp.ext \in {"", Listing[dir][i].ext}
            /\ \A k \in DOMAIN Listing[dir] :
                  /\ Listing[dir][k].stem = imp.stem
                  /\ imp.ext \in {"", Listing[dir][k].ext}
                  => i <= k
        BY <1>5
    <2>2. PICK j \in DOMAIN Listing[dir] :
            /\ g = Listing[dir][j] /\ Listing[dir][j].stem = imp.stem
            /\ imp.ext \in {"", Listing[dir][j].ext}
            /\ \A k \in DOMAIN Listing[dir] :
                  /\ Listing[dir][k].stem = imp.stem
                  /\ imp.ext \in {"", Listing[dir][k].ext}
                  => j <= k
        BY <1>5
    <2>3. i <= j
        BY <2>1, <2>2
    <2>4. j <= i
        BY <2>1, <2>2
    <2> QED
        BY <1>4, <2>1, <2>2, <2>3, <2>4
<1> QED
    BY <1>6, <1>7

\* An import name is at most one file.
LEMMA FindFacts ==
    ASSUME NEW imp \in Names, NEW wd \in DOMAIN Listing
    PROVE  /\ find_import(imp, wd) \subseteq Files
           /\ \A f, g \in find_import(imp, wd) : f = g
<1>1. CASE imp.kind = "absolute"
    <2>1. find_import(imp, wd) =
            {f \in Files : <<f.dir, f.stem, f.ext>> = <<imp.dir, imp.stem, imp.ext>>}
        BY <1>1 DEF find_import
    <2>2. \A f \in Files : f = [dir |-> f.dir, stem |-> f.stem, ext |-> f.ext]
        BY ModuleLoadAssumption
    <2> QED
        BY <2>1, <2>2
<1>2. CASE imp.kind = "relative"
    <2>1. find_import(imp, wd) = search_in_path(wd, imp)
        BY <1>2 DEF find_import
    <2> QED
        BY <2>1, SearchFacts
<1>3. CASE imp.kind = "search"
    <2> DEFINE First == {j \in DOMAIN BasePaths :
                            \A k \in 1 .. j - 1 : search_in_path(BasePaths[k], imp) = {}}
    <2>1. find_import(imp, wd) = UNION {search_in_path(BasePaths[i], imp) : i \in First}
        BY <1>3 DEF find_import
    <2>2. DOMAIN BasePaths = 1 .. Len(BasePaths) /\ Len(BasePaths) \in Nat
        BY ModuleLoadAssumption, LenProperties
    <2>3. \A i \in DOMAIN BasePaths : BasePaths[i] \in DOMAIN Listing
        BY <2>2, ModuleLoadAssumption, ElementOfSeq
    <2>4. find_import(imp, wd) \subseteq Files
        BY <2>1, <2>3, SearchFacts
    <2>5. ASSUME NEW f \in find_import(imp, wd), NEW g \in find_import(imp, wd)
          PROVE  f = g
        <3>1. PICK i \in First : f \in search_in_path(BasePaths[i], imp)
            BY <2>1
        <3>2. PICK j \in First : g \in search_in_path(BasePaths[j], imp)
            BY <2>1
        <3>3. i = j
            <4>1. i \in Nat /\ j \in Nat /\ i >= 1 /\ j >= 1
                BY <2>2
            <4>2. i \notin 1 .. j - 1
                BY <3>1, <3>2
            <4>3. j \notin 1 .. i - 1
                BY <3>1, <3>2
            <4> QED
                BY <4>1, <4>2, <4>3
        <3> QED
            BY <2>3, <3>1, <3>2, <3>3, SearchFacts
    <2> QED
        BY <2>4, <2>5
<1> QED
    BY <1>1, <1>2, <1>3 DEF Names, Kinds

LEMMA FoundFacts ==
    ASSUME NEW src \in Sources, NEW f \in Files, NEW j \in 1 .. Count(src, f)
    PROVE  /\ Found(src, f, j) \subseteq Files
           /\ \A g, h \in Found(src, f, j) : g = h
           /\ Found(src, f, j) \subseteq Imports(src, f)
<1>1. src[f].imports[j] \in Names /\ f.dir \in DOMAIN Listing
    BY TextFacts
<1>2. Found(src, f, j) \subseteq find_import(src[f].imports[j], f.dir)
    BY DEF Found
<1> QED
    BY <1>1, <1>2, FindFacts DEF Imports

\* These are the operators of the model.
LEMMA Meaning ==
    ASSUME source \in Sources, NEW f \in Files
    PROVE  /\ \A j : resolve_import(source[f].imports[j], f.dir) = Found(source, f, j)
           /\ ImportsOf(f) = Imports(source, f)
           /\ Namespace(f) = Space(source, f)
<1>1. \A j : resolve_import(source[f].imports[j], f.dir) = Found(source, f, j)
    BY DEF resolve_import, Found
<1>2. ImportsOf(f) = Imports(source, f)
    BY <1>1, TextFacts DEF ImportsOf, Imports
<1> QED
    BY <1>1, <1>2 DEF Namespace, Space

LEMMA ReachMeaning ==
    ASSUME source \in Sources, NEW g, NEW f
    PROVE  Order!Reaches(g, f) <=> Reach(source, g, f)
<1>1. \A x \in Files : [h \in Files |-> ImportsOf(h)][x] = Imports(source, x)
    BY Meaning
<1>2. \A S \in SUBSET Files :
         (\A x \in S : [h \in Files |-> ImportsOf(h)][x] \subseteq S)
           <=> (\A x \in S : Imports(source, x) \subseteq S)
    BY <1>1
<1> HIDE DEF ImportsOf
<1> QED
    BY <1>2, Zenon DEF Order!Reaches, Reach

LEMMA ReachSelf == ASSUME NEW src, NEW f PROVE Reach(src, f, f)
BY DEF Reach

LEMMA ReachStep ==
    ASSUME NEW src, NEW g, NEW f \in Files, NEW h \in Imports(src, f), Reach(src, g, f)
    PROVE  Reach(src, g, h)
BY DEF Reach

------------------------------------------------------------------------------
LEMMA FilesMeaning ==
    ASSUME NEW cs \in Seq(Calls)
    PROVE  {cs[k].file : k \in DOMAIN cs} = FilesOf(cs)
BY LenProperties DEF FilesOf

\* The files of a stack with one loader more.
LEMMA PushFiles ==
    ASSUME NEW cs \in Seq(Calls), NEW c \in Calls, c.phase = "import"
    PROVE  /\ FilesOf(Append(cs, c)) = FilesOf(cs) \cup {c.file}
           /\ Declaring(Append(cs, c)) = Declaring(cs)
<1> DEFINE t == Append(cs, c)
           n == Len(cs)
<1>1. /\ t \in Seq(Calls) /\ Len(t) = n + 1 /\ t[n + 1] = c /\ n \in Nat
      /\ \A k \in 1 .. n : t[k] = cs[k]
    BY AppendProperties, LenProperties
<1>2. \A k \in 1 .. n + 1 : k \in 1 .. n \/ k = n + 1
    BY <1>1
<1>3. \A k \in 1 .. n : k \in 1 .. n + 1
    BY <1>1
<1>4. n + 1 \in 1 .. n + 1
    BY <1>1
<1> HIDE DEF t, n
<1>5. FilesOf(t) = FilesOf(cs) \cup {c.file}
    BY <1>1, <1>2, <1>3, <1>4 DEF FilesOf, n
<1>6. Declaring(t) = Declaring(cs)
    BY <1>1, <1>2, <1>3 DEF Declaring, n
<1> QED
    BY <1>5, <1>6 DEF t

\* A loader that begins is put on the stack; it is at the import of the one below.
LEMMA Push ==
    ASSUME NEW src \in Sources, NEW im \in SUBSET Files, NEW cs, NEW f \in Files \ im,
           NEW c \in Calls, c.file = f, c.mods = <<>>, c.phase = "import",
           StackOK(src, im, cs), cs = <<>> \/ Waits(src, cs[Len(cs)], c)
    PROVE  StackOK(src, im \cup {f}, Append(cs, c)) /\ Append(cs, c) # <<>>
<1> DEFINE t == Append(cs, c)
           n == Len(cs)
<1>1. c \in Calls /\ c.file = f /\ c.phase = "import" /\ c.mods = <<>>
    OBVIOUS
<1>2. cs \in Seq(Calls) /\ n \in Nat
    BY LenProperties DEF StackOK
<1>3. /\ t \in Seq(Calls) /\ Len(t) = n + 1 /\ t[n + 1] = c
      /\ \A k \in 1 .. n : t[k] = cs[k]
    BY <1>1, <1>2, AppendProperties
<1>4. \A k \in 1 .. n : cs[k] \in Calls /\ cs[k].file \in im
    BY <1>2, ElementOfSeq DEF StackOK, CallOK
<1>5. \A k \in 1 .. Len(t) : k \in 1 .. n \/ k = n + 1
    BY <1>2, <1>3
<1> HIDE DEF t, n
<1>6. \A k \in 1 .. Len(t) : CallOK(src, im \cup {f}, t[k])
    <2>1. \A k \in 1 .. n : CallOK(src, im \cup {f}, t[k])
        BY <1>3 DEF StackOK, CallOK, n
    <2>2. Len(c.mods) = 0 /\ Count(src, f) \in Nat
        BY <1>1, TextFacts
    <2>3. CallOK(src, im \cup {f}, c)
        BY <1>1, <2>2 DEF CallOK
    <2> QED
        BY <1>3, <1>5, <2>1, <2>3
<1>7. \A k \in 1 .. Len(t) - 1 : Waits(src, t[k], t[k + 1])
    <2> TAKE k \in 1 .. Len(t) - 1
    <2>1. k \in 1 .. n
        BY <1>2, <1>3
    <2>2. CASE k = n
        <3>1. cs # <<>> /\ t[k] = cs[n] /\ t[k + 1] = c
            BY <1>2, <1>3, <2>1, <2>2 DEF n
        <3> QED
            BY <3>1 DEF n
    <2>3. CASE k # n
        <3>1. k \in 1 .. n - 1 /\ k + 1 \in 1 .. n
            BY <1>2, <2>1, <2>3
        <3> QED
            BY <1>3, <2>1, <3>1 DEF StackOK, n
    <2> QED
        BY <2>2, <2>3
<1>8. \A j, k \in 1 .. Len(t) : j <= k => Reach(src, t[j].file, t[k].file)
    <2> TAKE j, k \in 1 .. Len(t)
    <2> HAVE j <= k
    <2>1. CASE k \in 1 .. n
        <3>1. j \in 1 .. n
            BY <1>2, <1>3, <2>1
        <3> QED
            BY <1>3, <2>1, <3>1 DEF StackOK, n
    <2>2. CASE k = n + 1 /\ j = n + 1
        BY <1>3, <2>2, ReachSelf
    <2>3. CASE k = n + 1 /\ j \in 1 .. n
        <3>1. n \in 1 .. n /\ j <= n /\ cs # <<>>
            BY <1>2, <2>3 DEF n
        <3>2. Reach(src, cs[j].file, cs[n].file) /\ Waits(src, cs[n], c)
            BY <2>3, <3>1 DEF StackOK, n
        <3>3. cs[n].file \in Files /\ cs[n] \in Calls
            BY <1>4, <3>1 DEF Calls
        <3>4. Len(cs[n].mods) + 1 \in 1 .. Count(src, cs[n].file)
            <4>1. cs[n].mods \in Seq(Paths)
                BY <3>3 DEF Calls
            <4> QED
                BY <3>2, <3>3, <4>1, TextFacts, LenProperties DEF Waits
        <3>5. f \in Imports(src, cs[n].file)
            BY <1>1, <3>2, <3>3, <3>4, FoundFacts DEF Waits
        <3>6. Reach(src, cs[j].file, f)
            BY <3>2, <3>3, <3>5, ReachStep
        <3> QED
            BY <1>1, <1>3, <2>3, <3>6
    <2> QED
        BY <1>5, <2>1, <2>2, <2>3
<1>9. \A j, k \in 1 .. Len(t) : j # k => t[j].file # t[k].file
    <2> TAKE j, k \in 1 .. Len(t)
    <2> HAVE j # k
    <2>1. CASE j \in 1 .. n /\ k \in 1 .. n
        BY <1>3, <2>1 DEF StackOK, n
    <2>2. CASE j = n + 1 \/ k = n + 1
        BY <1>1, <1>3, <1>4, <1>5, <2>2
    <2> QED
        BY <1>5, <2>1, <2>2
<1>10. t # <<>>
    BY <1>2, <1>3
<1>11. StackOK(src, im \cup {f}, t)
    BY <1>3, <1>6, <1>7, <1>8, <1>9 DEF StackOK
<1> QED
    BY <1>10, <1>11 DEF t

\* The last loader of a stack is replaced by one of the same file, or taken off.
LEMMA ReplaceTop ==
    ASSUME NEW src \in Sources, NEW im, NEW cs, NEW t, NEW n, n = Len(cs),
           StackOK(src, im, cs), cs # <<>>,
           t \in Seq(Calls), Len(t) = n, \A k \in 1 .. n - 1 : t[k] = cs[k],
           t[n].file = cs[n].file, CallOK(src, im, t[n])
    PROVE  /\ StackOK(src, im, t) /\ t # <<>>
           /\ FilesOf(t) = FilesOf(cs)
<1>1. cs \in Seq(Calls) /\ n \in Nat /\ n >= 1
    BY LenProperties, EmptySeq DEF StackOK
<1>2. \A k \in 1 .. n : k \in 1 .. n - 1 \/ k = n
    BY <1>1
<1>3. \A k \in 1 .. n : t[k].file = cs[k].file /\ CallOK(src, im, t[k])
    BY <1>1, <1>2 DEF StackOK
<1>4. \A k \in 1 .. n - 1 : Waits(src, t[k], t[k + 1])
    <2> TAKE k \in 1 .. n - 1
    <2>1. Waits(src, cs[k], cs[k + 1]) /\ k + 1 \in 1 .. n
        BY <1>1 DEF StackOK
    <2>2. t[k] = cs[k] /\ t[k + 1].file = cs[k + 1].file
        BY <1>3, <2>1
    <2> QED
        BY <2>1, <2>2 DEF Waits
<1>5. \A j, k \in 1 .. n : j <= k => Reach(src, t[j].file, t[k].file)
    BY <1>3 DEF StackOK
<1>6. \A j, k \in 1 .. n : j # k => t[j].file # t[k].file
    BY <1>3 DEF StackOK
<1>7. StackOK(src, im, t)
    BY <1>3, <1>4, <1>5, <1>6 DEF StackOK
<1>8. FilesOf(t) = FilesOf(cs)
    BY <1>3 DEF FilesOf
<1>9. t # <<>>
    BY <1>1
<1> QED
    BY <1>7, <1>8, <1>9

LEMMA PopFiles ==
    ASSUME NEW cs \in Seq(Calls), cs # <<>>, NEW n, n = Len(cs),
           \A j, k \in 1 .. n : j # k => cs[j].file # cs[k].file
    PROVE  FilesOf(SubSeq(cs, 1, n - 1)) = FilesOf(cs) \ {cs[n].file}
<1> DEFINE t == SubSeq(cs, 1, n - 1)
<1>1. n \in Nat /\ n >= 1
    BY LenProperties, EmptySeq
<1>2. Len(t) = n - 1 /\ \A k \in 1 .. n - 1 : t[k] = cs[k]
    BY <1>1, SubSeqProperties
<1>3. \A k \in 1 .. n : k \in 1 .. n - 1 \/ k = n
    BY <1>1
<1>4. \A k \in 1 .. n - 1 : cs[k].file # cs[n].file
    BY <1>1
<1>5. n \in 1 .. n /\ \A k \in 1 .. n - 1 : k \in 1 .. n
    BY <1>1
<1> HIDE DEF t
<1>6. FilesOf(t) = FilesOf(cs) \ {cs[n].file}
    BY <1>2, <1>3, <1>4, <1>5 DEF FilesOf
<1> QED
    BY <1>6 DEF t

LEMMA Pop ==
    ASSUME NEW src \in Sources, NEW im, NEW cs, NEW n, n = Len(cs),
           StackOK(src, im, cs), cs # <<>>
    PROVE  /\ StackOK(src, im, SubSeq(cs, 1, n - 1))
           /\ Len(SubSeq(cs, 1, n - 1)) = n - 1
           /\ \A k \in 1 .. n - 1 : SubSeq(cs, 1, n - 1)[k] = cs[k]
           /\ n \in Nat /\ n >= 1
<1> DEFINE t == SubSeq(cs, 1, n - 1)
<1>1. cs \in Seq(Calls) /\ n \in Nat /\ n >= 1
    BY LenProperties, EmptySeq DEF StackOK
<1>2. t \in Seq(Calls) /\ Len(t) = n - 1 /\ \A k \in 1 .. n - 1 : t[k] = cs[k]
    BY <1>1, SubSeqProperties
<1>3. \A k \in 1 .. n - 1 : k \in 1 .. n /\ k # n
    BY <1>1
<1>4. \A k \in 1 .. n - 2 : k \in 1 .. n - 1 /\ k + 1 \in 1 .. n - 1
    BY <1>1
<1> HIDE DEF t
<1>5. StackOK(src, im, t)
    <2>1. \A k \in 1 .. n - 1 : CallOK(src, im, t[k])
        BY <1>2, <1>3 DEF StackOK
    <2>2. \A k \in 1 .. (n - 1) - 1 : Waits(src, t[k], t[k + 1])
        BY <1>1, <1>2, <1>4 DEF StackOK
    <2>3. \A j, k \in 1 .. n - 1 : j <= k => Reach(src, t[j].file, t[k].file)
        BY <1>2, <1>3 DEF StackOK
    <2>4. \A j, k \in 1 .. n - 1 : j # k => t[j].file # t[k].file
        <3>1. \A j, k \in 1 .. n : j # k => cs[j].file # cs[k].file
            BY DEF StackOK
        <3>2. ASSUME NEW j \in 1 .. n - 1, NEW k \in 1 .. n - 1, j # k
              PROVE  t[j].file # t[k].file
            <4>1. t[j] = cs[j] /\ t[k] = cs[k] /\ j \in 1 .. n /\ k \in 1 .. n
                BY <1>2, <1>3
            <4> QED
                BY <3>1, <3>2, <4>1
        <3> QED
            BY <3>2
    <2> QED
        BY <1>2, <2>1, <2>2, <2>3, <2>4 DEF StackOK
<1> QED
    BY <1>1, <1>2, <1>5 DEF t

\* t is as cs but for the innermost loader.
SameBelow(t, cs, n) == \A k \in 1 .. n - 1 : t[k] = cs[k]

\* The innermost loader has its next module.
LEMMA AdvanceTop ==
    ASSUME NEW cs \in Seq(Calls), cs # <<>>, NEW path \in Paths,
           NEW t, t = Returned(cs, path), NEW n, n = Len(cs)
    PROVE  /\ n \in 1 .. n /\ cs[n] \in Calls
           /\ t \in Seq(Calls) /\ Len(t) = n
           /\ SameBelow(t, cs, n)
           /\ t[n].file = cs[n].file /\ t[n].phase = cs[n].phase
           /\ t[n].mods = Append(cs[n].mods, path)
           /\ Len(cs[n].mods) \in Nat /\ Len(t[n].mods) = Len(cs[n].mods) + 1
<1> DEFINE c == [cs[n] EXCEPT !.mods = Append(cs[n].mods, path)]
<1>1. n \in Nat /\ n \in 1 .. n
    BY LenProperties, EmptySeq
<1>2. t = [cs EXCEPT ![n] = c]
    BY DEF Returned
<1>3. cs[n] \in Calls
    BY <1>1, ElementOfSeq
<1>4. cs[n].mods \in Seq(Paths)
    BY <1>3 DEF Calls
<1>5. /\ Append(cs[n].mods, path) \in Seq(Paths)
      /\ Len(Append(cs[n].mods, path)) = Len(cs[n].mods) + 1
      /\ Len(cs[n].mods) \in Nat
    BY <1>4, AppendProperties, LenProperties
<1>6. /\ c.file = cs[n].file /\ c.phase = cs[n].phase
      /\ c.mods = Append(cs[n].mods, path) /\ c \in Calls
    BY <1>3, <1>5 DEF Calls
<1> HIDE DEF c
<1>7. /\ t \in Seq(Calls) /\ Len(t) = n /\ t[n] = c
      /\ \A k \in 1 .. n - 1 : t[k] = cs[k]
    BY <1>1, <1>2, <1>6, ExceptSeq
<1>8. /\ t[n].file = cs[n].file /\ t[n].phase = cs[n].phase
      /\ t[n].mods = Append(cs[n].mods, path)
    BY <1>6, <1>7
<1> QED
    BY <1>1, <1>3, <1>5, <1>7, <1>8 DEF SameBelow

LEMMA AdvanceFiles ==
    ASSUME NEW cs \in Seq(Calls), cs # <<>>, NEW path \in Paths
    PROVE  /\ FilesOf(Returned(cs, path)) = FilesOf(cs)
           /\ Declaring(Returned(cs, path)) = Declaring(cs)
           /\ Returned(cs, path) # <<>>
<1> DEFINE t == Returned(cs, path)
           n == Len(cs)
<1>1. /\ n \in 1 .. n /\ t \in Seq(Calls) /\ Len(t) = n
      /\ \A k \in 1 .. n - 1 : t[k] = cs[k]
      /\ t[n].file = cs[n].file /\ t[n].phase = cs[n].phase
    BY AdvanceTop DEF SameBelow
<1>2. n \in Nat
    BY LenProperties
<1> HIDE DEF t, n
<1>3. \A k \in 1 .. n : k \in 1 .. n - 1 \/ k = n
    BY <1>2
<1>4. \A k \in 1 .. n : t[k].phase = cs[k].phase /\ t[k].file = cs[k].file
    BY <1>1, <1>3
<1>5. FilesOf(t) = FilesOf(cs) /\ Declaring(t) = Declaring(cs)
    BY <1>1, <1>4 DEF FilesOf, Declaring, n
<1>6. t # <<>>
    BY <1>1, <1>2
<1> QED
    BY <1>5, <1>6 DEF t

LEMMA Advance ==
    ASSUME NEW src \in Sources, NEW im \in SUBSET Files, NEW cs, NEW n, n = Len(cs),
           StackOK(src, im, cs), cs # <<>>, NEW path \in Paths,
           cs[n].phase = "import", Len(cs[n].mods) < Count(src, cs[n].file),
           Found(src, cs[n].file, Len(cs[n].mods) + 1) \subseteq im,
           NEW t, t = Returned(cs, path)
    PROVE  StackOK(src, im, t)
<1>1. cs \in Seq(Calls)
    BY DEF StackOK
<1>2. /\ n \in 1 .. n /\ cs[n] \in Calls
      /\ t \in Seq(Calls) /\ Len(t) = n
      /\ \A k \in 1 .. n - 1 : t[k] = cs[k]
      /\ t[n].file = cs[n].file /\ t[n].phase = "import"
      /\ t[n].mods = Append(cs[n].mods, path)
      /\ Len(cs[n].mods) \in Nat
      /\ Len(t[n].mods) = Len(cs[n].mods) + 1
    <2>1. t \in Seq(Calls) /\ Len(t) = n
        BY <1>1, AdvanceTop
    <2>2. SameBelow(t, cs, n)
        BY <1>1, <2>1, AdvanceTop
    <2>3. t[n].file = cs[n].file /\ t[n].phase = cs[n].phase
        BY <1>1, AdvanceTop
    <2>4. t[n].mods = Append(cs[n].mods, path) /\ Len(t[n].mods) = Len(cs[n].mods) + 1
        BY <1>1, AdvanceTop
    <2>5. n \in 1 .. n /\ cs[n] \in Calls /\ Len(cs[n].mods) \in Nat
        BY <1>1, AdvanceTop
    <2> QED
        BY <2>1, <2>2, <2>3, <2>4, <2>5 DEF SameBelow
<1>3. CallOK(src, im, t[n])
    <2>1. CallOK(src, im, cs[n])
        BY <1>2 DEF StackOK
    <2>2. cs[n].file \in Files /\ Count(src, cs[n].file) \in Nat
        BY <1>2, TextFacts DEF Calls
    <2>3. \A j \in 1 .. Len(t[n].mods) : j \in 1 .. Len(cs[n].mods) \/ j = Len(cs[n].mods) + 1
        BY <1>2
    <2>4. \A j \in 1 .. Len(t[n].mods) : Found(src, t[n].file, j) \subseteq im
        BY <1>2, <2>1, <2>3 DEF CallOK
    <2>5. Len(t[n].mods) <= Count(src, t[n].file)
        BY <1>2, <2>2
    <2> QED
        BY <1>2, <2>1, <2>4, <2>5 DEF CallOK
<1> QED
    BY <1>2, <1>3, ReplaceTop

\* Below the innermost loader all are at an import.
LEMMA OnlyTopDeclares ==
    ASSUME NEW src \in Sources, NEW im, NEW cs, NEW n, n = Len(cs),
           StackOK(src, im, cs), cs # <<>>
    PROVE  /\ cs[n].phase = "import" => Declaring(cs) = {}
           /\ cs[n].phase = "define" => Declaring(cs) = {cs[n].file}
           /\ Declaring(SubSeq(cs, 1, n - 1)) = {}
<1>1. cs \in Seq(Calls) /\ n \in Nat /\ n \in 1 .. n
    BY LenProperties, EmptySeq DEF StackOK
<1>2. \A k \in 1 .. n - 1 : cs[k].phase = "import"
    BY DEF StackOK, Waits
<1>3. \A k \in 1 .. n : k \in 1 .. n - 1 \/ k = n
    BY <1>1
<1>4. /\ Len(SubSeq(cs, 1, n - 1)) = n - 1
      /\ \A k \in 1 .. n - 1 : SubSeq(cs, 1, n - 1)[k] = cs[k]
    BY Pop
<1> QED
    BY <1>1, <1>2, <1>3, <1>4 DEF Declaring

\* The innermost loader goes over to its define pass.
Defining(cs) == [cs EXCEPT ![Len(cs)].phase = "define"]

LEMMA BeginDefine ==
    ASSUME NEW src \in Sources, NEW im, NEW cs, NEW n, n = Len(cs),
           StackOK(src, im, cs), cs # <<>>,
           Len(cs[n].mods) = Count(src, cs[n].file)
    PROVE  /\ StackOK(src, im, Defining(cs)) /\ Defining(cs) # <<>>
           /\ FilesOf(Defining(cs)) = FilesOf(cs)
           /\ Declaring(Defining(cs)) = {cs[n].file}
<1> DEFINE c == [cs[n] EXCEPT !.phase = "define"]
           t == Defining(cs)
<1>1. cs \in Seq(Calls) /\ n \in Nat /\ n \in 1 .. n
    BY LenProperties, EmptySeq DEF StackOK
<1>2. t = [cs EXCEPT ![n] = c]
    BY DEF Defining
<1>3. cs[n] \in Calls
    BY <1>1, ElementOfSeq
<1>4. c.file = cs[n].file /\ c.phase = "define" /\ c.mods = cs[n].mods /\ c \in Calls
    BY <1>3 DEF Calls
<1> HIDE DEF c
<1>5. /\ t \in Seq(Calls) /\ Len(t) = n /\ t[n] = c
      /\ \A k \in 1 .. n - 1 : t[k] = cs[k]
    BY <1>1, <1>2, <1>4, ExceptSeq
<1> HIDE DEF t
<1>6. CallOK(src, im, c)
    <2>1. CallOK(src, im, cs[n])
        BY <1>1 DEF StackOK
    <2> QED
        BY <1>4, <2>1 DEF CallOK
<1>7. StackOK(src, im, t) /\ t # <<>> /\ FilesOf(t) = FilesOf(cs)
    <2>1. t[n].file = cs[n].file /\ CallOK(src, im, t[n])
        BY <1>4, <1>5, <1>6
    <2> QED
        BY <1>5, <2>1, ReplaceTop
<1>8. Declaring(t) = {cs[n].file}
    <2>1. n = Len(t) /\ t[n].phase = "define" /\ t[n].file = cs[n].file
        BY <1>4, <1>5
    <2> QED
        BY <1>7, <2>1, OnlyTopDeclares
<1> QED
    BY <1>7, <1>8 DEF t

------------------------------------------------------------------------------
\* t is f with the value v for those of S that had none.
Grown(f, t, S, v) == /\ DOMAIN t = DOMAIN f \cup S
                     /\ \A x \in DOMAIN f : t[x] = f[x]
                     /\ \A x \in S \ DOMAIN f : t[x] = v

\* Parts of sequences from their start.
LEMMA Whole == ASSUME NEW S, NEW s \in Seq(S) PROVE SubSeq(s, 1, Len(s)) = s
OBVIOUS

LEMMA PartOfPart ==
    ASSUME NEW S, NEW s \in Seq(S), NEW i \in 1 .. Len(s), NEW j \in 1 .. i
    PROVE  SubSeq(SubSeq(s, 1, i), 1, j) = SubSeq(s, 1, j)
OBVIOUS

LEMMA PartOfLonger ==
    ASSUME NEW S, NEW s \in Seq(S), NEW x \in S
    PROVE  /\ \A i \in 1 .. Len(s) : SubSeq(Append(s, x), 1, i) = SubSeq(s, 1, i)
           /\ SubSeq(Append(s, x), 1, Len(s) + 1) = Append(s, x)
           /\ Append(s, x) # <<>>
OBVIOUS

\* Prefixes of a path, and of one that is a part longer.
LEMMA PrefixFacts ==
    ASSUME NEW p \in Paths
    PROVE  p \in Prefixes(p) /\ \A q \in Prefixes(p) : q \in Paths /\ Prefixes(q) \subseteq Prefixes(p)
<1>1. p \in Seq(STRING) /\ Len(p) \in Nat /\ Len(p) >= 1
    BY EmptySeq, LenProperties DEF Paths
<1>2. p \in Prefixes(p)
    <2>1. SubSeq(p, 1, Len(p)) = p /\ Len(p) \in 1 .. Len(p)
        BY <1>1, Whole
    <2> QED
        BY <2>1 DEF Prefixes
<1>3. ASSUME NEW i \in 1 .. Len(p)
      PROVE  /\ SubSeq(p, 1, i) \in Paths
             /\ \A j \in 1 .. Len(SubSeq(p, 1, i)) : SubSeq(SubSeq(p, 1, i), 1, j) \in Prefixes(p)
    <2>1. SubSeq(p, 1, i) \in Seq(STRING) /\ Len(SubSeq(p, 1, i)) = i
        BY <1>1, SubSeqProperties
    <2>2. SubSeq(p, 1, i) # <<>>
        BY <1>1, <2>1
    <2>3. \A j \in 1 .. i : SubSeq(SubSeq(p, 1, i), 1, j) = SubSeq(p, 1, j) /\ j \in 1 .. Len(p)
        BY <1>1, PartOfPart
    <2> QED
        BY <2>1, <2>2, <2>3 DEF Paths, Prefixes
<1>4. ASSUME NEW q \in Prefixes(p) PROVE q \in Paths /\ Prefixes(q) \subseteq Prefixes(p)
    <2>1. PICK i \in 1 .. Len(p) : q = SubSeq(p, 1, i)
        BY DEF Prefixes
    <2>2. Prefixes(q) = {SubSeq(q, 1, j) : j \in 1 .. Len(q)}
        BY DEF Prefixes
    <2> QED
        BY <1>3, <2>1, <2>2
<1> QED
    BY <1>2, <1>4

LEMMA PrefixAppend ==
    ASSUME NEW p \in Paths, NEW x \in STRING
    PROVE  /\ Append(p, x) \in Paths /\ Len(Append(p, x)) # 1
           /\ Prefixes(Append(p, x)) \ {Append(p, x)} \subseteq Prefixes(p)
<1>1. p \in Seq(STRING) /\ Len(p) \in Nat /\ Len(p) >= 1
    BY EmptySeq, LenProperties DEF Paths
<1>2. Append(p, x) \in Seq(STRING) /\ Len(Append(p, x)) = Len(p) + 1
    BY <1>1, AppendProperties
<1>3. /\ \A i \in 1 .. Len(p) : SubSeq(Append(p, x), 1, i) = SubSeq(p, 1, i)
      /\ SubSeq(Append(p, x), 1, Len(p) + 1) = Append(p, x)
      /\ Append(p, x) # <<>>
    BY <1>1, PartOfLonger
<1>4. \A i \in 1 .. Len(p) + 1 : i \in 1 .. Len(p) \/ i = Len(p) + 1
    BY <1>1
<1>5. Append(p, x) \in Paths /\ Len(Append(p, x)) # 1
    <2>1. Append(p, x) \in Paths
        BY <1>2, <1>3 DEF Paths
    <2>2. Len(Append(p, x)) # 1
        <3> HIDE DEF Paths
        <3> QED
            BY <1>1, <1>2
    <2> QED
        BY <2>1, <2>2
<1>6. ASSUME NEW q \in Prefixes(Append(p, x)), q # Append(p, x)
      PROVE  q \in Prefixes(p)
    <2>1. PICK i \in 1 .. Len(p) + 1 : q = SubSeq(Append(p, x), 1, i)
        BY <1>2 DEF Prefixes
    <2>2. i \in 1 .. Len(p) /\ q = SubSeq(p, 1, i)
        BY <1>3, <1>4, <1>6, <2>1
    <2> QED
        BY <2>2 DEF Prefixes
<1> QED
    BY <1>5, <1>6

\* Making the module of a namespace, where there is room for it, keeps the tree.
LEMMA GrowModules ==
    ASSUME NEW src \in Sources, NEW im \in SUBSET Files, NEW sym, NEW f \in Files, NEW t,
           TreeOK(src, im, sym), Grown(sym, t, Prefixes(Space(src, f)), <<>>),
           \A p \in Prefixes(Space(src, f)) \cap DOMAIN sym : sym[p] = <<>>
    PROVE  TreeOK(src, im \cup {f}, t)
<1> DEFINE P == Prefixes(Space(src, f))
<1>1. Space(src, f) \in Paths
    BY TextFacts
<1>2. \A q \in P : q \in Paths /\ Prefixes(q) \subseteq P
    BY <1>1, PrefixFacts
<1>3. /\ DOMAIN t = DOMAIN sym \cup P
      /\ \A p \in DOMAIN sym : t[p] = sym[p]
      /\ \A p \in P \ DOMAIN sym : t[p] = <<>>
    BY DEF Grown
<1>4. \A p \in P : p \in DOMAIN t /\ t[p] = <<>>
    BY <1>3
<1> HIDE DEF P
<1>5. DOMAIN t \subseteq Paths
    BY <1>2, <1>3 DEF TreeOK
<1>6. ASSUME NEW p \in DOMAIN t, NEW q \in Prefixes(p) \ {p}
      PROVE  q \in DOMAIN t /\ t[q] = <<>>
    <2>1. CASE p \in DOMAIN sym
        BY <1>3, <1>6, <2>1 DEF TreeOK
    <2>2. CASE p \in P
        BY <1>2, <1>4, <1>6, <2>2
    <2> QED
        BY <1>3, <2>1, <2>2
<1>7. ASSUME NEW g \in im \cup {f}, NEW q \in Prefixes(Space(src, g))
      PROVE  q \in DOMAIN t /\ t[q] = <<>>
    <2>1. CASE g \in im
        BY <1>3, <1>7, <2>1 DEF TreeOK
    <2>2. CASE g = f
        BY <1>4, <1>7, <2>2 DEF P
    <2> QED
        BY <2>1, <2>2
<1> QED
    BY <1>5, <1>6, <1>7 DEF TreeOK

\* The paths in E are one part longer than that of the module of f.
Below(src, f, E) == \A p \in E : \E x \in STRING : p = Append(Space(src, f), x)

\* Declaring the elements of a file, where their names are free, keeps it.
LEMMA GrowElements ==
    ASSUME NEW src \in Sources, NEW im \in SUBSET Files, NEW sym, NEW f \in im, NEW E, NEW t,
           TreeOK(src, im, sym), Grown(sym, t, E, <<f>>), E \cap DOMAIN sym = {},
           Below(src, f, E)
    PROVE  TreeOK(src, im, t)
<1>1. Space(src, f) \in Paths
    BY TextFacts
<1>2. \A p \in E : /\ p \in Paths /\ Len(p) # 1
                   /\ Prefixes(p) \ {p} \subseteq Prefixes(Space(src, f))
    BY <1>1, PrefixAppend DEF Below
<1>3. /\ DOMAIN t = DOMAIN sym \cup E
      /\ \A p \in DOMAIN sym : t[p] = sym[p]
      /\ \A p \in E : t[p] = <<f>>
    BY DEF Grown
<1>4. DOMAIN t \subseteq Paths
    BY <1>2, <1>3 DEF TreeOK
<1>5. \A g \in im : \A q \in Prefixes(Space(src, g)) : q \in DOMAIN t /\ t[q] = <<>>
    BY <1>3 DEF TreeOK
<1>6. ASSUME NEW p \in DOMAIN t, NEW q \in Prefixes(p) \ {p}
      PROVE  q \in DOMAIN t /\ t[q] = <<>>
    <2>1. CASE p \in DOMAIN sym
        BY <1>3, <1>6, <2>1 DEF TreeOK
    <2>2. CASE p \in E
        BY <1>2, <1>5, <1>6, <2>2
    <2> QED
        BY <1>3, <2>1, <2>2
<1> QED
    BY <1>4, <1>5, <1>6 DEF TreeOK

\* What is added to the tree disturbs neither owners nor bindings: a name of one part
\* that is not there now will never be an element.
LEMMA GrowKeeps ==
    ASSUME NEW sym, NEW t, NEW declared, NEW loaded, NEW bd, NEW more,
           OwnedOK(sym, declared), BoundOK(sym, loaded, bd), declared \subseteq more,
           \A p \in DOMAIN sym : p \in DOMAIN t /\ t[p] = sym[p],
           \A p \in DOMAIN t \ DOMAIN sym :
              t[p] = <<>> \/ (Len(p) # 1 /\ \E f \in more : t[p] = <<f>>)
    PROVE  OwnedOK(t, more) /\ BoundOK(t, loaded, bd)
<1>1. OwnedOK(t, more)
    <2> SUFFICES ASSUME NEW p \in DOMAIN t
                 PROVE  t[p] = <<>> \/ (Len(p) # 1 /\ \E f \in more : t[p] = <<f>>)
        BY DEF OwnedOK
    <2>1. CASE p \in DOMAIN sym
        BY <2>1 DEF OwnedOK
    <2> QED
        BY <2>1
<1>2. BoundOK(t, loaded, bd)
    <2> SUFFICES ASSUME NEW r \in bd
                 PROVE  IF r.to \in DOMAIN t
                        THEN t[r.to] = <<>> \/ \E f \in loaded : t[r.to] = <<f>>
                        ELSE Len(r.to) = 1
        BY DEF BoundOK
    <2>1. CASE r.to \in DOMAIN sym
        <3>1. sym[r.to] = <<>> \/ \E f \in loaded : sym[r.to] = <<f>>
            BY <2>1 DEF BoundOK
        <3> QED
            BY <2>1, <3>1
    <2>2. CASE r.to \notin DOMAIN sym
        <3>1. Len(r.to) = 1
            BY <2>2 DEF BoundOK
        <3> QED
            BY <2>2, <3>1
    <2> QED
        BY <2>1, <2>2
<1> QED
    BY <1>1, <1>2

LEMMA GrowKeepsAll ==
    ASSUME NEW sym, NEW t, NEW declared, NEW loaded, NEW bd,
           OwnedOK(sym, declared), BoundOK(sym, loaded, bd),
           \A p \in DOMAIN sym : p \in DOMAIN t /\ t[p] = sym[p],
           \A p \in DOMAIN t \ DOMAIN sym : t[p] = <<>>
    PROVE  OwnedOK(t, declared) /\ BoundOK(t, loaded, bd)
<1>1. declared \subseteq declared
    OBVIOUS
<1> QED
    BY <1>1, GrowKeeps

\* A name that is looked up is in the tree or has one part.
LEMMA LookupFacts ==
    ASSUME NEW scope, NEW nm, NEW p \in recursive_full_name_lookup(scope, nm)
    PROVE  p \in DOMAIN symbols \/ Len(p) = 1
<1>1. \/ p = nm /\ Len(nm) = 1
      \/ p \in DOMAIN symbols
    BY Zenon DEF recursive_full_name_lookup
<1> QED
    BY <1>1

------------------------------------------------------------------------------
\* A loader is entered for a file that has none.
LEMMA EnterKeeps ==
    ASSUME IInv, NEW f \in Files \ import_mapping, NEW imp \in Names, Enter(f, imp),
           status' = "loading",
           calls = <<>> \/ (/\ calls[Len(calls)].phase = "import"
                            /\ Len(calls[Len(calls)].mods)
                                  < Count(source, calls[Len(calls)].file)
                            /\ f \in Found(source, calls[Len(calls)].file,
                                           Len(calls[Len(calls)].mods) + 1))
    PROVE  IInv' /\ Loaded' = Loaded
<1> DEFINE c == [file |-> f, name |-> imp, mods |-> <<>>, phase |-> "import"]
<1>1. /\ source \in Sources /\ import_mapping \in SUBSET Files
      /\ f \in Files /\ f \notin import_mapping
      /\ StackOK(source, import_mapping, calls)
      /\ TreeOK(source, import_mapping, symbols)
      /\ OwnedOK(symbols, (import_mapping \ FilesOf(calls)) \cup Declaring(calls))
      /\ BoundOK(symbols, import_mapping \ FilesOf(calls), bound)
      /\ ClaimsOK(source, import_mapping, origin, imported, imported_modules)
    BY DEF IInv
<1>2. Namespace(f) = Space(source, f)
    BY <1>1, Meaning
<1>3. /\ source' = source /\ import_mapping' = import_mapping \cup {f}
      /\ calls' = Append(calls, c)
      /\ Grown(symbols, symbols', Prefixes(Space(source, f)), <<>>)
      /\ DOMAIN origin' = DOMAIN origin \cup {Space(source, f)}
      /\ origin'[Space(source, f)] = f
      /\ \A p \in DOMAIN origin \ {Space(source, f)} : origin'[p] = origin[p]
      /\ imported' = imported /\ imported_modules' = imported_modules /\ bound' = bound
    BY <1>2 DEF Enter, MakeLoader, get_child, ++, Grown
<1>4. \A p \in Prefixes(Space(source, f)) \cap DOMAIN symbols : symbols[p] = <<>>
    BY <1>2 DEF Enter, NoRoom
<1>5. c \in Calls /\ c.file = f /\ c.mods = <<>> /\ c.phase = "import"
    BY DEF Calls
<1> HIDE DEF c
<1>6. calls = <<>> \/ Waits(source, calls[Len(calls)], c)
    BY <1>5 DEF Waits
<1>7. /\ StackOK(source, import_mapping \cup {f}, calls')
      /\ FilesOf(calls') = FilesOf(calls) \cup {f}
      /\ Declaring(calls') = Declaring(calls)
      /\ calls' # <<>>
    <2>1. StackOK(source, import_mapping \cup {f}, Append(calls, c))
        BY <1>1, <1>5, <1>6, Push
    <2>2. Append(calls, c) # <<>>
        BY <1>1, <1>5, <1>6, <2>1, Push
    <2>3. calls \in Seq(Calls)
        BY <1>1 DEF StackOK
    <2>4. /\ FilesOf(Append(calls, c)) = FilesOf(calls) \cup {f}
          /\ Declaring(Append(calls, c)) = Declaring(calls)
        BY <1>5, <2>3, PushFiles
    <2> QED
        BY <1>3, <2>1, <2>2, <2>4
<1>8. (import_mapping \cup {f}) \ FilesOf(calls') = import_mapping \ FilesOf(calls)
    BY <1>7
<1>9. /\ TreeOK(source, import_mapping \cup {f}, symbols')
      /\ OwnedOK(symbols', (import_mapping \ FilesOf(calls)) \cup Declaring(calls))
      /\ BoundOK(symbols', import_mapping \ FilesOf(calls), bound)
      /\ ClaimsOK(source, import_mapping \cup {f}, origin', imported, imported_modules)
    <2>1. TreeOK(source, import_mapping \cup {f}, symbols')
        BY <1>1, <1>3, <1>4, GrowModules
    <2>2. /\ \A p \in DOMAIN symbols : p \in DOMAIN symbols' /\ symbols'[p] = symbols[p]
          /\ \A p \in DOMAIN symbols' \ DOMAIN symbols : symbols'[p] = <<>>
        BY <1>3 DEF Grown
    <2>3. /\ OwnedOK(symbols', (import_mapping \ FilesOf(calls)) \cup Declaring(calls))
          /\ BoundOK(symbols', import_mapping \ FilesOf(calls), bound)
        BY <1>1, <2>2, GrowKeepsAll
    <2>4. ClaimsOK(source, import_mapping \cup {f}, origin', imported, imported_modules)
        BY <1>1, <1>3 DEF ClaimsOK
    <2> QED
        BY <2>1, <2>3, <2>4
<1>10. IInv'
    BY <1>1, <1>3, <1>7, <1>8, <1>9 DEF IInv
<1>11. Loaded' = Loaded
    <2>1. calls \in Seq(Calls) /\ calls' \in Seq(Calls)
        BY <1>1, <1>7 DEF StackOK
    <2>2. Loaded = import_mapping \ FilesOf(calls)
        BY <2>1, FilesMeaning DEF Loaded
    <2>3. Loaded' = import_mapping' \ FilesOf(calls')
        BY <2>1, FilesMeaning DEF Loaded
    <2> QED
        BY <1>3, <1>8, <2>2, <2>3
<1> QED
    BY <1>10, <1>11

\* The innermost loader is at an import.
LEMMA AtImport ==
    ASSUME IInv, status = "loading", Top.phase = "import"
    PROVE  /\ calls # <<>> /\ calls \in Seq(Calls) /\ Len(calls) \in 1 .. Len(calls)
           /\ Top \in Calls /\ Top.file \in Files /\ Top.file \in import_mapping
           /\ Count(source, Top.file) \in Nat
           /\ Len(Top.mods) \in Nat /\ Len(Top.mods) <= Count(source, Top.file)
           /\ Declaring(calls) = {}
<1>1. calls # <<>> /\ StackOK(source, import_mapping, calls) /\ source \in Sources
    BY DEF IInv
<1>2. calls \in Seq(Calls) /\ Len(calls) \in 1 .. Len(calls)
    BY <1>1, LenProperties, EmptySeq DEF StackOK
<1>3. Top \in Calls
    BY <1>2, ElementOfSeq DEF Top
<1>4. CallOK(source, import_mapping, Top)
    BY <1>1, <1>2 DEF StackOK, Top
<1>5. Top.file \in Files /\ Top.mods \in Seq(Paths)
    BY <1>3 DEF Calls
<1>6. Declaring(calls) = {}
    BY <1>1, OnlyTopDeclares DEF Top
<1> QED
    BY <1>1, <1>2, <1>3, <1>4, <1>5, <1>6, TextFacts, LenProperties DEF CallOK

LEMMA ImportIsFound ==
    ASSUME IInv, Importing
    PROVE  /\ Len(Top.mods) < Count(source, Top.file)
           /\ NextImport \in Names
           /\ resolve_import(NextImport, Top.file.dir)
                 = Found(source, Top.file, Len(Top.mods) + 1)
           /\ \A g, h \in Found(source, Top.file, Len(Top.mods) + 1) : g = h
           /\ Found(source, Top.file, Len(Top.mods) + 1) \subseteq Files
<1>1. /\ Top.file \in Files /\ Len(Top.mods) \in Nat /\ source \in Sources
      /\ Count(source, Top.file) \in Nat /\ Len(Top.mods) < Count(source, Top.file)
    BY AtImport DEF Importing, IInv, Count
<1>2. Len(Top.mods) + 1 \in 1 .. Count(source, Top.file)
    BY <1>1
<1>3. NextImport = source[Top.file].imports[Len(Top.mods) + 1]
    BY DEF NextImport
<1> HIDE DEF Top
<1> QED
    BY <1>1, <1>2, <1>3, TextFacts, Meaning, FoundFacts

LEMMA ImportNewKeeps ==
    ASSUME IInv, ImportNew
    PROVE  IInv' /\ Loaded' = Loaded
<1>1. PICK f \in resolve_import(NextImport, Top.file.dir) \ import_mapping :
         Enter(f, NextImport)
    BY DEF ImportNew
<1>2. Importing /\ status' = "loading" /\ Top.phase = "import"
    BY DEF ImportNew, Importing
<1>3. /\ NextImport \in Names /\ f \in Found(source, Top.file, Len(Top.mods) + 1)
      /\ f \in Files \ import_mapping
      /\ Len(Top.mods) < Count(source, Top.file)
    BY <1>1, <1>2, ImportIsFound
<1> QED
    BY <1>1, <1>2, <1>3, EnterKeeps DEF Top

LEMMA ImportMainKeeps ==
    ASSUME IInv, ImportMain
    PROVE  IInv' /\ Loaded' = Loaded
<1>1. PICK f \in resolve_import(MainName, MainName.dir) : Enter(f, MainName)
    BY DEF ImportMain
<1>2. status = "start" /\ status' = "loading"
    BY DEF ImportMain
<1>3. MainName \in Names /\ MainName.dir \in DOMAIN Listing
    BY ModuleLoadAssumption
<1>4. f \in Files
    BY <1>3, FindFacts DEF resolve_import
<1>5. calls = <<>> /\ import_mapping = {}
    BY <1>2 DEF IInv
<1> QED
    BY <1>1, <1>2, <1>3, <1>4, <1>5, EnterKeeps

\* An import of a file that has a loader, perhaps one that is on the stack.
LEMMA ImportKnownKeeps ==
    ASSUME IInv, ImportKnown
    PROVE  IInv' /\ Loaded' = Loaded
<1>1. PICK f \in resolve_import(NextImport, Top.file.dir) \cap import_mapping :
         ~NoRoom(Namespace(f)) /\ MakeLoader(f) /\ Known(f)
    BY DEF ImportKnown
<1>2. Importing /\ status = "loading" /\ Top.phase = "import"
    BY DEF ImportKnown, Importing
<1>3. /\ source \in Sources /\ import_mapping \in SUBSET Files
      /\ StackOK(source, import_mapping, calls)
      /\ TreeOK(source, import_mapping, symbols)
      /\ OwnedOK(symbols, (import_mapping \ FilesOf(calls)) \cup Declaring(calls))
      /\ BoundOK(symbols, import_mapping \ FilesOf(calls), bound)
      /\ ClaimsOK(source, import_mapping, origin, imported, imported_modules)
    BY DEF IInv
<1>4. /\ f \in Files /\ f \in import_mapping
      /\ Found(source, Top.file, Len(Top.mods) + 1) \subseteq import_mapping
      /\ Len(Top.mods) < Count(source, Top.file)
    BY <1>1, <1>2, <1>3, ImportIsFound
<1>5. Namespace(f) = Space(source, f) /\ Space(source, f) \in Paths
    BY <1>3, <1>4, Meaning, TextFacts
<1>6. /\ source' = source /\ import_mapping' = import_mapping /\ status' = status
      /\ bound' = bound /\ imported_modules' = imported_modules
      /\ calls' = Returned(calls, Space(source, f))
      /\ imported' = imported \cup {Space(source, f)}
      /\ Grown(symbols, symbols', Prefixes(Space(source, f)), <<>>)
      /\ DOMAIN origin' = DOMAIN origin \cup {Space(source, f)}
      /\ origin'[Space(source, f)] = f
      /\ \A p \in DOMAIN origin \ {Space(source, f)} : origin'[p] = origin[p]
    BY <1>1, <1>5 DEF ImportKnown, MakeLoader, get_child, Known, ++, Grown
<1>7. \A p \in Prefixes(Space(source, f)) \cap DOMAIN symbols : symbols[p] = <<>>
    BY <1>1, <1>5 DEF NoRoom
<1>8. /\ StackOK(source, import_mapping, calls') /\ calls' # <<>>
      /\ FilesOf(calls') = FilesOf(calls) /\ Declaring(calls') = Declaring(calls)
    <2>1. calls # <<>> /\ calls \in Seq(Calls)
        BY <1>2, AtImport
    <2>2. StackOK(source, import_mapping, calls')
        BY <1>2, <1>3, <1>4, <1>5, <1>6, <2>1, Advance DEF Top
    <2>3. /\ FilesOf(Returned(calls, Space(source, f))) = FilesOf(calls)
          /\ Declaring(Returned(calls, Space(source, f))) = Declaring(calls)
          /\ Returned(calls, Space(source, f)) # <<>>
        BY <1>5, <2>1, AdvanceFiles
    <2> QED
        BY <1>6, <2>2, <2>3
<1>9. import_mapping \cup {f} = import_mapping
    BY <1>4
<1>10. TreeOK(source, import_mapping, symbols')
    <2>1. TreeOK(source, import_mapping \cup {f}, symbols')
        BY <1>3, <1>4, <1>6, <1>7, GrowModules
    <2> QED
        BY <1>9, <2>1
<1>11. /\ \A p \in DOMAIN symbols : p \in DOMAIN symbols' /\ symbols'[p] = symbols[p]
       /\ \A p \in DOMAIN symbols' \ DOMAIN symbols : symbols'[p] = <<>>
    BY <1>6 DEF Grown
<1>12. /\ OwnedOK(symbols', (import_mapping \ FilesOf(calls)) \cup Declaring(calls))
       /\ BoundOK(symbols', import_mapping \ FilesOf(calls), bound)
    BY <1>3, <1>11, GrowKeepsAll
<1>13. ClaimsOK(source, import_mapping, origin', imported', imported_modules)
    BY <1>3, <1>4, <1>6 DEF ClaimsOK
<1>14. IInv'
    BY <1>2, <1>3, <1>6, <1>8, <1>10, <1>12, <1>13 DEF IInv
<1>15. Loaded' = Loaded
    <2>1. calls \in Seq(Calls) /\ calls' \in Seq(Calls)
        BY <1>3, <1>8 DEF StackOK
    <2>2. Loaded = import_mapping \ FilesOf(calls)
        BY <2>1, FilesMeaning DEF Loaded
    <2>3. Loaded' = import_mapping' \ FilesOf(calls')
        BY <2>1, FilesMeaning DEF Loaded
    <2> QED
        BY <1>6, <1>8, <2>2, <2>3
<1> QED
    BY <1>14, <1>15

\* The declare pass: the elements of the innermost file are added to the tree.
LEMMA DeclareKeeps ==
    ASSUME IInv, Declare
    PROVE  IInv' /\ Loaded' = Loaded
<1> DEFINE f == Top.file
<1>1. /\ source \in Sources /\ import_mapping \in SUBSET Files
      /\ StackOK(source, import_mapping, calls)
      /\ TreeOK(source, import_mapping, symbols)
      /\ OwnedOK(symbols, (import_mapping \ FilesOf(calls)) \cup Declaring(calls))
      /\ BoundOK(symbols, import_mapping \ FilesOf(calls), bound)
      /\ ClaimsOK(source, import_mapping, origin, imported, imported_modules)
    BY DEF IInv
<1>2. status = "loading" /\ Top.phase = "import" /\ Len(Top.mods) = Count(source, Top.file)
    BY DEF Declare, AllImported, Count
<1>3. /\ f \in Files /\ f \in import_mapping /\ calls # <<>> /\ calls \in Seq(Calls)
      /\ Len(calls) \in 1 .. Len(calls) /\ Declaring(calls) = {}
    BY <1>1, <1>2, AtImport
<1>4. Namespace(f) = Space(source, f)
    BY <1>1, <1>3, Meaning
<1>5. /\ source' = source /\ import_mapping' = import_mapping /\ status' = status
      /\ bound' = bound /\ origin' = origin /\ imported' = imported
      /\ calls' = Defining(calls)
      /\ Grown(symbols, symbols', Elements(f), <<f>>)
      /\ DOMAIN imported_modules' = DOMAIN imported_modules \cup {Space(source, f)}
      /\ Elements(f) \cap DOMAIN symbols = {}
    BY <1>4 DEF Declare, Defining, ++, Grown
<1>6. Below(source, f, Elements(f))
    <2>1. source[f].elements \in Seq(STRING)
        BY <1>1, <1>3, TextFacts DEF Texts
    <2>2. \A i \in DOMAIN source[f].elements : source[f].elements[i] \in STRING
        BY <2>1, LenProperties, ElementOfSeq
    <2> QED
        BY <1>4, <2>2 DEF Elements, Below
<1> HIDE DEF f
<1>7. /\ StackOK(source, import_mapping, calls') /\ calls' # <<>>
      /\ FilesOf(calls') = FilesOf(calls) /\ Declaring(calls') = {f}
    <2> DEFINE n == Len(calls)
    <2>1. Len(calls[n].mods) = Count(source, calls[n].file) /\ f = calls[n].file
        BY <1>2 DEF Top, f
    <2> HIDE DEF n
    <2>2. n = Len(calls)
        BY DEF n
    <2>3. StackOK(source, import_mapping, calls') /\ calls' # <<>>
        BY <1>1, <1>3, <1>5, <2>1, <2>2, BeginDefine
    <2>4. FilesOf(calls') = FilesOf(calls)
        BY <1>1, <1>3, <1>5, <2>1, <2>2, <2>3, BeginDefine
    <2>5. Declaring(calls') = {calls[n].file}
        BY <1>1, <1>3, <1>5, <2>1, <2>2, <2>3, BeginDefine
    <2> QED
        BY <2>1, <2>3, <2>4, <2>5
<1>8. TreeOK(source, import_mapping, symbols')
    BY <1>1, <1>3, <1>5, <1>6, GrowElements
<1>9. /\ \A p \in DOMAIN symbols : p \in DOMAIN symbols' /\ symbols'[p] = symbols[p]
      /\ \A p \in DOMAIN symbols' \ DOMAIN symbols : symbols'[p] = <<f>> /\ Len(p) # 1
    <2>1. Space(source, f) \in Paths
        BY <1>1, <1>3, TextFacts
    <2>2. \A p \in Elements(f) : Len(p) # 1
        BY <1>6, <2>1, PrefixAppend DEF Below
    <2> QED
        BY <1>5, <2>2 DEF Grown
<1>10. /\ OwnedOK(symbols', (import_mapping \ FilesOf(calls)) \cup {f})
       /\ BoundOK(symbols', import_mapping \ FilesOf(calls), bound)
    <2> DEFINE L == import_mapping \ FilesOf(calls)
    <2>1. OwnedOK(symbols, L) /\ BoundOK(symbols, L, bound)
        BY <1>1, <1>3
    <2>2. L \subseteq L \cup {f} /\ f \in L \cup {f}
        OBVIOUS
    <2> HIDE DEF L
    <2>3. OwnedOK(symbols', L \cup {f}) /\ BoundOK(symbols', L, bound)
        BY <1>9, <2>1, <2>2, GrowKeeps
    <2> QED
        BY <2>3 DEF L
<1>11. ClaimsOK(source, import_mapping, origin, imported, imported_modules')
    BY <1>1, <1>3, <1>5 DEF ClaimsOK
<1>12. IInv'
    BY <1>1, <1>2, <1>5, <1>7, <1>8, <1>10, <1>11 DEF IInv
<1>13. Loaded' = Loaded
    <2>1. calls \in Seq(Calls) /\ calls' \in Seq(Calls)
        BY <1>1, <1>7 DEF StackOK
    <2>2. Loaded = import_mapping \ FilesOf(calls)
        BY <2>1, FilesMeaning DEF Loaded
    <2>3. Loaded' = import_mapping' \ FilesOf(calls')
        BY <2>1, FilesMeaning DEF Loaded
    <2> QED
        BY <1>5, <1>7, <2>2, <2>3
<1> QED
    BY <1>12, <1>13

\* A loader that stops, and a step that changes nothing.
LEMMA StopKeeps ==
    ASSUME IInv, NEW how \in {"no module", "no import", "clash", "unknown name"}, Stop(how)
    PROVE  IInv' /\ Loaded' = Loaded
BY DEF IInv, Stop, Loaded

LEMMA StutterKeeps ==
    ASSUME IInv, UNCHANGED vars
    PROVE  IInv' /\ Loaded' = Loaded
BY DEF IInv, vars, Loaded

\* The stack the define pass leaves: the innermost loader is gone, and the one below it
\* has its module.
LEMMA ReturnKeeps ==
    ASSUME NEW src \in Sources, NEW im \in SUBSET Files, NEW cs, NEW n, n = Len(cs),
           StackOK(src, im, cs), cs # <<>>, NEW rest, rest = SubSeq(cs, 1, n - 1),
           rest # <<>>, NEW path \in Paths, NEW t, t = Returned(rest, path)
    PROVE  StackOK(src, im, t)
<1>1. /\ StackOK(src, im, rest) /\ Len(rest) = n - 1 /\ n \in Nat /\ n >= 1
      /\ \A k \in 1 .. n - 1 : rest[k] = cs[k]
    <2>1. StackOK(src, im, SubSeq(cs, 1, n - 1))
        BY Pop
    <2>2. Len(SubSeq(cs, 1, n - 1)) = n - 1 /\ n \in Nat /\ n >= 1
        BY Pop
    <2>3. \A k \in 1 .. n - 1 : SubSeq(cs, 1, n - 1)[k] = cs[k]
        BY Pop
    <2> QED
        BY <2>1, <2>2, <2>3
<1>2. n - 1 \in 1 .. n - 1 /\ (n - 1) + 1 = n
    <2>1. rest \in Seq(Calls)
        BY <1>1 DEF StackOK
    <2>2. Len(rest) # 0
        BY <2>1, EmptySeq
    <2> QED
        BY <1>1, <2>2
<1>3. Waits(src, rest[n - 1], cs[n]) /\ CallOK(src, im, cs[n])
    <2>1. Waits(src, cs[n - 1], cs[(n - 1) + 1]) /\ CallOK(src, im, cs[n])
        BY <1>1, <1>2 DEF StackOK
    <2> QED
        BY <1>1, <1>2, <2>1
<1> DEFINE k == n - 1
           c == rest[k]
<1>4. /\ c.phase = "import" /\ Len(c.mods) < Count(src, c.file)
      /\ cs[n].file \in Found(src, c.file, Len(c.mods) + 1) /\ cs[n].file \in im
    BY <1>3 DEF Waits, CallOK
<1>5. c.file \in Files /\ c.mods \in Seq(Paths)
    <2>1. rest \in Seq(Calls)
        BY <1>1 DEF StackOK
    <2> QED
        BY <1>1, <1>2, <2>1, ElementOfSeq DEF Calls
<1>6. Len(c.mods) + 1 \in 1 .. Count(src, c.file)
    BY <1>4, <1>5, LenProperties, TextFacts
<1>7. Found(src, c.file, Len(c.mods) + 1) \subseteq im
    BY <1>4, <1>5, <1>6, FoundFacts
<1>8. k = Len(rest)
    BY <1>1
<1> HIDE DEF k
<1> QED
    BY <1>1, <1>4, <1>7, <1>8, Advance

\* What a use is bound to, when its file has declared its elements.
LEMMA BoundByLookup ==
    ASSUME NEW loaded, OwnedOK(symbols, loaded),
           NEW scope, NEW nm, NEW p \in recursive_full_name_lookup(scope, nm)
    PROVE  IF p \in DOMAIN symbols
           THEN symbols[p] = <<>> \/ \E f \in loaded : symbols[p] = <<f>>
           ELSE Len(p) = 1
BY LookupFacts DEF OwnedOK

\* The facts of a define pass, in terms of the operators above.
LEMMA DefineFacts ==
    ASSUME IInv, Define, NEW f, f = Top.file, NEW rest, rest = SubSeq(calls, 1, Len(calls) - 1)
    PROVE  /\ calls # <<>> /\ Len(calls) \in 1 .. Len(calls)
           /\ f \in Files /\ f \in import_mapping /\ f \in FilesOf(calls)
           /\ f = calls[Len(calls)].file
           /\ Declaring(calls) = {f} /\ Declaring(rest) = {}
           /\ FilesOf(rest) = FilesOf(calls) \ {f}
           /\ StackOK(source, import_mapping, rest)
           /\ Namespace(f) = Space(source, f) /\ Space(source, f) \in Paths
           /\ Len(Top.mods) = Count(source, f)
           /\ \A j \in 1 .. Count(source, f) : Found(source, f, j) \subseteq import_mapping
<1>1. /\ source \in Sources /\ StackOK(source, import_mapping, calls) /\ calls # <<>>
      /\ Top.phase = "define"
    BY DEF IInv, Define
<1>2. calls \in Seq(Calls) /\ Len(calls) \in 1 .. Len(calls)
    BY <1>1, LenProperties, EmptySeq DEF StackOK
<1>3. Top \in Calls /\ CallOK(source, import_mapping, Top)
    BY <1>1, <1>2, ElementOfSeq DEF StackOK, Top
<1>4. f \in Files /\ f \in import_mapping
    BY <1>3 DEF Calls, CallOK
<1>5. /\ Len(Top.mods) = Count(source, f)
      /\ \A j \in 1 .. Count(source, f) : Found(source, f, j) \subseteq import_mapping
    BY <1>1, <1>3 DEF CallOK
<1>6. f = calls[Len(calls)].file /\ f \in FilesOf(calls)
    BY <1>2 DEF FilesOf, Top
<1>7. Declaring(calls) = {f} /\ Declaring(rest) = {}
    <2>1. Declaring(calls) = {calls[Len(calls)].file}
        BY <1>1, OnlyTopDeclares DEF Top
    <2>2. Declaring(SubSeq(calls, 1, Len(calls) - 1)) = {}
        BY <1>1, OnlyTopDeclares
    <2> QED
        BY <1>6, <2>1, <2>2
<1>8. FilesOf(rest) = FilesOf(calls) \ {f} /\ StackOK(source, import_mapping, rest)
    <2>1. StackOK(source, import_mapping, SubSeq(calls, 1, Len(calls) - 1))
        BY <1>1, Pop
    <2>2. FilesOf(SubSeq(calls, 1, Len(calls) - 1)) = FilesOf(calls) \ {calls[Len(calls)].file}
        BY <1>1, <1>2, PopFiles DEF StackOK
    <2> QED
        BY <1>6, <2>1, <2>2
<1>9. Namespace(f) = Space(source, f) /\ Space(source, f) \in Paths
    BY <1>1, <1>4, Meaning, TextFacts
<1> QED
    BY <1>1, <1>2, <1>4, <1>5, <1>6, <1>7, <1>8, <1>9

\* After the define pass its file is loaded.
LEMMA DefineKeeps ==
    ASSUME IInv, Define
    PROVE  IInv' /\ Loaded' = Loaded \cup {Top.file}
<1> DEFINE f == Top.file
           rest == SubSeq(calls, 1, Len(calls) - 1)
           L == import_mapping \ FilesOf(calls)
<1>1. /\ source \in Sources /\ import_mapping \in SUBSET Files
      /\ StackOK(source, import_mapping, calls)
      /\ TreeOK(source, import_mapping, symbols)
      /\ OwnedOK(symbols, (import_mapping \ FilesOf(calls)) \cup Declaring(calls))
      /\ BoundOK(symbols, import_mapping \ FilesOf(calls), bound)
      /\ ClaimsOK(source, import_mapping, origin, imported, imported_modules)
    BY DEF IInv
<1>2. /\ calls # <<>>
      /\ f \in Files /\ f \in import_mapping /\ f \in FilesOf(calls)
      /\ Declaring(calls) = {f} /\ Declaring(rest) = {}
      /\ FilesOf(rest) = FilesOf(calls) \ {f}
      /\ StackOK(source, import_mapping, rest)
      /\ Namespace(f) = Space(source, f) /\ Space(source, f) \in Paths
    BY DefineFacts
<1>3. /\ source' = source /\ import_mapping' = import_mapping /\ symbols' = symbols
      /\ origin' = origin /\ imported_modules' = imported_modules
      /\ bound' = bound \cup
            UNION {{[file |-> f, use |-> source[f].uses[i], to |-> p] :
                       p \in recursive_full_name_lookup(Namespace(f), source[f].uses[i])} :
                   i \in DOMAIN source[f].uses}
      /\ \/ rest = <<>> /\ calls' = rest /\ status' = "loaded" /\ imported' = imported
         \/ /\ rest # <<>> /\ calls' = Returned(rest, Space(source, f))
            /\ imported' = imported \cup {Space(source, f)}
            /\ status' = "loading"
    BY <1>2 DEF Define
<1> HIDE DEF f
<1>4. rest = SubSeq(calls, 1, Len(calls) - 1)
    OBVIOUS
<1> HIDE DEF rest
<1>5. /\ StackOK(source, import_mapping, calls') /\ FilesOf(calls') = FilesOf(rest)
      /\ Declaring(calls') = {} /\ (status' = "loading" => calls' # <<>>)
      /\ status' \in {"loaded", "loading"}
    <2>1. CASE rest = <<>> /\ calls' = rest /\ status' = "loaded"
        BY <1>2, <2>1
    <2>2. CASE rest # <<>> /\ calls' = Returned(rest, Space(source, f)) /\ status' = "loading"
        <3>1. rest \in Seq(Calls)
            BY <1>2 DEF StackOK
        <3>2. StackOK(source, import_mapping, calls')
            BY <1>1, <1>2, <1>4, <2>2, ReturnKeeps
        <3>3. /\ FilesOf(calls') = FilesOf(rest) /\ Declaring(calls') = Declaring(rest)
              /\ calls' # <<>>
            BY <1>2, <2>2, <3>1, AdvanceFiles
        <3> QED
            BY <1>2, <2>2, <3>2, <3>3
    <2> QED
        BY <1>3, <2>1, <2>2
<1>6. import_mapping \ FilesOf(calls') = L \cup {f}
    BY <1>2, <1>5
<1>7. OwnedOK(symbols, L \cup {f})
    BY <1>1, <1>2
<1> HIDE DEF L
<1>8. BoundOK(symbols, L \cup {f}, bound')
    <2> SUFFICES ASSUME NEW r \in bound'
                 PROVE  IF r.to \in DOMAIN symbols
                        THEN \/ symbols[r.to] = <<>>
                             \/ \E g \in L \cup {f} : symbols[r.to] = <<g>>
                        ELSE Len(r.to) = 1
        BY DEF BoundOK
    <2>1. CASE r \in bound
        BY <1>1, <2>1 DEF BoundOK, L
    <2>2. CASE r \notin bound
        <3>1. PICK i \in DOMAIN source[f].uses :
                 r \in {[file |-> f, use |-> source[f].uses[i], to |-> p] :
                           p \in recursive_full_name_lookup(Namespace(f), source[f].uses[i])}
            BY <1>3, <2>2
        <3>2. r.to \in recursive_full_name_lookup(Namespace(f), source[f].uses[i])
            BY <3>1
        <3> QED
            BY <1>7, <3>2, BoundByLookup
    <2> QED
        BY <2>1, <2>2
<1>9. ClaimsOK(source, import_mapping, origin, imported', imported_modules)
    <2>1. Space(source, f) \in DOMAIN origin
        BY <1>1, <1>2 DEF ClaimsOK
    <2> QED
        BY <1>1, <1>3, <2>1 DEF ClaimsOK
<1>10. IInv'
    <2>1. OwnedOK(symbols, (import_mapping \ FilesOf(calls')) \cup Declaring(calls'))
        BY <1>5, <1>6, <1>7
    <2> QED
        BY <1>1, <1>3, <1>5, <1>6, <1>8, <1>9, <2>1 DEF IInv
<1>11. Loaded' = Loaded \cup {f}
    <2>1. calls \in Seq(Calls) /\ calls' \in Seq(Calls)
        BY <1>1, <1>5 DEF StackOK
    <2>2. Loaded = L
        BY <2>1, FilesMeaning DEF Loaded, L
    <2>3. Loaded' = import_mapping' \ FilesOf(calls')
        BY <2>1, FilesMeaning DEF Loaded
    <2> QED
        BY <1>3, <1>6, <2>2, <2>3
<1> QED
    BY <1>10, <1>11 DEF f

------------------------------------------------------------------------------
\* What the define pass finishes may be loaded: what its file imports is loaded, or
\* still on the stack and so leads to the file.
LEMMA DefineLoads ==
    ASSUME IInv, Define
    PROVE  Order!Load(Top.file)
<1> DEFINE f == Top.file
           L == import_mapping \ FilesOf(calls)
<1>1. source \in Sources /\ StackOK(source, import_mapping, calls)
    BY DEF IInv
<1>2. /\ f \in Files /\ f \in import_mapping /\ f \in FilesOf(calls)
      /\ Len(calls) \in 1 .. Len(calls) /\ f = calls[Len(calls)].file
      /\ \A j \in 1 .. Count(source, f) : Found(source, f, j) \subseteq import_mapping
    BY DefineFacts
<1>3. Loaded = L
    BY <1>1, FilesMeaning DEF Loaded, StackOK
<1>4. Loaded' = Loaded \cup {f} /\ source' = source
    BY DefineKeeps DEF Define
<1> HIDE DEF f
<1>5. ASSUME NEW g \in Imports(source, f), g \notin L
      PROVE  Order!Reaches(g, f)
    <2>1. g \in import_mapping
        BY <1>2, <1>5 DEF Imports
    <2>2. g \in FilesOf(calls)
        BY <1>5, <2>1
    <2>3. PICK k \in 1 .. Len(calls) : g = calls[k].file
        BY <2>2 DEF FilesOf
    <2>4. k <= Len(calls)
        BY <1>2
    <2>5. Reach(source, calls[k].file, calls[Len(calls)].file)
        BY <1>1, <1>2, <2>4 DEF StackOK
    <2> QED
        BY <1>1, <1>2, <2>3, <2>5, ReachMeaning
<1>6. [h \in Files |-> ImportsOf(h)][f] = Imports(source, f)
    BY <1>1, <1>2, Meaning
<1>7. [h \in Files |-> ImportsOf(h)]' = [h \in Files |-> ImportsOf(h)]
    BY <1>4 DEF ImportsOf, resolve_import
<1>8. f \notin Loaded
    BY <1>2, <1>3
<1> HIDE DEF ImportsOf
<1>9. \A g \in [h \in Files |-> ImportsOf(h)][f] : g \in Loaded \/ Order!Reaches(g, f)
    BY <1>3, <1>5, <1>6
<1> QED
    BY <1>4, <1>7, <1>8, <1>9 DEF Order!Load, f

\* Any step of the loader.
LEMMA StepKeeps ==
    ASSUME IInv, [Next]_vars
    PROVE  IInv' /\ (Loaded' = Loaded \/ Order!Next)
<1>1. CASE Define
    <2>1. Top.file \in Files
        BY <1>1, DefineFacts
    <2>2. Order!Load(Top.file)
        BY <1>1, DefineLoads
    <2> QED
        BY <1>1, <2>1, <2>2, DefineKeeps DEF Order!Next
<1>2. CASE ImportMain
    BY <1>2, ImportMainKeeps
<1>3. CASE ImportNew
    BY <1>3, ImportNewKeeps
<1>4. CASE ImportKnown
    BY <1>4, ImportKnownKeeps
<1>5. CASE Declare
    BY <1>5, DeclareKeeps
<1>6. CASE NoMain \/ ImportFails \/ ImportClashes \/ DeclareClashes \/ DefineFails
    <2>1. \E how \in {"no module", "no import", "clash", "unknown name"} : Stop(how)
        BY <1>6 DEF NoMain, ImportFails, ImportClashes, DeclareClashes, DefineFails
    <2> QED
        BY <2>1, StopKeeps
<1>7. CASE UNCHANGED vars
    BY <1>7, StutterKeeps
<1> QED
    BY <1>1, <1>2, <1>3, <1>4, <1>5, <1>6, <1>7 DEF Next

LEMMA InitHolds == Init => IInv
<1> SUFFICES ASSUME Init PROVE IInv
    OBVIOUS
<1>1. StackOK({}, {}, <<>>)
    BY DEF StackOK
<1> QED
    BY <1>1 DEF Init, IInv, StackOK, FilesOf, Declaring, TreeOK, OwnedOK, BoundOK, ClaimsOK

LEMMA Invariant == Spec => []IInv
<1>1. IInv /\ [Next]_vars => IInv'
    BY StepKeeps
<1> QED
    BY InitHolds, <1>1, PTL DEF Spec

\* TypeOK of the model: the tree keeps its shape whatever the files declare, and no file
\* is on the stack of loaders twice.
THEOREM Safe == Spec => []TypeOK
<1>1. IInv => TypeOK
    <2> SUFFICES ASSUME IInv PROVE TypeOK
        OBVIOUS
    <2>1. /\ StackOK(source, import_mapping, calls)
          /\ TreeOK(source, import_mapping, symbols)
          /\ OwnedOK(symbols, (import_mapping \ FilesOf(calls)) \cup Declaring(calls))
          /\ ClaimsOK(source, import_mapping, origin, imported, imported_modules)
          /\ source \in Sources /\ import_mapping \subseteq Files
        BY DEF IInv
    <2>2. \A i \in DOMAIN calls : i \in 1 .. Len(calls) /\ calls[i] \in Calls
        BY <2>1, LenProperties, ElementOfSeq DEF StackOK
    <2>3. \A i, j \in DOMAIN calls :
            /\ calls[i].file \in import_mapping
            /\ calls[i].phase \in {"import", "define"}
            /\ i # j => calls[i].file # calls[j].file
        BY <2>1, <2>2 DEF StackOK, CallOK, Calls
    <2>4. Declaring(calls) \subseteq import_mapping
        BY <2>1, <2>2 DEF StackOK, CallOK, Declaring
    <2>5. \A p \in DOMAIN symbols :
             /\ symbols[p] = <<>> \/ symbols[p] \in {<<f>> : f \in import_mapping}
             /\ \A q \in Prefixes(p) \ {p} : q \in DOMAIN symbols /\ symbols[q] = <<>>
        BY <2>1, <2>4 DEF OwnedOK, TreeOK
    <2>6. \A f \in import_mapping : Namespace(f) = Space(source, f)
        BY DEF Namespace, Space
    <2>7. /\ DOMAIN origin = {Namespace(f) : f \in import_mapping}
          /\ \A p \in DOMAIN origin : origin[p] \in import_mapping /\ Namespace(origin[p]) = p
          /\ imported \subseteq DOMAIN origin
          /\ DOMAIN imported_modules \subseteq DOMAIN origin
        BY <2>1, <2>6 DEF ClaimsOK
    <2> QED
        BY <2>1, <2>3, <2>5, <2>7 DEF TypeOK, IInv
<1> QED
    BY Invariant, <1>1, PTL

\* Names are resolved to elements of loaded files, modules and basic names only.
THEOREM BoundAreOfLoaded == Spec => []BoundAreLoaded
<1>1. IInv => BoundAreLoaded
    <2> SUFFICES ASSUME IInv, NEW r \in bound, r.to \in DOMAIN symbols, symbols[r.to] # <<>>
                 PROVE  symbols[r.to][1] \in Loaded
        BY DEF BoundAreLoaded
    <2>1. \E f \in import_mapping \ FilesOf(calls) : symbols[r.to] = <<f>>
        BY DEF IInv, BoundOK
    <2>2. Loaded = import_mapping \ FilesOf(calls)
        BY FilesMeaning DEF IInv, StackOK, Loaded
    <2> QED
        BY <2>1, <2>2
<1> QED
    BY Invariant, <1>1, PTL

\* Loading implements LoadOrder: a file is loaded once and after what it imports, but for
\* what imports it back.
THEOREM LoadsInOrder == Spec => OrderSpec
<1>1. Init => Order!Init
    <2> SUFFICES ASSUME Init PROVE Order!Init
        OBVIOUS
    <2>1. source \in Sources /\ Loaded = {}
        BY DEF Init, Loaded
    <2>2. \A f \in Files : ImportsOf(f) \subseteq Files
        <3>1. \A f \in Files : Imports(source, f) \subseteq Files
            BY <2>1, FoundFacts DEF Imports
        <3> QED
            BY <2>1, <3>1, Meaning
    <2> HIDE DEF ImportsOf
    <2> QED
        BY <2>1, <2>2 DEF Order!Init
<1>2. IInv /\ [Next]_vars
         => [Order!Next]_<<[f \in Files |-> ImportsOf(f)], Loaded>>
    <2> SUFFICES ASSUME IInv, [Next]_vars
                 PROVE  Order!Next \/ UNCHANGED <<[f \in Files |-> ImportsOf(f)], Loaded>>
        OBVIOUS
    <2>1. source' = source
        BY DEF Next, vars, ImportMain, NoMain, ImportNew, ImportKnown, ImportFails,
               ImportClashes, Declare, DeclareClashes, Define, DefineFails, Enter, Stop
    <2>2. [f \in Files |-> ImportsOf(f)]' = [f \in Files |-> ImportsOf(f)]
        BY <2>1 DEF ImportsOf, resolve_import
    <2> QED
        BY <2>2, StepKeeps
<1> QED
    BY Invariant, <1>1, <1>2, PTL DEF Spec, OrderSpec, Order!Spec

------------------------------------------------------------------------------
\* The modules a loader has are those of its imports, and are marked.
Given(src, imp, c) ==
    \A j \in 1 .. Len(c.mods) :
       \E g \in Found(src, c.file, j) : c.mods[j] = Space(src, g) /\ Space(src, g) \in imp

\* What a loaded file imports is marked, and nothing else is.
MarksOK(src, im, loaded, cs, imp) ==
    /\ \A k \in 1 .. Len(cs) : Given(src, imp, cs[k])
    /\ \A f \in loaded : \A g \in Imports(src, f) : g \in im /\ Space(src, g) \in imp
    /\ \A p \in imp : \E f \in im : \E g \in Imports(src, f) : p = Space(src, g)

\* No two files share a namespace.
Alone(src, im) == \A f, g \in im : Space(src, f) = Space(src, g) => f = g

\* mods are the modules of the imports of f.
Recorded(src, im, f, mods) ==
    /\ Len(mods) = Count(src, f)
    /\ \A j \in 1 .. Count(src, f) :
          \E g \in Found(src, f, j) : g \in im /\ mods[j] = Space(src, g)

RecordsOK(src, im, declared, mods) ==
    Alone(src, im) =>
        \A f \in declared : /\ Space(src, f) \in DOMAIN mods
                            /\ mods[Space(src, f)] \in Seq(Paths)
                            /\ Recorded(src, im, f, mods[Space(src, f)])

MInv == /\ status = "loaded" => calls = <<>>
        /\ MarksOK(source, import_mapping, import_mapping \ FilesOf(calls), calls, imported)
        /\ RecordsOK(source, import_mapping,
                     (import_mapping \ FilesOf(calls)) \cup Declaring(calls), imported_modules)

LEMMA PushMarks ==
    ASSUME NEW src, NEW im, NEW more, im \subseteq more, NEW loaded, NEW imp,
           NEW cs \in Seq(Calls), NEW c \in Calls, c.mods = <<>>,
           MarksOK(src, im, loaded, cs, imp)
    PROVE  MarksOK(src, more, loaded, Append(cs, c), imp)
<1> DEFINE t == Append(cs, c)
           n == Len(cs)
<1>1. /\ Len(t) = n + 1 /\ t[n + 1] = c /\ n \in Nat
      /\ \A k \in 1 .. n : t[k] = cs[k]
    BY AppendProperties, LenProperties
<1>2. \A k \in 1 .. n + 1 : k \in 1 .. n \/ k = n + 1
    BY <1>1
<1> HIDE DEF t
<1>3. Given(src, imp, c)
    BY DEF Given
<1>4. \A k \in 1 .. n : Given(src, imp, cs[k])
    BY DEF MarksOK
<1> HIDE DEF n
<1>5. \A k \in 1 .. Len(t) : Given(src, imp, t[k])
    BY <1>1, <1>2, <1>3, <1>4
<1>6. MarksOK(src, more, loaded, t, imp)
    BY <1>5 DEF MarksOK
<1> QED
    BY <1>6 DEF t

\* The innermost loader has the module of its next import.
LEMMA AdvanceMarks ==
    ASSUME NEW src \in Sources, NEW im, NEW loaded, NEW imp,
           NEW cs \in Seq(Calls), cs # <<>>, NEW n, n = Len(cs),
           NEW g, g \in Found(src, cs[n].file, Len(cs[n].mods) + 1), cs[n].file \in im,
           Len(cs[n].mods) < Count(src, cs[n].file),
           NEW path \in Paths, path = Space(src, g), NEW t, t = Returned(cs, path),
           MarksOK(src, im, loaded, cs, imp)
    PROVE  MarksOK(src, im, loaded, t, imp \cup {path})
<1> DEFINE more == imp \cup {path}
           m == Len(cs[n].mods)
<1>1. t \in Seq(Calls) /\ Len(t) = n /\ \A k \in 1 .. n - 1 : t[k] = cs[k]
    <2>1. t \in Seq(Calls) /\ Len(t) = n
        BY AdvanceTop
    <2>2. SameBelow(t, cs, n)
        BY <2>1, AdvanceTop
    <2> QED
        BY <2>1, <2>2 DEF SameBelow
<1>2. t[n].file = cs[n].file
    BY AdvanceTop
<1>3. t[n].mods = Append(cs[n].mods, path) /\ Len(t[n].mods) = Len(cs[n].mods) + 1
    BY AdvanceTop
<1>4. n \in 1 .. n /\ cs[n] \in Calls /\ Len(cs[n].mods) \in Nat
    BY AdvanceTop
<1>5. cs[n].mods \in Seq(Paths) /\ cs[n].file \in Files
    BY <1>4 DEF Calls
<1>6. m \in Nat /\ m + 1 \in 1 .. Count(src, cs[n].file)
    BY <1>4, <1>5, TextFacts
<1>7. /\ t[n].mods[m + 1] = path
      /\ \A j \in 1 .. m : t[n].mods[j] = cs[n].mods[j]
    BY <1>3, <1>5, AppendProperties
<1> HIDE DEF m
<1>8. \A k \in 1 .. n : Given(src, more, cs[k])
    BY DEF MarksOK, Given
<1>9. Given(src, more, t[n])
    <2> SUFFICES ASSUME NEW j \in 1 .. Len(t[n].mods)
                 PROVE  \E h \in Found(src, t[n].file, j) :
                           t[n].mods[j] = Space(src, h) /\ Space(src, h) \in more
        BY DEF Given
    <2>1. CASE j = m + 1
        BY <1>2, <1>7, <2>1 DEF m
    <2>2. CASE j \in 1 .. m
        <3>1. \E h \in Found(src, cs[n].file, j) :
                 cs[n].mods[j] = Space(src, h) /\ Space(src, h) \in more
            BY <1>4, <1>8, <2>2 DEF Given, m
        <3> QED
            BY <1>2, <1>7, <2>2, <3>1
    <2>3. j \in 1 .. m \/ j = m + 1
        BY <1>3, <1>6 DEF m
    <2> QED
        BY <2>1, <2>2, <2>3
<1>10. \A k \in 1 .. n : k \in 1 .. n - 1 \/ k = n
    BY <1>4, LenProperties
<1>11. \A k \in 1 .. Len(t) : Given(src, more, t[k])
    BY <1>1, <1>8, <1>9, <1>10
<1>12. g \in Imports(src, cs[n].file)
    BY <1>5, <1>6, FoundFacts DEF m
<1>13. /\ \A f \in loaded : \A h \in Imports(src, f) : h \in im /\ Space(src, h) \in more
       /\ \A p \in more : \E f \in im : \E h \in Imports(src, f) : p = Space(src, h)
    BY <1>12 DEF MarksOK
<1> HIDE DEF more
<1>14. MarksOK(src, im, loaded, t, more)
    BY <1>11, <1>13 DEF MarksOK
<1> QED
    BY <1>14 DEF more

\* The innermost loader has all its modules: its file may count as loaded.
LEMMA PopMarks ==
    ASSUME NEW src \in Sources, NEW im \in SUBSET Files, NEW loaded, NEW imp,
           NEW cs, cs # <<>>, NEW n, n = Len(cs), StackOK(src, im, cs),
           Len(cs[n].mods) = Count(src, cs[n].file),
           NEW t, t = SubSeq(cs, 1, n - 1),
           MarksOK(src, im, loaded, cs, imp)
    PROVE  MarksOK(src, im, loaded \cup {cs[n].file}, t, imp)
<1>1. cs \in Seq(Calls) /\ n \in Nat /\ n \in 1 .. n
    BY LenProperties, EmptySeq DEF StackOK
<1>2. Len(t) = n - 1 /\ \A k \in 1 .. n - 1 : t[k] = cs[k]
    BY <1>1, SubSeqProperties
<1>3. \A k \in 1 .. n : Given(src, imp, cs[k])
    BY DEF MarksOK
<1>4. \A k \in 1 .. n - 1 : k \in 1 .. n
    BY <1>1
<1>5. \A k \in 1 .. Len(t) : Given(src, imp, t[k])
    BY <1>2, <1>3, <1>4
<1>6. CallOK(src, im, cs[n]) /\ Given(src, imp, cs[n]) /\ cs[n].file \in Files
    <2>1. CallOK(src, im, cs[n]) /\ Given(src, imp, cs[n])
        BY <1>1, <1>3 DEF StackOK
    <2>2. cs[n] \in Calls
        BY <1>1, ElementOfSeq
    <2> QED
        BY <2>1, <2>2 DEF Calls
<1>7. ASSUME NEW g \in Imports(src, cs[n].file)
      PROVE  g \in im /\ Space(src, g) \in imp
    <2>1. PICK j \in 1 .. Count(src, cs[n].file) : g \in Found(src, cs[n].file, j)
        BY DEF Imports
    <2>2. \E h \in Found(src, cs[n].file, j) : Space(src, h) \in imp
        BY <1>6, <2>1 DEF Given
    <2>3. \A h \in Found(src, cs[n].file, j) : h = g
        BY <1>6, <2>1, FoundFacts
    <2> QED
        BY <1>6, <2>1, <2>2, <2>3 DEF CallOK
<1> QED
    BY <1>5, <1>7 DEF MarksOK

LEMMA RecordsGrow ==
    ASSUME NEW src, NEW im, NEW more, im \subseteq more, NEW declared, NEW mods,
           RecordsOK(src, im, declared, mods)
    PROVE  RecordsOK(src, more, declared, mods)
BY DEF RecordsOK, Alone, Recorded

\* The imports of a file are recorded: where no two files share a namespace those of
\* the other files stay.
LEMMA RecordsDeclare ==
    ASSUME NEW src, NEW im, NEW declared, declared \subseteq im, NEW f \in im, NEW mods,
           NEW more, NEW own \in Seq(Paths), Recorded(src, im, f, own),
           DOMAIN more = DOMAIN mods \cup {Space(src, f)}, more[Space(src, f)] = own,
           \A p \in DOMAIN mods \ {Space(src, f)} : more[p] = mods[p],
           RecordsOK(src, im, declared, mods)
    PROVE  RecordsOK(src, im, declared \cup {f}, more)
<1> SUFFICES ASSUME Alone(src, im), NEW h \in declared \cup {f}
             PROVE  /\ Space(src, h) \in DOMAIN more
                    /\ more[Space(src, h)] \in Seq(Paths)
                    /\ Recorded(src, im, h, more[Space(src, h)])
    BY DEF RecordsOK
<1>1. CASE h = f
    BY <1>1
<1>2. CASE h # f
    <2>1. h \in declared /\ Space(src, h) # Space(src, f)
        BY <1>2 DEF Alone
    <2>2. /\ Space(src, h) \in DOMAIN mods
          /\ mods[Space(src, h)] \in Seq(Paths)
          /\ Recorded(src, im, h, mods[Space(src, h)])
        BY <2>1 DEF RecordsOK
    <2>3. more[Space(src, h)] = mods[Space(src, h)]
        BY <2>1, <2>2
    <2> QED
        BY <2>2, <2>3
<1> QED
    BY <1>1, <1>2

LEMMA EnterMarks ==
    ASSUME IInv, MInv, NEW f \in Files \ import_mapping, NEW nm \in Names, Enter(f, nm),
           status' = "loading"
    PROVE  MInv'
<1> DEFINE c == [file |-> f, name |-> nm, mods |-> <<>>, phase |-> "import"]
           L == import_mapping \ FilesOf(calls)
<1>1. /\ MarksOK(source, import_mapping, L, calls, imported)
      /\ RecordsOK(source, import_mapping, L \cup Declaring(calls), imported_modules)
      /\ calls \in Seq(Calls)
    BY DEF MInv, IInv, StackOK
<1>2. /\ source' = source /\ import_mapping' = import_mapping \cup {f}
      /\ calls' = Append(calls, c)
      /\ imported' = imported /\ imported_modules' = imported_modules
    BY DEF Enter
<1>3. c \in Calls /\ c.file = f /\ c.mods = <<>> /\ c.phase = "import"
    BY DEF Calls
<1> HIDE DEF c
<1>4. FilesOf(calls') = FilesOf(calls) \cup {f} /\ Declaring(calls') = Declaring(calls)
    <2>1. /\ FilesOf(Append(calls, c)) = FilesOf(calls) \cup {f}
          /\ Declaring(Append(calls, c)) = Declaring(calls)
        BY <1>1, <1>3, PushFiles
    <2> QED
        BY <1>2, <2>1
<1>5. (import_mapping \cup {f}) \ FilesOf(calls') = L
    BY <1>4
<1> HIDE DEF L
<1>6. import_mapping \subseteq import_mapping \cup {f}
    OBVIOUS
<1>7. MarksOK(source, import_mapping \cup {f}, L, Append(calls, c), imported)
    BY <1>1, <1>3, <1>6, PushMarks
<1>8. RecordsOK(source, import_mapping \cup {f}, L \cup Declaring(calls), imported_modules)
    BY <1>1, <1>6, RecordsGrow
<1> QED
    BY <1>2, <1>4, <1>5, <1>7, <1>8 DEF MInv

LEMMA KnownMarks ==
    ASSUME IInv, MInv, ImportKnown
    PROVE  MInv'
<1> DEFINE L == import_mapping \ FilesOf(calls)
           n == Len(calls)
<1>1. /\ MarksOK(source, import_mapping, L, calls, imported)
      /\ RecordsOK(source, import_mapping, L \cup Declaring(calls), imported_modules)
      /\ source \in Sources
    BY DEF MInv, IInv
<1>2. PICK f \in resolve_import(NextImport, Top.file.dir) \cap import_mapping :
         ~NoRoom(Namespace(f)) /\ MakeLoader(f) /\ Known(f)
    BY DEF ImportKnown
<1>3. Importing /\ status = "loading" /\ Top.phase = "import"
    BY DEF ImportKnown, Importing
<1>4. /\ f \in Files /\ f \in Found(source, Top.file, Len(Top.mods) + 1)
      /\ Len(Top.mods) < Count(source, Top.file)
      /\ Top.file \in import_mapping /\ calls # <<>> /\ calls \in Seq(Calls)
    BY <1>1, <1>2, <1>3, ImportIsFound, AtImport DEF IInv
<1>5. Namespace(f) = Space(source, f) /\ Space(source, f) \in Paths
    BY <1>1, <1>4, Meaning, TextFacts
<1>6. /\ source' = source /\ import_mapping' = import_mapping /\ status' = status
      /\ imported_modules' = imported_modules
      /\ calls' = Returned(calls, Space(source, f))
      /\ imported' = imported \cup {Space(source, f)}
    BY <1>2, <1>5 DEF ImportKnown, Known
<1>7. FilesOf(calls') = FilesOf(calls) /\ Declaring(calls') = Declaring(calls)
    <2>1. /\ FilesOf(Returned(calls, Space(source, f))) = FilesOf(calls)
          /\ Declaring(Returned(calls, Space(source, f))) = Declaring(calls)
        BY <1>4, <1>5, AdvanceFiles
    <2> QED
        BY <1>6, <2>1
<1>8. import_mapping \ FilesOf(calls') = L
    BY <1>7
<1> HIDE DEF L
<1>9. Top = calls[n] /\ n = Len(calls)
    BY DEF Top
<1> HIDE DEF n
<1>10. MarksOK(source, import_mapping, L, calls', imported \cup {Space(source, f)})
    BY <1>1, <1>4, <1>5, <1>6, <1>9, AdvanceMarks
<1> QED
    BY <1>1, <1>3, <1>6, <1>7, <1>8, <1>10 DEF MInv

LEMMA DeclareMarks ==
    ASSUME IInv, MInv, Declare
    PROVE  MInv'
<1> DEFINE f == Top.file
           L == import_mapping \ FilesOf(calls)
           n == Len(calls)
<1>1. /\ MarksOK(source, import_mapping, L, calls, imported)
      /\ RecordsOK(source, import_mapping, L \cup Declaring(calls), imported_modules)
      /\ source \in Sources /\ StackOK(source, import_mapping, calls)
    BY DEF MInv, IInv
<1>2. status = "loading" /\ Top.phase = "import" /\ Len(Top.mods) = Count(source, Top.file)
    BY DEF Declare, AllImported, Count
<1>3. /\ f \in Files /\ f \in import_mapping /\ calls # <<>> /\ calls \in Seq(Calls)
      /\ Len(calls) \in 1 .. Len(calls) /\ Declaring(calls) = {} /\ Top \in Calls
    BY <1>1, <1>2, AtImport
<1>4. Namespace(f) = Space(source, f)
    BY <1>1, <1>3, Meaning
<1>5. /\ source' = source /\ import_mapping' = import_mapping /\ status' = status
      /\ imported' = imported /\ calls' = Defining(calls)
      /\ DOMAIN imported_modules' = DOMAIN imported_modules \cup {Space(source, f)}
      /\ imported_modules'[Space(source, f)] = Top.mods
      /\ \A p \in DOMAIN imported_modules \ {Space(source, f)} :
            imported_modules'[p] = imported_modules[p]
    BY <1>4 DEF Declare, Defining, ++
<1>6. /\ Len(calls') = n /\ FilesOf(calls') = FilesOf(calls) /\ Declaring(calls') = {f}
      /\ \A k \in 1 .. n : calls'[k].file = calls[k].file /\ calls'[k].mods = calls[k].mods
    <2>1. Len(calls[n].mods) = Count(source, calls[n].file) /\ f = calls[n].file
        BY <1>2 DEF Top
    <2>2. \A k \in 1 .. n : calls[k] \in Calls
        BY <1>3, ElementOfSeq
    <2>3. /\ Len(calls') = n
          /\ \A k \in 1 .. n : calls'[k].file = calls[k].file /\ calls'[k].mods = calls[k].mods
        BY <1>3, <1>5, <2>2 DEF Defining, Calls
    <2> HIDE DEF n, f
    <2>4. n = Len(calls)
        BY DEF n
    <2>5. StackOK(source, import_mapping, calls')
        BY <1>1, <1>3, <1>5, <2>1, <2>4, BeginDefine
    <2>6. FilesOf(calls') = FilesOf(calls)
        BY <1>1, <1>3, <1>5, <2>1, <2>4, <2>5, BeginDefine
    <2>7. Declaring(calls') = {calls[n].file}
        BY <1>1, <1>3, <1>5, <2>1, <2>4, <2>5, BeginDefine
    <2> QED
        BY <2>1, <2>3, <2>6, <2>7
<1>7. Recorded(source, import_mapping, f, Top.mods) /\ Top.mods \in Seq(Paths)
    <2>1. Given(source, imported, Top) /\ CallOK(source, import_mapping, Top)
        BY <1>1, <1>3 DEF MarksOK, StackOK, Top
    <2>2. Top.mods \in Seq(Paths)
        BY <1>3 DEF Calls
    <2> QED
        BY <1>2, <2>1, <2>2 DEF Given, CallOK, Recorded
<1> HIDE DEF f
<1>8. L \cup Declaring(calls) = L /\ L \subseteq import_mapping
    BY <1>3
<1>9. (import_mapping \ FilesOf(calls')) \cup Declaring(calls') = L \cup {f}
    BY <1>6
<1>10. import_mapping \ FilesOf(calls') = L
    BY <1>6
<1> HIDE DEF L
<1>11. RecordsOK(source, import_mapping, L \cup {f}, imported_modules')
    <2>1. RecordsOK(source, import_mapping, L, imported_modules)
        BY <1>1, <1>8
    <2> QED
        BY <1>3, <1>5, <1>7, <1>8, <2>1, RecordsDeclare
<1>12. MarksOK(source, import_mapping, L, calls', imported)
    BY <1>1, <1>6 DEF MarksOK, Given
<1> QED
    BY <1>2, <1>5, <1>9, <1>10, <1>11, <1>12 DEF MInv

LEMMA DefineMarks ==
    ASSUME IInv, MInv, Define
    PROVE  MInv'
<1> DEFINE f == Top.file
           rest == SubSeq(calls, 1, Len(calls) - 1)
           L == import_mapping \ FilesOf(calls)
           n == Len(calls)
<1>1. /\ MarksOK(source, import_mapping, L, calls, imported)
      /\ RecordsOK(source, import_mapping, L \cup Declaring(calls), imported_modules)
      /\ source \in Sources /\ import_mapping \in SUBSET Files
      /\ StackOK(source, import_mapping, calls)
    BY DEF MInv, IInv
<1>2. /\ calls # <<>> /\ f \in FilesOf(calls) /\ f \in import_mapping
      /\ f = calls[n].file /\ Len(calls[n].mods) = Count(source, calls[n].file)
      /\ Declaring(calls) = {f} /\ Declaring(rest) = {}
      /\ FilesOf(rest) = FilesOf(calls) \ {f}
      /\ StackOK(source, import_mapping, rest)
      /\ Namespace(f) = Space(source, f) /\ Space(source, f) \in Paths
    BY DefineFacts DEF Top
<1>3. /\ source' = source /\ import_mapping' = import_mapping
      /\ imported_modules' = imported_modules
      /\ \/ rest = <<>> /\ calls' = rest /\ status' = "loaded" /\ imported' = imported
         \/ /\ rest # <<>> /\ calls' = Returned(rest, Space(source, f))
            /\ imported' = imported \cup {Space(source, f)}
            /\ status' = "loading"
    BY <1>2 DEF Define
<1> HIDE DEF f
<1>4. rest = SubSeq(calls, 1, n - 1) /\ n = Len(calls)
    OBVIOUS
<1>5. L \cup {f} = import_mapping \ FilesOf(rest)
    BY <1>2
<1>6. (L \cup {f}) \cup {} = L \cup Declaring(calls) /\ (L \cup {f}) \cup {} = L \cup {f}
    BY <1>2
<1> HIDE DEF rest, n, L
<1>7. MarksOK(source, import_mapping, L \cup {f}, rest, imported)
    <2>1. MarksOK(source, import_mapping, L \cup {calls[n].file}, rest, imported)
        BY <1>1, <1>2, <1>4, PopMarks
    <2> QED
        BY <1>2, <2>1
<1>8. CASE rest = <<>> /\ calls' = rest /\ status' = "loaded" /\ imported' = imported
    BY <1>1, <1>2, <1>3, <1>5, <1>6, <1>7, <1>8 DEF MInv
<1>9. CASE /\ rest # <<>> /\ calls' = Returned(rest, Space(source, f))
           /\ imported' = imported \cup {Space(source, f)}
           /\ status' = "loading"
    <2> DEFINE m == Len(rest)
               d == rest[m]
    <2>1. rest \in Seq(Calls) /\ m \in 1 .. m /\ m = n - 1 /\ n \in Nat /\ n - 1 \in 1 .. n - 1
        <3>1. rest \in Seq(Calls)
            BY <1>2 DEF StackOK
        <3>2. m \in Nat /\ m # 0
            BY <1>9, <3>1, LenProperties, EmptySeq
        <3>3. Len(SubSeq(calls, 1, n - 1)) = n - 1 /\ n \in Nat
            BY <1>1, <1>2, <1>4, Pop
        <3> QED
            BY <1>4, <3>1, <3>2, <3>3
    <2>2. d = calls[n - 1] /\ Waits(source, calls[n - 1], calls[(n - 1) + 1]) /\ (n - 1) + 1 = n
        <3>1. \A k \in 1 .. n - 1 : SubSeq(calls, 1, n - 1)[k] = calls[k]
            BY <1>1, <1>2, <1>4, Pop
        <3>2. Waits(source, calls[n - 1], calls[(n - 1) + 1])
            BY <1>1, <1>4, <2>1 DEF StackOK
        <3> QED
            BY <1>4, <2>1, <3>1, <3>2
    <2> HIDE DEF m
    <2>3. m = Len(rest)
        BY DEF m
    <2>4. /\ f \in Found(source, rest[m].file, Len(rest[m].mods) + 1)
          /\ Len(rest[m].mods) < Count(source, rest[m].file)
        BY <1>2, <2>2 DEF Waits
    <2>5. rest[m].file \in import_mapping
        BY <1>2, <2>1, <2>3 DEF StackOK, CallOK
    <2>6. MarksOK(source, import_mapping, L \cup {f}, calls', imported \cup {Space(source, f)})
        BY <1>1, <1>2, <1>7, <1>9, <2>1, <2>3, <2>4, <2>5, AdvanceMarks
    <2>7. FilesOf(calls') = FilesOf(rest) /\ Declaring(calls') = {}
        <3>1. /\ FilesOf(Returned(rest, Space(source, f))) = FilesOf(rest)
              /\ Declaring(Returned(rest, Space(source, f))) = Declaring(rest)
            BY <1>2, <1>9, <2>1, AdvanceFiles
        <3> QED
            BY <1>2, <1>9, <3>1
    <2> QED
        BY <1>1, <1>2, <1>3, <1>5, <1>6, <1>9, <2>6, <2>7 DEF MInv
<1> QED
    BY <1>3, <1>8, <1>9

LEMMA StepMarks ==
    ASSUME IInv, MInv, [Next]_vars
    PROVE  MInv'
<1>1. CASE Define
    BY <1>1, DefineMarks
<1>2. CASE ImportMain
    <2>1. PICK f \in resolve_import(MainName, MainName.dir) : Enter(f, MainName)
        BY <1>2 DEF ImportMain
    <2>2. MainName \in Names /\ MainName.dir \in DOMAIN Listing
        BY ModuleLoadAssumption
    <2>3. f \in Files \ import_mapping
        <3>1. import_mapping = {}
            BY <1>2 DEF ImportMain, IInv
        <3> QED
            BY <2>2, <3>1, FindFacts DEF resolve_import
    <2> QED
        BY <1>2, <2>1, <2>2, <2>3, EnterMarks DEF ImportMain
<1>3. CASE ImportNew
    <2>1. PICK f \in resolve_import(NextImport, Top.file.dir) \ import_mapping :
             Enter(f, NextImport)
        BY <1>3 DEF ImportNew
    <2>2. Importing /\ status' = "loading"
        BY <1>3 DEF ImportNew, Importing
    <2>3. NextImport \in Names /\ f \in Files \ import_mapping
        BY <2>1, <2>2, ImportIsFound
    <2> QED
        BY <2>1, <2>2, <2>3, EnterMarks
<1>4. CASE ImportKnown
    BY <1>4, KnownMarks
<1>5. CASE Declare
    BY <1>5, DeclareMarks
<1>6. CASE NoMain \/ ImportFails \/ ImportClashes \/ DeclareClashes \/ DefineFails
    <2>1. PICK how \in {"no module", "no import", "clash", "unknown name"} : Stop(how)
        BY <1>6 DEF NoMain, ImportFails, ImportClashes, DeclareClashes, DefineFails
    <2> QED
        BY <2>1 DEF Stop, MInv
<1>7. CASE UNCHANGED vars
    BY <1>7 DEF vars, MInv
<1> QED
    BY <1>1, <1>2, <1>3, <1>4, <1>5, <1>6, <1>7 DEF Next

\* What the back ends are told of the imports is what the files say: the modules marked
\* as imported, and what a header includes.
THEOREM ImportsAreRecorded == Spec => []ImportsRecorded
<1>1. Init => MInv
    BY DEF Init, MInv, MarksOK, RecordsOK, FilesOf, Declaring
<1>2. IInv /\ MInv /\ [Next]_vars => MInv'
    BY StepMarks
<1>3. IInv /\ MInv => Marked
    <2> SUFFICES ASSUME IInv, MInv, status = "loaded"
                 PROVE  /\ imported = {Namespace(g) : g \in UNION {ImportsOf(f) : f \in import_mapping}}
                        /\ UNION {ImportsOf(f) : f \in import_mapping} \subseteq Loaded
        BY DEF Marked
    <2>1. /\ source \in Sources /\ import_mapping \subseteq Files /\ calls = <<>>
          /\ MarksOK(source, import_mapping, import_mapping \ FilesOf(calls), calls, imported)
        BY DEF IInv, MInv
    <2>2. Loaded = import_mapping /\ FilesOf(calls) = {}
        BY <2>1 DEF Loaded, FilesOf
    <2>3. \A f \in import_mapping : ImportsOf(f) = Imports(source, f)
        BY <2>1, Meaning
    <2>4. \A g \in Files : Namespace(g) = Space(source, g)
        BY DEF Namespace, Space
    <2>5. \A f \in import_mapping : \A g \in Imports(source, f) :
             g \in import_mapping /\ Space(source, g) \in imported
        BY <2>1, <2>2 DEF MarksOK
    <2>6. \A p \in imported : \E f \in import_mapping : \E g \in Imports(source, f) :
             p = Space(source, g)
        BY <2>1 DEF MarksOK
    <2> HIDE DEF ImportsOf
    <2> QED
        BY <2>1, <2>2, <2>3, <2>4, <2>5, <2>6
<1>4. IInv /\ MInv => Included
    <2> SUFFICES ASSUME IInv, MInv,
                        \A f, g \in import_mapping : Namespace(f) = Namespace(g) => f = g,
                        NEW f \in Loaded
                 PROVE  /\ Len(Includes(Namespace(f))) = Len(source[f].imports)
                        /\ \A i \in DOMAIN source[f].imports :
                              \E g \in resolve_import(source[f].imports[i], f.dir) :
                                 Includes(Namespace(f))[i] = g.stem
        BY DEF Included
    <2>1. /\ source \in Sources /\ import_mapping \subseteq Files
          /\ StackOK(source, import_mapping, calls)
          /\ ClaimsOK(source, import_mapping, origin, imported, imported_modules)
          /\ RecordsOK(source, import_mapping,
                       (import_mapping \ FilesOf(calls)) \cup Declaring(calls), imported_modules)
        BY DEF IInv, MInv
    <2>2. Alone(source, import_mapping)
        BY DEF Alone, Namespace, Space
    <2>3. f \in import_mapping \ FilesOf(calls) /\ f \in Files
        BY <2>1, FilesMeaning DEF Loaded, StackOK
    <2> DEFINE mods == imported_modules[Space(source, f)]
    <2>4. mods \in Seq(Paths) /\ Recorded(source, import_mapping, f, mods)
        BY <2>1, <2>2, <2>3 DEF RecordsOK
    <2>5. /\ Namespace(f) = Space(source, f) /\ DOMAIN source[f].imports = 1 .. Count(source, f)
          /\ \A i : resolve_import(source[f].imports[i], f.dir) = Found(source, f, i)
          /\ Count(source, f) \in Nat
        BY <2>1, <2>3, Meaning, TextFacts
    <2>6. DOMAIN mods = 1 .. Count(source, f) /\ Len(mods) = Count(source, f)
        BY <2>4, LenProperties DEF Recorded
    <2>7. Includes(Namespace(f)) = [i \in 1 .. Count(source, f) |-> origin[mods[i]].stem]
        BY <2>5, <2>6 DEF Includes
    <2>8. ASSUME NEW i \in 1 .. Count(source, f)
          PROVE  \E g \in Found(source, f, i) : origin[mods[i]].stem = g.stem
        <3>1. PICK g \in Found(source, f, i) : g \in import_mapping /\ mods[i] = Space(source, g)
            BY <2>4 DEF Recorded
        <3>2. origin[Space(source, g)] \in import_mapping
              /\ Space(source, origin[Space(source, g)]) = Space(source, g)
            BY <2>1, <3>1 DEF ClaimsOK
        <3>3. origin[Space(source, g)] = g
            BY <2>2, <3>1, <3>2 DEF Alone
        <3> QED
            BY <3>1, <3>3
    <2>9. Len([i \in 1 .. Count(source, f) |-> origin[mods[i]].stem]) = Count(source, f)
        BY <2>5, LenProperties
    <2>10. Len(Includes(Namespace(f))) = Len(source[f].imports)
        BY <2>7, <2>9 DEF Count
    <2> HIDE DEF mods
    <2>11. ASSUME NEW i \in DOMAIN source[f].imports
           PROVE  \E g \in resolve_import(source[f].imports[i], f.dir) :
                     Includes(Namespace(f))[i] = g.stem
        <3>1. i \in 1 .. Count(source, f) /\ Includes(Namespace(f))[i] = origin[mods[i]].stem
            BY <2>5, <2>7
        <3>2. resolve_import(source[f].imports[i], f.dir) = Found(source, f, i)
            BY <2>5
        <3> QED
            BY <2>8, <3>1, <3>2
    <2> QED
        BY <2>10, <2>11
<1> QED
    BY InitHolds, StepKeeps, <1>1, <1>2, <1>3, <1>4, PTL DEF Spec, ImportsRecorded
------------------------------------------------------------------------------
\* The full names of the elements of g.
Offered(src, g) ==
    {Append(Space(src, g), src[g].elements[i]) : i \in DOMAIN src[g].elements}

OfferedIn(src, declared, sym) == \A g \in declared : Offered(src, g) \subseteq DOMAIN sym

\* A file that has declared its elements offers them for good, and a name stops a define
\* pass only.
NInv == /\ OfferedIn(source, (import_mapping \ FilesOf(calls)) \cup Declaring(calls), symbols)
        /\ status = "unknown name" => calls # <<>> /\ Top.phase = "define"

LEMMA EnterNames ==
    ASSUME IInv, NInv, NEW f \in Files \ import_mapping, NEW nm \in Names, Enter(f, nm),
           status' = "loading"
    PROVE  NInv'
<1> DEFINE c == [file |-> f, name |-> nm, mods |-> <<>>, phase |-> "import"]
<1>1. calls \in Seq(Calls)
    BY DEF IInv, StackOK
<1>2. /\ source' = source /\ import_mapping' = import_mapping \cup {f}
      /\ calls' = Append(calls, c) /\ DOMAIN symbols \subseteq DOMAIN symbols'
    BY DEF Enter, MakeLoader, get_child, ++
<1>3. c \in Calls /\ c.file = f /\ c.phase = "import"
    BY DEF Calls
<1> HIDE DEF c
<1>4. /\ FilesOf(Append(calls, c)) = FilesOf(calls) \cup {f}
      /\ Declaring(Append(calls, c)) = Declaring(calls)
    BY <1>1, <1>3, PushFiles
<1>5. (import_mapping' \ FilesOf(calls')) \cup Declaring(calls')
         \subseteq (import_mapping \ FilesOf(calls)) \cup Declaring(calls)
    BY <1>2, <1>4
<1>6. OfferedIn(source, (import_mapping' \ FilesOf(calls')) \cup Declaring(calls'), symbols')
    BY <1>2, <1>5 DEF NInv, OfferedIn
<1> QED
    BY <1>2, <1>6 DEF NInv

LEMMA KnownNames ==
    ASSUME IInv, NInv, ImportKnown
    PROVE  NInv'
<1>1. PICK f \in resolve_import(NextImport, Top.file.dir) \cap import_mapping :
         MakeLoader(f) /\ Known(f)
    BY DEF ImportKnown
<1>2. /\ Importing /\ status = "loading" /\ Top.phase = "import"
      /\ source \in Sources /\ import_mapping \subseteq Files
    BY DEF ImportKnown, Importing, IInv
<1>3. Namespace(f) \in Paths
    BY <1>1, <1>2, Meaning, TextFacts
<1>4. calls # <<>> /\ calls \in Seq(Calls)
    BY <1>2, AtImport
<1>5. /\ source' = source /\ import_mapping' = import_mapping /\ status' = status
      /\ calls' = Returned(calls, Namespace(f)) /\ DOMAIN symbols \subseteq DOMAIN symbols'
    BY <1>1 DEF ImportKnown, Known, MakeLoader, get_child, ++
<1>6. FilesOf(calls') = FilesOf(calls) /\ Declaring(calls') = Declaring(calls)
    <2>1. /\ FilesOf(Returned(calls, Namespace(f))) = FilesOf(calls)
          /\ Declaring(Returned(calls, Namespace(f))) = Declaring(calls)
        BY <1>3, <1>4, AdvanceFiles
    <2> QED
        BY <1>5, <2>1
<1>7. OfferedIn(source, (import_mapping \ FilesOf(calls)) \cup Declaring(calls), symbols')
    BY <1>5 DEF NInv, OfferedIn
<1> QED
    BY <1>2, <1>5, <1>6, <1>7 DEF NInv

LEMMA DeclareNames ==
    ASSUME IInv, NInv, Declare
    PROVE  NInv'
<1> DEFINE f == Top.file
           n == Len(calls)
<1>1. StackOK(source, import_mapping, calls) /\ source \in Sources
    BY DEF IInv
<1>2. status = "loading" /\ Top.phase = "import" /\ Len(Top.mods) = Count(source, Top.file)
    BY DEF Declare, AllImported, Count
<1>3. f \in Files /\ calls # <<>> /\ Declaring(calls) = {}
    BY <1>2, AtImport
<1>4. Elements(f) = Offered(source, f)
    BY DEF Elements, Offered, Namespace, Space
<1>5. /\ source' = source /\ import_mapping' = import_mapping /\ status' = status
      /\ calls' = Defining(calls) /\ DOMAIN symbols' = DOMAIN symbols \cup Offered(source, f)
    BY <1>4 DEF Declare, Defining, ++
<1>6. Len(calls[n].mods) = Count(source, calls[n].file) /\ f = calls[n].file
    BY <1>2 DEF Top
<1> HIDE DEF n, f
<1>7. n = Len(calls)
    BY DEF n
<1>8. FilesOf(calls') = FilesOf(calls) /\ Declaring(calls') = {f}
    <2>1. StackOK(source, import_mapping, calls')
        BY <1>1, <1>3, <1>5, <1>6, <1>7, BeginDefine
    <2>2. FilesOf(calls') = FilesOf(calls)
        BY <1>1, <1>3, <1>5, <1>6, <1>7, <2>1, BeginDefine
    <2>3. Declaring(calls') = {calls[n].file}
        BY <1>1, <1>3, <1>5, <1>6, <1>7, <2>1, BeginDefine
    <2> QED
        BY <1>6, <2>2, <2>3
<1>9. OfferedIn(source, (import_mapping \ FilesOf(calls)) \cup {f}, symbols')
    <2>1. OfferedIn(source, import_mapping \ FilesOf(calls), symbols)
        BY <1>3 DEF NInv
    <2> QED
        BY <1>5, <2>1 DEF OfferedIn
<1> QED
    BY <1>2, <1>5, <1>8, <1>9 DEF NInv

LEMMA DefineNames ==
    ASSUME IInv, NInv, Define
    PROVE  NInv'
<1> DEFINE f == Top.file
           rest == SubSeq(calls, 1, Len(calls) - 1)
<1>1. /\ f \in import_mapping /\ f \in FilesOf(calls)
      /\ Declaring(calls) = {f} /\ Declaring(rest) = {}
      /\ FilesOf(rest) = FilesOf(calls) \ {f}
      /\ StackOK(source, import_mapping, rest) /\ Namespace(f) \in Paths
    BY DefineFacts
<1>2. /\ source' = source /\ import_mapping' = import_mapping /\ symbols' = symbols
      /\ \/ calls' = rest /\ status' = "loaded"
         \/ rest # <<>> /\ calls' = Returned(rest, Namespace(f)) /\ status' = "loading"
    BY DEF Define
<1> HIDE DEF f, rest
<1>3. FilesOf(calls') = FilesOf(rest) /\ Declaring(calls') = {}
    <2>1. CASE calls' = rest
        BY <1>1, <2>1
    <2>2. CASE rest # <<>> /\ calls' = Returned(rest, Namespace(f))
        <3>1. rest \in Seq(Calls)
            BY <1>1 DEF StackOK
        <3>2. /\ FilesOf(Returned(rest, Namespace(f))) = FilesOf(rest)
              /\ Declaring(Returned(rest, Namespace(f))) = Declaring(rest)
            BY <1>1, <2>2, <3>1, AdvanceFiles
        <3> QED
            BY <1>1, <2>2, <3>2
    <2> QED
        BY <1>2, <2>1, <2>2
<1>4. (import_mapping' \ FilesOf(calls')) \cup Declaring(calls')
         = (import_mapping \ FilesOf(calls)) \cup Declaring(calls)
    BY <1>1, <1>2, <1>3
<1> QED
    BY <1>2, <1>4 DEF NInv

LEMMA StepNames ==
    ASSUME IInv, NInv, [Next]_vars
    PROVE  NInv'
<1>1. CASE Define
    BY <1>1, DefineNames
<1>2. CASE ImportMain
    <2>1. PICK f \in resolve_import(MainName, MainName.dir) : Enter(f, MainName)
        BY <1>2 DEF ImportMain
    <2>2. MainName \in Names /\ MainName.dir \in DOMAIN Listing
        BY ModuleLoadAssumption
    <2>3. f \in Files \ import_mapping
        <3>1. import_mapping = {}
            BY <1>2 DEF ImportMain, IInv
        <3> QED
            BY <2>2, <3>1, FindFacts DEF resolve_import
    <2> QED
        BY <1>2, <2>1, <2>2, <2>3, EnterNames DEF ImportMain
<1>3. CASE ImportNew
    <2>1. PICK f \in resolve_import(NextImport, Top.file.dir) \ import_mapping :
             Enter(f, NextImport)
        BY <1>3 DEF ImportNew
    <2>2. Importing /\ status' = "loading"
        BY <1>3 DEF ImportNew, Importing
    <2>3. NextImport \in Names /\ f \in Files \ import_mapping
        BY <2>1, <2>2, ImportIsFound
    <2> QED
        BY <2>1, <2>2, <2>3, EnterNames
<1>4. CASE ImportKnown
    BY <1>4, KnownNames
<1>5. CASE Declare
    BY <1>5, DeclareNames
<1>6. CASE NoMain \/ ImportFails \/ ImportClashes \/ DeclareClashes
    <2>1. PICK how \in {"no module", "no import", "clash"} : Stop(how)
        BY <1>6 DEF NoMain, ImportFails, ImportClashes, DeclareClashes
    <2> QED
        BY <2>1 DEF Stop, NInv
<1>7. CASE DefineFails
    <2>1. Stop("unknown name") /\ status = "loading" /\ Top.phase = "define"
        BY <1>7 DEF DefineFails
    <2>2. Top' = Top
        BY <2>1 DEF Stop, Top
    <2> QED
        BY <2>1, <2>2 DEF Stop, NInv, IInv
<1>8. CASE UNCHANGED vars
    BY <1>8 DEF vars, NInv, Top
<1> QED
    BY <1>1, <1>2, <1>3, <1>4, <1>5, <1>6, <1>7, <1>8 DEF Next

\* The first part of a path, and the path that begins at the root.
LEMMA FirstPart ==
    ASSUME NEW S, NEW s \in Seq(S), s # <<>>
    PROVE  SubSeq(s, 1, 1) = Append(<<>>, Head(s)) /\ 1 \in 1 .. Len(s)
<1>1. Len(s) \in Nat /\ Len(s) >= 1
    BY LenProperties, EmptySeq
<1>2. Head(s) = s[1] /\ s[1] \in S
    BY <1>1, ElementOfSeq
<1>3. /\ Append(<<>>, s[1]) \in Seq(S) /\ Len(Append(<<>>, s[1])) = 1
      /\ Append(<<>>, s[1])[1] = s[1]
    BY <1>2
<1>4. SubSeq(s, 1, 1) \in Seq(S) /\ Len(SubSeq(s, 1, 1)) = 1 /\ SubSeq(s, 1, 1)[1] = s[1]
    <2>1. 1 \in Nat \ {0}
        OBVIOUS
    <2> QED
        BY <1>1, <2>1, SubSeqProperties
<1>5. SubSeq(s, 1, 1) = Append(<<>>, s[1])
    <2>1. \A i \in 1 .. 1 : SubSeq(s, 1, 1)[i] = Append(<<>>, s[1])[i]
        BY <1>3, <1>4
    <2> QED
        BY <1>3, <1>4, <2>1, SeqEqual
<1> QED
    BY <1>1, <1>2, <1>5

LEMMA FromRoot ==
    ASSUME NEW S, NEW s \in Seq(S), NEW scope \in Seq(S)
    PROVE  SubSeq(scope, 1, 0) = <<>> /\ <<>> \o s = s
OBVIOUS

\* An element that the tree has is found by its full name, where no module between the
\* root and the scope hides the first part of the name.
LEMMA FullNameIsFound ==
    ASSUME NEW scope \in Paths, NEW nm \in DOMAIN symbols, NEW im,
           TreeOK(source, im, symbols),
           ~\E i \in 1 .. Len(scope) : Append(SubSeq(scope, 1, i), Head(nm)) \in DOMAIN symbols
    PROVE  recursive_full_name_lookup(scope, nm) = {nm}
<1> DEFINE found == EnclosingScopes(scope, Head(nm))
           inner == CHOOSE i \in found : \A j \in found : j <= i
<1>1. nm \in Seq(STRING) /\ nm # <<>>
    BY DEF TreeOK, Paths
<1>2. scope \in Seq(STRING) /\ Len(scope) \in Nat
    BY LenProperties DEF Paths
<1>3. SubSeq(nm, 1, 1) \in DOMAIN symbols
    <2>1. SubSeq(nm, 1, 1) \in Prefixes(nm)
        <3>1. 1 \in 1 .. Len(nm)
            BY <1>1, FirstPart
        <3> QED
            BY <3>1 DEF Prefixes
    <2> QED
        BY <2>1 DEF TreeOK
<1>4. SubSeq(scope, 1, 0) = <<>> /\ SubSeq(nm, 1, 1) = Append(<<>>, Head(nm))
    BY <1>1, <1>2, FirstPart, FromRoot
<1>5. found = {0}
    <2>1. 0 \in found
        <3>1. 0 \in 0 .. Len(scope)
            BY <1>2
        <3>2. Append(SubSeq(scope, 1, 0), Head(nm)) \in DOMAIN symbols
            BY <1>3, <1>4
        <3> QED
            BY <3>1, <3>2 DEF EnclosingScopes
    <2>2. \A i \in found : i = 0
        <3> TAKE i \in found
        <3>1. i \in 0 .. Len(scope) /\ Append(SubSeq(scope, 1, i), Head(nm)) \in DOMAIN symbols
            BY DEF EnclosingScopes
        <3>2. i \in 1 .. Len(scope) \/ i = 0
            BY <1>2, <3>1
        <3> QED
            BY <3>1, <3>2
    <2> QED
        BY <2>1, <2>2
<1> HIDE DEF found
<1>6. inner = 0
    <2>1. \A j \in found : j <= 0
        BY <1>5
    <2>2. inner \in found
        BY <1>5, <2>1
    <2> QED
        BY <1>5, <2>2
<1>7. SubSeq(scope, 1, inner) \o nm = nm
    BY <1>1, <1>2, <1>6, FromRoot
<1> QED
    BY <1>5, <1>7, Zenon DEF recursive_full_name_lookup, found

\* Files that are reached from g.
LEMMA ReachThrough ==
    ASSUME NEW src, NEW g, NEW h, NEW f, Reach(src, g, h), Reach(src, h, f)
    PROVE  Reach(src, g, f)
BY DEF Reach

\* What a file reaches is loaded, when the file has a loader and does not lead to the one
\* being loaded.
LEMMA ReachedIsLoaded ==
    ASSUME IInv, MInv, calls # <<>>, NEW h \in import_mapping, ~Reach(source, h, Top.file),
           NEW g, Reach(source, h, g)
    PROVE  g \in import_mapping \ FilesOf(calls)
<1> DEFINE L == import_mapping \ FilesOf(calls)
           S == {x \in L : Reach(source, h, x)}
           n == Len(calls)
<1>1. /\ source \in Sources /\ import_mapping \subseteq Files
      /\ StackOK(source, import_mapping, calls)
      /\ MarksOK(source, import_mapping, L, calls, imported)
    BY DEF IInv, MInv
<1>2. n \in Nat /\ n \in 1 .. n /\ Top = calls[n]
    BY <1>1, LenProperties, EmptySeq DEF StackOK, Top
<1>3. ASSUME NEW x \in import_mapping, Reach(source, h, x)
      PROVE  x \in L
    <2> SUFFICES ASSUME x \in FilesOf(calls) PROVE FALSE
        OBVIOUS
    <2>1. PICK k \in 1 .. n : x = calls[k].file
        BY DEF FilesOf
    <2>2. k <= n
        BY <1>2
    <2>3. Reach(source, calls[k].file, calls[n].file)
        BY <1>1, <1>2, <2>2 DEF StackOK
    <2>4. Reach(source, h, Top.file)
        BY <1>2, <1>3, <2>1, <2>3, ReachThrough
    <2> QED
        BY <2>4
<1>4. h \in S
    BY <1>3, ReachSelf
<1>5. ASSUME NEW x \in S PROVE Imports(source, x) \subseteq S
    <2> SUFFICES ASSUME NEW y \in Imports(source, x) PROVE y \in S
        OBVIOUS
    <2>1. x \in Files /\ y \in import_mapping
        BY <1>1 DEF MarksOK
    <2>2. Reach(source, h, y)
        BY <2>1, ReachStep
    <2> QED
        BY <1>3, <2>1, <2>2
<1>6. S \in SUBSET Files
    BY <1>1
<1>7. g \in S
    BY <1>4, <1>5, <1>6 DEF Reach
<1> QED
    BY <1>7

LEMMA TopFacts ==
    ASSUME NEW src, NEW im, StackOK(src, im, calls), calls # <<>>
    PROVE  Len(calls) \in 1 .. Len(calls) /\ Top \in Calls
<1>1. calls \in Seq(Calls)
    BY DEF StackOK
<1>2. Len(calls) \in 1 .. Len(calls)
    BY <1>1, LenProperties, EmptySeq
<1> QED
    BY <1>1, <1>2, ElementOfSeq DEF Top

\* The elements a file may count on are found when its names are resolved.
LEMMA OfferedIsFound ==
    ASSUME IInv, MInv, NInv, calls # <<>>, Top.phase = "define",
           NEW i \in DOMAIN source[Top.file].uses, NEW nm, nm = source[Top.file].uses[i],
           ~Shadowed(Top.file, nm), nm \in DOMAIN symbols
    PROVE  i \notin Unknown(Top.file)
<1>1. /\ StackOK(source, import_mapping, calls) /\ TreeOK(source, import_mapping, symbols)
      /\ source \in Sources
    BY DEF IInv
<1>2. Len(calls) \in 1 .. Len(calls) /\ Top \in Calls
    BY <1>1, TopFacts
<1>3. Namespace(Top.file) \in Paths
    <2>1. Top.file \in Files
        BY <1>2 DEF Calls
    <2> QED
        BY <1>1, <2>1, Meaning, TextFacts
<1>4. recursive_full_name_lookup(Namespace(Top.file), nm) = {nm}
    BY <1>1, <1>3, FullNameIsFound DEF Shadowed
<1> QED
    BY <1>4 DEF Unknown

\* For any files, imports and namespaces: what is resolved is of a file that is loaded, and
\* loading is stopped only by names that a nearer module hides or that a file was never
\* promised.
THEOREM NamesAreResolved == Spec => []NamesResolve
<1>1. Init => MInv
    BY DEF Init, MInv, MarksOK, RecordsOK, FilesOf, Declaring
<1>2. Init => NInv
    BY DEF Init, NInv, OfferedIn, FilesOf, Declaring
<1>3. IInv /\ MInv /\ NInv => FullNamesResolve
    <2> SUFFICES ASSUME IInv, MInv, NInv, status = "unknown name",
                        NEW i \in Unknown(Top.file), NEW nm, nm = source[Top.file].uses[i],
                        ~Shadowed(Top.file, nm), NEW g \in Files, nm \in Elements(g)
                 PROVE  /\ Top.file # g
                        /\ \A h \in ImportsOf(Top.file) :
                              Order!Reaches(h, g) => Order!Reaches(h, Top.file)
        BY DEF FullNamesResolve
    <2> DEFINE f == Top.file
               D == (import_mapping \ FilesOf(calls)) \cup Declaring(calls)
    <2>1. /\ calls # <<>> /\ Top.phase = "define" /\ OfferedIn(source, D, symbols)
          /\ StackOK(source, import_mapping, calls) /\ source \in Sources
        BY DEF IInv, NInv
    <2>2. nm \in Offered(source, g)
        BY DEF Elements, Offered, Namespace, Space
    <2>3. nm \notin DOMAIN symbols
        <3>1. i \in DOMAIN source[f].uses
            BY DEF Unknown
        <3> QED
            BY <2>1, <3>1, OfferedIsFound
    <2>4. g \notin D
        BY <2>1, <2>2, <2>3 DEF OfferedIn
    <2>5. f \in Declaring(calls) /\ Len(calls) \in 1 .. Len(calls) /\ Top \in Calls
        <3>1. Len(calls) \in 1 .. Len(calls) /\ Top \in Calls
            BY <2>1, TopFacts
        <3> QED
            BY <2>1, <3>1 DEF Declaring, Top
    <2>6. f \in Files /\ CallOK(source, import_mapping, Top)
        BY <2>1, <2>5 DEF Calls, StackOK, Top
    <2>7. ASSUME NEW h \in ImportsOf(f), Order!Reaches(h, g), ~Order!Reaches(h, f)
          PROVE  FALSE
        <3>1. h \in Imports(source, f)
            BY <2>1, <2>6, Meaning
        <3>2. h \in import_mapping
            BY <2>1, <2>6, <3>1 DEF CallOK, Imports
        <3>3. Reach(source, h, g) /\ ~Reach(source, h, f)
            BY <2>1, <2>7, ReachMeaning
        <3>4. g \in import_mapping \ FilesOf(calls)
            BY <2>1, <3>2, <3>3, ReachedIsLoaded
        <3> QED
            BY <2>4, <3>4
    <2> QED
        BY <2>4, <2>5, <2>7
<1>4. Spec => [](IInv /\ MInv /\ NInv)
    <2>1. IInv /\ MInv /\ NInv /\ [Next]_vars => IInv' /\ MInv' /\ NInv'
        BY StepKeeps, StepMarks, StepNames
    <2> QED
        BY InitHolds, <1>1, <1>2, <2>1, PTL DEF Spec
<1> QED
    BY BoundAreOfLoaded, <1>3, <1>4, PTL DEF NamesResolve
==============================================================================
