# A TLA+ model of lidl

lidl is an interface definition language: a compiler that reads interfaces (`.lidl` or
`.yaml`) and emits C++, JavaScript or Python, the run-time libraries that the emitted code
uses to build, read and exchange messages, and tools that convert messages. This directory
holds TLA+ modules for their core logic, the TLC runs that check them on small instances,
and TLAPS proofs of what matters most.

Paths below are relative to the repository (`src/` in `PROJECT.json`).

## Inventory

| component | state it keeps | operations | hard because |
|---|---|---|---|
| message builder (`runtime/cpp/include/lidlrt/builder.hpp`, `ptr.hpp`, `string.hpp`, `vector.hpp`, `buffer.hpp`) | a cursor in a caller's buffer; 16-bit relative pointers inside it | `allocate`, `create`, `create_string`, `create_vector`, `ptr::operator=`, `finish`, `get_root` | a body that does not fit is silently dropped; offsets, lengths and the size are 16 bits wide; bodies are placed by offset but found by address |
| calls (`lidlrt/service.hpp`, `find_extent.hpp`, `zerocopy_vtable.hpp`, `transport/local.hpp`, the stubs of `src/cppgen/service_gen.cpp`) | a request and a response buffer shared by a chain of calls | `union_caller`, the generated stubs, `copy_and_return` | an answer is relocated from one buffer to another by offset; views into buffers that end |
| coroutines (`tos/task.hpp` and the asynchronous halves of the same files) | a frame, its continuation and its result slot | `co_await`, `run`, `return_value`, `final_suspend` | resumption order; a place written to by reference; several calls waiting at once |
| other run times (`runtime/js/lib`, `runtime/python/lidlrt`) | a memory and a cursor | as their C++ counterparts | three programs agree on the bytes or a message is garbage |
| binary reader and writer (`yaml2bin`, `bin2yaml` in `src/structure.cpp`, `union.cpp`, `basic_types.cpp`, `enumeration.cpp`; `src/tools`) | bytes written so far, the place of the last object | one pair of functions per kind of type | a fourth and a fifth place where the format is written down |
| layout (`src/layout.cpp`, `include/lidl/layout.hpp`) | size and alignment so far, offset per member | `compound_layout::add_member`, `union_layout_computer::add` | padding and 16-bit sizes at their edges |
| emitter (`src/codegen/emitter.cpp`, `sections.cpp`) | sections not yet written, keys already satisfied | `mark_module`, `pass`, `emit` | a fix-point over dependencies; grouping by namespace reorders; imported modules count as written |
| C++ generators (`src/cppgen`) | a vector of instantiations that grows | `generate` of every kind of declaration | what must come first is spread over nine files |
| lexer and parser (`src/frontend/lexer.cpp`, `parser2.cpp`) | position in the text and in the tokens | `next`, `parse_*` | rules that fail after having consumed something |
| loaders of one file (`src/frontend/loader.cpp`, `src/yaml.cpp`) | elements declared, elements defined | declare and define passes, `read_*` | two notations of the same thing, read in different orders |
| module loading (`src/loader.cpp`, `src/module.cpp`) | import map, module tree, loaders | `resolve_import`, `do_import`, `perform_load` | recursion through the import graph, cycles, two files in one namespace |
| scopes, generics, services, unions, enumerations (`src/scope.cpp`, `generics.cpp`, `service.cpp`, `enumeration.cpp`, `inheritance.cpp`, `include/lidl`) | names in a tree; memoised instances; structures made when first asked for | look-ups, `instantiate`, `all_members`, `generate_*` | numbering counts inherited members; what is asked for too early is a forward declaration |
| lidlc, lidlq and the JavaScript and Python back ends (`src/tools/lidlc_main.cpp`, `lidlq_main.cpp`, `src/jsgen`, `src/pygen`) | files on disk | one run per module and language; one query | what one file names must be in another one, written by another run; what a build learns from an exit status |

What makes each correct, in a sentence: the *builder* hands out separate regions and every
reference reads as the object stored in it; an *answer* arrives as the value the procedure
returned; a *task* resumes whoever waits for it exactly once, after its value is there; what
one *run time* writes another reads; binary *writer and reader* are inverse; a *layout* is
that of the C++ compiler for the emitted class; the *emitter* writes every section once and
after what it depends on; the *generators* name, as dependencies, all that C++ needs earlier;
*parsing* gives back what was written and shows what is not a module; both *notations* load
alike; a *file* is loaded once, after its imports, and its names bind to finished
declarations; *instances* have every parameter replaced and one class each; a *member's number* is unique and the
same in all outputs, and in a service and those that extend it; a *handle* stays what it was;
an *output* only names what there is; an *exit status* tells whether it was written.

## Modules

| module | models | abstract specification it implements |
|---|---|---|
| `Bytes` | alignment and the 16-bit conversions | |
| `MessageBuilder` | `message_builder`, `emplace_raw`, `create_string`, `create_vector`, `ptr`, `finish` | `ObjectStore` |
| `Layout` | `compound_layout`, `union_layout_computer`, `raw_layout`, arrays; next to them the layout of the emitted class | |
| `Emitter` | `emitter`: scan, take, write, end of a pass | `OrderedOutput`, `EmitterPasses` |
| `CppSections` | the sections each C++ generator makes and the instances it asks for | |
| `CppBackend` | `cppgen::generate` over `CppSections`; the emitter enters as `EmitterPasses` | |
| `Instances` | the lists of instances of a module and its children, their classes in the scopes of their generics, what the emitter then misses | |
| `Services` | services, the structures and unions made of them on demand, and the scopes these are put in | |
| `ModuleLoad` | `path_resolver`, `load_context`, the frontend `loader`, the module tree, look-ups | `LoadOrder` |
| `Calls` | synchronous calls: stubs, `local_transport`, `union_caller`, zero-copy clients | |
| `Tasks` | `tos::Task` and the chains of coroutines of asynchronous calls | |
| `WireTypes`, `BinaryTools` | types as the converters see them; `yaml2bin`, `bin2yaml` | |
| `RunTimes`, `WireFormat` | how C++, JavaScript and Python write and read a message | |
| `LidlSyntax` | lexer and parser of `.lidl` files | |
| `Scopes`, `LidlLoader`, `YamlLoader` | look-ups, inheritance and instances; the two loaders of one file | |
| `FrontEnd` | a schema from text to elements, over these four | |
| `OutputFiles` | what the files written for an element or a module define and refer to | |
| `Lidlc` | runs of `lidlc` and `lidlq` with their exit statuses, and a Python session that imports what was written | |

`MC…` modules hold the constants of the runs, `…_proofs` modules the theorems. Mutants of
definitions, which show that a property can fail, stand next to what they change.

**MessageBuilder.** Positions are offsets from the buffer's first byte; `Base` is its
address, because `vector::data()` aligns addresses and `allocate` offsets. `Place` and
`Bump` are the two outcomes of `allocate`; a body whose allocation fails leaves `None`
as its position but keeps its length, as the code does. `m_offset` holds the 16-bit
differences that `ptr` stores. `spinning` is the `while (true)` of `emplace_raw`. Bytes of
objects are not modelled, only where objects are and what their pointers refer to.

**Layout.** Types are declared one after another, each from earlier ones. `computer` and
`alternatives` are the code's accumulators; `cxx` is the layout that the C++ compiler gives
the class emitted for the same members (external to the repository: the usual rules of the
ABI for standard-layout classes). The converters use the first, the emitted program the
second, so every difference is a corrupt message.

**Emitter.** One action per step of the code's loops: `Take` and skip in the scan, one
namespace at a time in the writing, `EndPass`. `m_this_pass` is the `unordered_map`: the
next namespace is chosen freely. `marked` and `imported` stand for what `mark_module` and
`find_parent_module(..)->imported()` say.

**CppSections, CppBackend.** An interface (`iface`) is a set of declarations with the names
of their members. For each generator there is the list of its sections with keys,
dependencies and namespace, and the names it resolves (`…_calls`), since resolving an
instance of a generic appends to `module::instantiations`. The code's functions on types
call themselves for the types of members; here they go `MaxDepth` levels deep, which is enough for
an interface in which no type holds itself by value (`ends`; `BackendInit` takes only such: on
others the compiler does not end). `CppBackend` runs the loops of
`generate` in order, the last one a range-for that keeps its end; then it gives the sections
to the emitter, one `EmitterPasses` step per pass. `Emitter` is shown to implement
`EmitterPasses` by the run `emitter` and by `EmitterImplementsPasses`, so that the two compose.

**Instances.** `CppBackend` has one module; here the back end runs over a module and its
children (`Order`). `name_ins` is each module's list, `symbols` the classes in its scope,
`work` the member types a generator is going through and `pending` the instances that one of
them asks for, in the module `asked`: that which is generated, but that of the generic while
the class of an instance is made (`generic_gen.cpp:30`). `waited` and `defined` are what
`emitter` compares. Instances found while a vector is iterated may move it (`undefined`).

**Services.** `SetBase` and `AddProcedure` load services, in any order that declares a base
first; then anybody asks for the unions of a service (`BeginUnions` to `EndUnions`, one
action for each procedure's structures and one for its members) or for their enumerations
(`GetEnum`). A scope is the sequence of its slots, a handle is a scope and a number, and
`define` fills a slot that holds `forward_decl` or appends one. `clash` is the exception of
`define`; programs that throw it while loading are `not_loaded`.

**ModuleLoad.** `calls` is the stack of `perform_load`; an action is the part of the
recursion between two entries or returns of `do_import`. `symbols` is the tree of scopes, by
full path; `origin` is `src_info` of a module; `bound` the handles that the define pass
stores. `Listing` is the (unspecified) order in which `directory_iterator` yields files.
`.yaml` files, whose loader makes the same calls, are left out; an element is its name and
the names it refers to (its contents are in `LidlLoader`). Exceptions and `exit` end the
program: the `status` says how. A declare pass that throws half-way leaves a half-filled
scope that nobody reads; the model stops before the first element instead.

**Calls.** `frames` is the call stack, the user's own code first; each frame has the bytes of
its request and of its response. Bytes are tagged with what was written there (`Byte`), so
that reading at a wrong place is seen. `CallStub` marshals and sends, `Serve` is
`union_caller` finding the procedure, `Implement` the user's code behind it, `Respond` the
copying of its result into the response (`create<results_union>`), `ReturnStub`
`copy_and_return` at the client, with the extent of `find_extent`. `CallDirect` and
`ReturnDirect` are the zero-copy client. Implementations may relay to another client of
either kind; users may have made strings in their builder before (`Junk`) and call again
with a used one or a new one. `moved` remembers which of three things went wrong
with a reference on its way; the property says that nothing else does. Where a displaced
reference points at nothing that looks like an object (`Found`), the next stub copies garbage
or runs out of the buffer.
A buffer that overflows is the end (`overflow`): the program spins or has written behind it.
Void procedures are not modelled, since the generator has no return structure for them;
nor are reference types as parameters, for which the stub generator throws and an empty stub is
emitted (`service_gen.cpp:676`); `make_params_tuple` and what `visit` and `apply` do are
part of `Serve`. A view is always copied, although the comment at `service.hpp:279` (issue 6)
would have that depend on where it is.

**Tasks.** `heap` holds the coroutine frames: which coroutine it is, where it is, its
continuation, whom it awaits (`child`), the promise's value, and the caller's place it
writes its answer to (`out`). `active` is the one that runs; `asleep` are those that the
outside world resumes. `Await` is `await_suspend`, `Finish` `return_value` and
`final_suspend`, `Destroyed` is `~Task`. `Begin` starts a call by awaiting it or by `run`;
a call that is `run` crashes when it completes, because `final_suspend` resumes a null
continuation (`task.hpp:131`), and the run includes that end. `Throw` is
`unhandled_exception`: the awaiter goes on with a value never set. `ApplyView` is
the lambda of `async_union_caller` that keeps a reference into a promise destroyed at the
end of the line (`service.hpp:172`): what it copies may be anything (`dangled`).
Asynchronous procedures that return references cannot be compiled, so answers are values
and views, abstracted to the name of the call they answer.

**WireTypes, BinaryTools, RunTimes, WireFormat.** A message is a sequence of bytes
that one writer makes object by object, or `yaml2lidl` at once; after each step every
reader's result is compared with what was written. Layouts, alignments, places of
members, discriminators, 16-bit pointers and lengths, padding are all computed, in
four ways: by the compiler's types (`BinaryTools`), C++, JavaScript and Python (`RunTimes`
and the three `allocate`s of `WireFormat`). `Understood` says which reader understands which
type of which writer; outside of it the programs are known to disagree (see below), inside
`ReadBack` holds without exception but the `RangeError` of JavaScript at the end of a message.

**LidlSyntax, LidlLoader, YamlLoader, Scopes, FrontEnd.** Someone writes a module,
element by element, in both notations (`Texts`, `Node`); the `.lidl` text may lose a lexeme
or gain one. Each rule of the parser is an operator of the tokens and a position, and
returns the position it leaves behind also when it fails, which is what the parser's
backtracking depends on. `define_pass` and `Yaml!read_nodes` load the elements; `Scopes` has
what both use. `m_last.type` of the lexer is read before it is written
(`lexer.cpp:172`): `Parse` may therefore find no tokens at all. `instantiate` makes an instance
of a loaded generic, when the generators have come to the elements in `made`: what they
have not come to is still `forward_decl` (`Forward`), like the parameters of generics.

**OutputFiles, Lidlc.** `Define` loads elements, and refuses one that is called like another or
like a module (`scope.cpp:76`); types are nested up to `MaxNesting`, an argument that has arguments; `GeneratePython`, `GenerateJs` and
`GenerateCpp` are one run of `lidlc` each, for one module, in any order; a generator that
stops half-way (an exception) leaves what it wrote. A file is what it imports, defines and
refers to. `main` and `run` say how each command line ends before a back end
works; `last` is how the last program ended, which is forgotten (`Wait`) before anything else
happens. `Import`, `DefineClass`, `Return`, `Raise` are a Python interpreter (external to
the repository) running those files, with `sys.modules` (`known`), attributes of
packages, and forgetting what failed.

## Runs

| run | bounds | question |
|---|---|---|
| `builder` | 32768 bytes at address 4; at most 4 objects; two types, strings and vectors of 4-byte elements of lengths 0, 1 and 32752, vectors of 2 references | separate regions, bodies where views look for them, references that read as what was stored, 16-bit lengths and offsets at their edges; the root is the last object |
| `layout` | 3 member names, arrays of 3 and 4095, 7 types in all, 32767 bytes | layouts agree with the compiler's, and what is refused |
| `emitter` | 3 sections, 2 namespaces, 6 keys, at most 2 dependencies each besides a marked one | order, completeness, termination, both abstract specifications |
| `backend` | 11016 interfaces of 2 structures that may be imported, a union, an enumeration, 2 generics, 2 services; types 8 levels deep | what must come first does, even where no section says so; failure exactly on recursion and where an instance has no sections, and whence that comes |
| `instances` | a module, two children and one it imports; 2 generics anywhere among them, 11 names, one use in each module | an instance that two modules share is redefined; classes of other modules' generics wait for what nobody defines |
| `modules` | 3 files and a decoy, 140 import graphs, 3 ways to nest namespaces, at most one file that uses a foreign name, 11 programs that go wrong or share a namespace | load order, termination, what binds, is marked, is included |
| `services` | 3 services, 3 procedures in all with 4 names that can meet | alternatives numbered as those of the base, handles that stay, clashes whatever comes first |
| `calls` | 6 return types, 2 arguments, chains of 3 frames, 2 calls, buffers of 40 bytes, 2 or 4 bytes of junk | answers arrive unless displaced in one of three known ways; calls return |
| `tasks` | 2 calls, one of which relays once more; each sleeps once; 21 frames, never all used | chains stay linked, answers are those of one's own call, calls end |
| `wire` | 20 bytes, 3 objects, vectors up to 2, strings up to 3 bytes, 10 types to write and 19 to convert | what one program writes the others read; the root is at the end |
| `frontend` | 3 of 15 elements, with and without imports and namespace; one lexeme lost or one of 5 slipped in where imports and elements are at most 2 | a module is read back, damage shows, notations and instances agree |
| `lidlc` | 3 of 24 elements in 3 modules, all command lines, 2 imports per session | what exit statuses tell, imports work exactly when they can, numbers and names agree between outputs |

Why the bounds are enough. *Builder*: a string of 32752 bytes leaves 14 of 32768, which three
more objects fill in every way with every padding they can have, so that one run has the small buffer and
the 16-bit edges. *Layout*: three members have every order of growing and
falling alignments; 4095 elements of 8 bytes come within 8 bytes of the 16-bit limit.
*Emitter*: three sections suffice for a chain, a cycle, a diamond over a shared key, a
section skipped by the erasure and one in another namespace of the same pass.
*Back end*: every pair of kinds of declaration holds the other in one of the interfaces, a
member that category does not look at, or not into, is there in each way that the condition of
`NoneAddedMeanwhile` names, and no type of them is eight levels deep.
*Instances*: two modules share an instance, directly or through an instance, and a generic is
of either of them, of the main one, or of none that is generated. *Services*: three services are a chain or two that
extend one; three procedures are an inherited one between own ones, and the names are such
that a structure meets a procedure, a union or the enumeration.
*Loading*: three files make a circle that is entered from outside, a diamond, and a file
reached only through one that imports it back.
*Calls*: three frames are a user, a relay and an implementation, with a stub or a
zero-copy client on either side; two calls reuse a builder; 40 bytes are too few for some of
the answers with junk before them and enough for all without. *Tasks*: the relaying call passes through both kinds of client and its
implementation calls again; while it sleeps the other one runs to its end and back.
*Wire*: 20 bytes leave room for three objects and for every misalignment of the third, and
make JavaScript run over its end; each kind of type is there, and each pair of kinds of which
one pads the other. *Front end*: names in an element are of itself, of one before or
of one after it; three elements have a base of a base, or are a
generic with a member whose type is a parameter of another generic, or a union of a service
that is made or not, and the element that holds an instance of it. *lidlc*: three elements make a circle,
a chain through two modules, and a service between its base and its user.
In `Lidlc` the session starts only where neither JavaScript nor C++ was generated, command
lines that write nothing are tried while there are no files, and `lidlq` after Python was generated:
they do not read the others' files, so nothing is lost.

Deadlock is not checked where the program ends (`done`, `loaded`, a thrown exception, a
finished call) or where a bound of the model is reached (objects, calls, elements).

**Fairness.** Compiler and loader are sequential and wait for nothing, so weak fairness of the
next-state relation says only that the program goes on running (`Emitter`, `ModuleLoad`,
`CppBackend`). In `Calls`,
`WF_vars(Advance)` covers the steps of stubs, transport and implementations, which
run to completion on the caller's stack; that the user calls, or that a
relay relays, is not assumed. In `Tasks`, `WF_vars` of the steps says that the event loop runs
what is active; `SF_vars` of `Wake` per call says that what the outside world was asked for
comes in the end, for each call, though other calls keep running: transports answer and
no fault of theirs is modelled in the code (there are no timeouts in it). The builder, `Services`,
`Instances`, the wire format, the front end and `Lidlc` have no liveness properties: they are
functions driven by their user.

## Known divergences

Places where code, comments and the other programs disagree, which the properties had
to respect: their conditions are about these.

- *Builder.* A string whose body does not fit keeps its length without a body, where
  `string.hpp:55` says that the body is stored.
- *Layout.* A union whose size is no multiple of its alignment is refused
  (`layout.hpp:17`, "Bad alignment!"), though `docs/types.adoc:3` has no such limit; arrays of references are laid
  out as one pointer (`basic_types.hpp:13`, against `docs/types.adoc:39`); a union that
  extends another is laid out without what it inherits (`union.cpp:96`). With `Elements`
  including `"reference"` or `Extending` true, `TypesAgree` or `OffsetsAgree` fails.
- *Back end.* A derived server may come before the server it derives from
  (`service_gen.cpp:328`); traits of an instance of a generic are not among the
  dependencies of classes that hold it (`sections.cpp:41`); where a generic has an instance
  nobody asked for behind its first reference member, or as an argument of a member, `instantiations` grows under a range-for
  (`cppgen.cpp:79`), and the instance is never generated.
- *Instances.* A class made of another module's generic that has instances among its members
  is always refused by the emitter (`generic_gen.cpp:30`); a module and a child that use the same
  instance throw "Can't redefine an existing name!" (`generic_gen.cpp:28`).
- *Loading.* Of files that share a namespace only the last one's imports are kept
  (`loader.cpp:129`, against `module.hpp:51`). A file in an import circle may not see
  elements of a file that it reaches only through the circle (`FullNamesResolve`).
- *Calls.* A reference in an answer is wrong when the response builder was in use
  (`service_gen.cpp:726`), when its extent starts unaligned for the elements
  of a vector, and when it is a vector of references, of whose strings nothing is copied
  (`find_extent.hpp:14`). These are the values of `moved`.
- *Coroutines.* A task that is `run` resumes a null continuation; `async_union_caller`
  copies a view out of a destroyed promise (`service.hpp:172`).
- *Wire, compiler.* Alternatives of unions are aligned each for itself; no padding follows
  them (`union.cpp:83`), so that a member behind a union is not at the offset that `structure.cpp:91` asserts; inherited alternatives are indexed as if they were own ones; nothing is written for
  a bool; a reference to a reference is misread, and bin2yaml follows a pointer to a
  reference without end; bin2yaml throws for arrays and for inherited enumerators, and writes
  the name of an enumerator where yaml2bin wants its number; a root that is a
  reference is written without the pointer that readers of C++ expect.
- *Wire, JavaScript.* A message that ends in padding is cut in it; text that is not ASCII and
  byte vectors near the end of the message are RangeErrors; vectors of elements larger than
  two bytes are misread; unions have no getter for the alternative.
- *Wire, Python.* An unaligned `allocate` never returns (`builder.py:13`); vectors of elements
  larger than two bytes are misplaced; `Bool` has no write.
- *Front end.* `m_last.type` is read uninitialised; a block comment ends at
  the first `*` or `/` in it (`lexer.cpp:112`); a line comment that the file ends in ends
  the process;
  `vector<u8,;` is taken for `vector`, and a `::` that nothing follows is dropped; after
  "Failed to parse!" the elements read so far are loaded all the same.
- *Loaders.* That of `.lidl` files does not use the bases of unions and enumerations, nor of
  structures, nor explicit values (`loader.cpp:226`); that of `.yaml` files throws for a
  name below an element that comes later, and cannot nest arguments; a member named like a
  type hides it; generics replace a parameter only where it is the whole type of a member
  (`generics.cpp:29`), and know it by its local name: a parameter of another generic is taken
  for their own of that name, and any other forward declaration, a union of a service
  before it is made, throws "shouldn't happen" (`generics.cpp:42`); services that extend one
  another in a circle hang.
- *Services.* A member of type `V::call_union` is a forward declaration until `V`'s unions
  were asked for; procedures `f` and `f_params` clash (`service.cpp:72`); structures of
  procedures inherited from another module's service are called
  `m::V::f_params` where they are defined as `m::V::wire_types::f_params`
  (`get_identifier.cpp:80`, `service_gen.cpp:237`).
- *Outputs.* JavaScript has no classes for generics, for the unions of services or for other
  modules, and numbers only own enumerators; Python's service files import nothing
  (`pygen.cpp:294`), references in a circle cannot be imported, a user's generic stops the
  generator with the file cut.
- *Command lines.* The stream of `jsgen` is never flushed, so a run that ends with 0 may leave
  an empty file (`jsgen.cpp:78`); that of `cppgen` empties its file before it can throw
  (`cppgen.cpp:128`); `-i` reads nothing and dereferences an empty `optional`
  (`lidlc_main.cpp:61`); `lidlq` takes any word for its verb, and the one after it for the
  program's name (`lidlq_main.cpp:70`); `yaml2lidl` and `bin2yaml` find schemas by absolute
  paths only.

## Proofs

For all values of the constants that satisfy the named assumptions of the modules:

| theorem | says | argument |
|---|---|---|
| `MessageBuilder_proofs!TypeCorrect`, `AllocationsSeparate` | the cursor stays in the buffer; regions are aligned, inside it and disjoint | `Separate` alone is not inductive: a new region is disjoint from the old ones because all end at or before the cursor. `IInv` adds that; `PlaceFacts` says what `allocate` returns, from lemmas on `AlignUp` at the top of the module |
| `MessageBuilder_proofs!BodiesFound`, `BuilderImplementsStore`, `SixteenBitsSuffice`, `RootFound` | a body that got room is read back; in 32 KiB the builder implements `ObjectStore` and 16 bits lose nothing; in 64 KiB the root is found | `SInv` adds that each ptr that is part of something lies before the cursor, is written and reads as an object (`SlotsHold`): what a later call writes is behind the cursor, also where a vector of references got no room, so no call but `assign` disturbs one (`Added`) |
| `Emitter_proofs!EmitterTypes`, `EmittedInOrder` | a section is written after all it depends on | `IInv` adds that satisfied keys are marked or those of written sections, and that what is taken in a pass was ready before it: so the free choice of the namespace cannot disturb the order |
| `Emitter_proofs!EmitterImplementsOutput` | the emitter implements `OrderedOutput`: each section is written once, when what it depends on is there, and `emit` ends or throws only when no section that is left could be written | a step of `WriteSection` is a `Write`, the `EndPass` of a pass that took nothing is `Finish`, all others stutter. `OInv` adds that a section is in exactly one list (`Apart`, `Somewhere`), that satisfied keys are those that are provided, and that what the scan went past was not ready and stays so while nothing is taken (`PassedOver`) |
| `Emitter_proofs!EmitterImplementsPasses` | the emitter implements `EmitterPasses`: a pass writes exactly what was ready when it began | what was taken counts as written from `EndScan` on, so that step is the `Pass`, or stutters when nothing was taken: by `TakenIsReady` and `PassedOver`, what was taken is what was ready. An `EndPass` that follows nothing is `Finish`; writing a section moves it within what counts |
| `Emitter_proofs!InstancesAreLookedUp` | for all interfaces: while `generate` goes through the instantiations, none is added but for one of which the category did not look at a member, or not at a part of one | a generator looks up the wire types of its members and what their keys ask for; get_wire_type and category of a type look up what those of all types do that they come by. So every list of look-ups is `Closed`: with a name it has what the name's category asks for (`WireCallsAre`, that `MaxDepth` levels are all; `WireCallsClosed`). `LookedUp` says that the instantiations are closed at every moment, and that what the unions and structures of the module ask for is among them once their loops are over; then an instance of which nothing was overlooked brings nothing new (`NothingNew`) |
| `Emitter_proofs!SectionsAreComplete` | for all interfaces: when the emitter is done, the definition of a type held by value, the `operator==` of a type compared and the servers whose members a descriptor points to come before what needs them | By what a pass writes (`PassesReady`), what a section depends on is given or of an earlier pass (`Earlier`), and a section is written by the first pass that finds it ready (`Prompt`). `SectionsSound` says of every section collected what its keys entail: a definition depends on keys of all types held by value, the unions of calls on the wire types of results (`Sound`, `OwnKey`, `KeysOfSuffix`, `KeysOfWire`), with a definition there is an `operator==` that waits for nothing else (`Paired`), and servers have their sections (`ServersOf`). Then `HeldIsComplete`; an `operator==` is written one pass after its type at the latest, as early as what compares it (`OthersAreCompared`); and the descriptor waits for the unions of calls, which come after all that the servers wait for (`ServersAreComplete`) |
| `MessageBuilder_proofs!LayoutsAreLayouts`, `OffsetsAreTheSame`, `LayoutsAgree` | what is declared has a layout as `layout.hpp` has them; offsets and sizes are the compiler's for values, structs, unions and arrays, and the check refuses only unions the compiler pads | Two invariants. `WInv` is about the computed layouts alone, whatever they are layouts of: a bound on the size and an alignment that divides it, so that no structure is refused. `AInv` adds the compiler's: every declared type is laid out alike, and so are the members of the open one (`Match`); `AddAgrees` compares one `add_member` with one member of a class. Sizes agree because the ends of the members do: the padding taken back is what separates the two |
| `Tasks_proofs!Safe`, `Chained`, `Answered` | for any callers, depth of relays and interleaving: every reference is to a frame that is there, a call that goes on has exactly one frame that will run and one that ended has none, and who gets an answer gets that of the implementation of its own call | none of it is inductive alone. `IInv`: the frames of a call have ranks (relay and place in the chain) that grow from awaiter to awaited, and all but the last await (`Total`), so what runs is the last but for a frame that is done (`Last`): nothing else refers to what is destroyed. `Answers` says where the answer is on its way: in the promise of those that return it, in the holder above those that write it. Each action that ends a coroutine is `Ends` (`FinishEnds`), which `EndsLinks` and `EndsAnswers` are about |
| `Calls_proofs!CallsTypeOK`, `AnswersOfCallsArrive` | through any chain of stubs, relays and zero-copy clients, with buffers of any size, the user sees what the implementation returned, unless a stub displaced a reference | `ResultsArrive` speaks of the end of a call only. `IInv` says where the answer is meanwhile: in a request or in the builder of the frame that `Owner` names while it returns (`ResultIs`), in the response of the topmost stub once that has responded (`AnswerIs`); and that each frame and each request knows what the user asked for (`Relayed`). `Owner` is defined for every part of the stack (`Chain`), so popping a frame keeps it. Bytes of a message that grows stay where they are (`Grown`), hence `WordKept`, `BytesKept`, `ObjectKept`; what is made is read back (`AnswerMade`, `ResponseMade`, `ObjectRead`), also cut out of the message (`Relocates`) |
| `ModuleLoad_proofs!Safe`, `LoadsInOrder`, `BoundAreOfLoaded`, `NamesAreResolved`, `ImportsAreRecorded` | for any files: the tree of modules keeps its shape; loading implements `LoadOrder`; names are resolved to elements of loaded files only, and to all of those that a file may count on; modules are marked and recorded as the files say | `IInv`: each loader on the stack is at the import that the next one loads (`Waits`), so an earlier file reaches every later one and what is imported and not loaded leads back; an element is of a file that has declared its own (`OwnedOK`), which on the stack is the innermost at most, so what a define pass finds is loaded when the pass is over; a name that was not in the tree has one part and never becomes an element (`BoundOK`). `NInv` adds that a file that has declared its elements offers them for good, so a name that stops a define pass is hidden by a nearer module, or of a file that some import reaches only by leading back. `MInv` adds what the loaders on the stack have been given (`Given`) |
| `Services_proofs!ServicesTyped`, `NumbersExtended`, `LookupsAreTheSame`, `ClashesAreRefused`, `HandlesStay` | for any services, bases, names of procedures and orders in which parts are asked for: the unions of a service begin with those of its bases, a look-up by name and one by definition find the same slot, a program is refused exactly when two of its names meet, and no step moves a slot or replaces a definition | `IInv` says of every scope what its slots can hold (`Slots`: each definition once and under the name it belongs to), of structures and unions that their slots are filled from when they are made (`Structs`, `UnionSlots`), of a union that its members are for the first procedures of the service in the order of `inheritance_list`, whatever else is made meanwhile (`UnionMembers`, `Ordered`), and for all of them when it is done (`Complete`); so they are those of a base, as far as both are made (`Alike`). `DefineFacts` says what `define` returns |
| `Instances_proofs!ListsTyped`, `RedefinedWhenShared`, `UnresolvedWhenElsewhere` | for any generics, modules and declarations: the back end throws for a redefined name exactly when an earlier module was generated with an instance of the present one's; what the emitter misses is of a class of another module's generic, or came too late | `IInv`: the classes in scopes are those of the instances generated so far (`InScope`), of different modules they are apart (`Apart`), what is waited for is in the list of the module it was asked in or still pending (`Waiting`, `Asked`), and what a class of another module's generic waits for is never defined (`Elsewhere`) |
| `Lidlc_proofs!ExitStatusTells` | for all elements and orders of runs: lidlc ends with 0 only when the Python or C++ it was to write is all there, and with an exception only when something is missing; what `lidlq` lists has its file | what a status tells is read off the files the run had to write, so the invariant only adds that elements have different symbols and come after their bases (`Loaded`). An inheritance list is then a chain up to an element without a base (`InheritanceChain`); `PassedIs` says where the Python back end stops, `StopsWithFewer` that it would stop there with any of the unions made so far, so what it names of a service is a file already written (`UnionsMade`); `RefusalsTell` goes through the command lines |
| `Lidlc_proofs!FilesAgree` | for all elements and orders of runs, however many of these fail: members have Python's numbers in the other languages, a JavaScript file defines what it refers to, and a C++ file calls things what they are called where they are defined | files stay while elements do not change any more, so `FilesInv` says of each that it is what its back end writes for the elements, and of a C++ file that is not empty that nothing stopped its back end: then the unions of services that it names were made (`GotPast`, `UnionsSeen`). No element is called like a module (`Apart`), so what a symbol inside a module belongs to is itself (`SymbolOfOwner`) and no element is renamed (`ElementsKeepNames`). Members are numbered along the inheritance list, by induction over its length (`MembersCounted`, `NumbersAre`) |

The assumptions are `BuilderAssumption` (sizes are multiples of alignments, an even base
address), `EmitterAssumption` (the shape of sections), `LayoutAssumption` (positive
lengths, a size bound below 2^15), `TasksAssumption` (bounds are numbers, and a call
reaches at least one service), `CallsAssumption` (the same, and the strings and vectors
returned are not empty), `ModuleLoadAssumption` (the shape of file names and of what
files hold), `ServicesAssumption` (a name with `_params` or `_results` behind it is of one
name only, and no union's), `InstancesAssumption` (an instance has its generic's number of
arguments, and every type's parts are among the names: no type holds itself),
`LidlcAssumption` (the shape of elements and of the types in them; what the unions of a service
are called is no element's name, nor one the compiler makes of a procedure's) and
`BackendAssumption` (the shape of declarations: all symbols of a name but the last take an
argument, lists hold what is declared and of their kind, what the generators put before
symbols is no declaration's name, and a module's own services and the structures of their
procedures are not imported). TLC evaluates them in the runs. `LayoutsAgree` holds
for extending unions or arrays of references only as far as the known divergences let it:
its statement has these as hypotheses. `BuilderImplementsStore` assumes a buffer of at most
32 KiB: beyond it a distance may not fit the pointer.

The type invariants of the builder, emitter, layout, services and instances are proved and, being
implied by what the proofs rest on, not checked by the runs.

Only model-checked: the wire format and the front end (`ReadBack`, `RootAtEnd`,
`ModuleReadBack`, `DamageShows`, `LoadedAlike`), whose types and syntax trees are computed by
recursive operators, which the prover does not take (`Scopes`, `OutputFiles`, `Lidlc` and `CppSections` have
recursive functions instead, and `NatSetInduction` is induction over sets, which it takes);
`FailsOnRecursion`, for which the paths through the sections of all generators would have to
be compared with those through the declarations; `ImportsWork`,
which compares an interpreter's run with the graph of the files it reads; and what is temporal,
`Terminates`, `CallsReturn` and `CallsEnd`: liveness under fairness and `ENABLED` are out of the
prover's reach.

## Plan

Done: the message builder, emitter, layout, back end, instances, loading, services, calls,
coroutines, the wire format, the front end, and `lidlc` and `lidlq` with their outputs, with
the proofs above: every safety property of a run is proved but for those that the last
paragraph names. What is left:

- `FailsOnRecursion` for any interfaces: that a section is reached from another exactly when a
  declaration is from its user, with the exceptions that the property names.
- `ImportsWork` for any elements: what an import leaves behind is closed under what the files
  name, and what fails leads back to itself or to a class that no file defines.

## Not modelled

The Rust run time (`runtime/rust`), a sketch that does not compile and for which nothing is
generated; the Python bindings of the compiler (`src/pybindgen`), which have no
state; Python's service client and UDP transport, one more client of the chain that `Calls`
has; the rest of the text of what is generated; the listing that `lidlc -d` makes for build
systems, and the command lines of the converters; YAML as text; vendored code (Lyra, `doctest.h`, `include/tos/span.hpp`), examples,
tests and build files. Of what is modelled: the spelling of lexemes, the wording of
diagnostics, and values of numbers beyond their first byte.
