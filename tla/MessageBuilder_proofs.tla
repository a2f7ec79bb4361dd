------------------------- MODULE MessageBuilder_proofs -------------------------
(***************************************************************************)
(* Proofs about messages: about MessageBuilder, for every buffer, every    *)
(* set of types and every choice of lengths; and, at the end, about the    *)
(* layouts of what is in them.  For all names, lengths and bounds,         *)
(* raw_layout's check never stops a struct, every layout is a multiple of  *)
(* its alignment, and as long as no union extends another and arrays are   *)
(* made of values, the computed layouts are the compiler's.                *)
(*                                                                         *)
(* The two modules share no variable and no constant; nothing that is      *)
(* proved of one rests on the assumption of the other.                     *)
(***************************************************************************)
EXTENDS MessageBuilder, Layout, TLAPS

\* The skipping loop stops at the first aligned place, less than one alignment
\* further.
LEMMA AlignUpFacts ==
    ASSUME NEW p \in Nat, NEW a \in Aligns
    PROVE  /\ AlignUp(p, a) \in Nat
           /\ AlignUp(p, a) >= p
           /\ AlignUp(p, a) < p + a
           /\ AlignUp(p, a) % a = 0
<1>1. CASE a = 1  BY <1>1, SMTT(30) DEF AlignUp
<1>2. CASE a = 2  BY <1>2, SMTT(30) DEF AlignUp
<1>3. CASE a = 4  BY <1>3, SMTT(30) DEF AlignUp
<1>4. CASE a = 8  BY <1>4, SMTT(30) DEF AlignUp
<1> QED BY <1>1, <1>2, <1>3, <1>4 DEF Aligns

\* From an aligned base, aligning addresses and aligning offsets are the same.
LEMMA AlignUpShift ==
    ASSUME NEW b \in Nat, NEW p \in Nat, NEW a \in Aligns, b % a = 0
    PROVE  AlignUp(b + p, a) - b = AlignUp(p, a)
<1>1. CASE a = 1  BY <1>1, SMTT(30) DEF AlignUp
<1>2. CASE a = 2  BY <1>2, SMTT(30) DEF AlignUp
<1>3. CASE a = 4  BY <1>3, SMTT(30) DEF AlignUp
<1>4. CASE a = 8  BY <1>4, SMTT(30) DEF AlignUp
<1> QED BY <1>1, <1>2, <1>3, <1>4 DEF Aligns

\* The conversion to int16_t yields one, and keeps what is one already.
LEMMA Int16Type == ASSUME NEW n \in Int PROVE Int16(n) \in Int16s
<1>1. n % 65536 \in Nat /\ n % 65536 < 65536  BY SMTT(60)
<1> QED BY <1>1, SMTT(60) DEF Int16, Int16s

LEMMA Int16Keeps == ASSUME NEW n \in Int16s PROVE Int16(n) = n
<1>1. n \in Int /\ -32768 <= n /\ n < 32768  BY DEF Int16s
<1>2. CASE n >= 0
  <2>1. n % 65536 = n  BY <1>1, <1>2, SMTT(60)
  <2> QED BY <1>1, <1>2, <2>1, SMTT(60) DEF Int16
<1>3. CASE n < 0
  <2>1. n % 65536 = n + 65536  BY <1>1, <1>3, SMTT(60)
  <2> QED BY <1>1, <1>3, <2>1, SMTT(60) DEF Int16
<1> QED BY <1>1, <1>2, <1>3, SMT

\* What allocate returns and where it leaves the cursor.
LEMMA PlaceFacts ==
    ASSUME NEW cur \in 0 .. Capacity, NEW sz \in Nat, NEW a \in Aligns
    PROVE  /\ Place(cur, sz, a) \in Nat \union {None}
           /\ Bump(cur, sz, a) \in 0 .. Capacity
           /\ Bump(cur, sz, a) >= cur
           /\ Place(cur, sz, a) # None =>
                /\ Place(cur, sz, a) = AlignUp(cur, a)
                /\ Place(cur, sz, a) >= cur
                /\ Place(cur, sz, a) % a = 0
                /\ Bump(cur, sz, a) = Place(cur, sz, a) + sz
<1>1. Capacity \in Nat /\ cur \in Nat  BY BuilderAssumption
<1>2. AlignUp(cur, a) \in Nat /\ AlignUp(cur, a) >= cur /\ AlignUp(cur, a) % a = 0
  BY <1>1, AlignUpFacts
<1> HIDE DEF AlignUp
<1> QED BY <1>1, <1>2, SMT DEF Place, Bump, None

\* The product of two numbers is a number no smaller than the first.
LEMMA ProductFacts ==
    ASSUME NEW m \in Nat, NEW n \in Nat \ {0}
    PROVE  m * n \in Nat /\ m * n >= m
BY SMT

------------------------------------------------------------------------------
\* A view that CreateView adds, for a string, a vector or a vector of references.
NewView(v) ==
    \E esize \in Nat \ {0}, ealign \in Aligns, len \in Nat, isRefs \in BOOLEAN :
        v = View(esize, ealign, len, isRefs)

LEMMA ViewIsNew ==
    ASSUME NEW esize \in Nat \ {0}, NEW ealign \in Aligns, NEW len \in Nat,
           NEW isRefs \in BOOLEAN
    PROVE  NewView(View(esize, ealign, len, isRefs))
BY Zenon DEF NewView

\* How a view sits behind its header.
ViewPlaced(v) ==
    /\ [pos |-> v.pos, size |-> 2, align |-> 2, ptrs |-> {}] \in objs
    /\ v.len * v.esize \in Nat
    /\ v.m_len = Int16(v.len)
    /\ v.body # None =>
          /\ v.body = AlignUp(v.pos + 2, v.ealign)
          /\ v.body + v.len * v.esize <= m_cur_ptr

\* The inductive strengthening of TypeOK and Separate.
IInv == TypeOK /\ Separate /\ \A v \in views : ViewPlaced(v)


\* The types that emplacing is asked for: those of the program and ptr itself.
LEMMA TypeFacts ==
    ASSUME NEW T \in Types \union {PtrType}
    PROVE  /\ T.size \in Nat \ {0} /\ T.align \in Aligns
           /\ T.ptrs \subseteq Nat
           /\ \A p \in T.ptrs : p + 2 <= T.size /\ p % 2 = 0
           /\ T.ptrs # {} => T.align # 1
<1>1. CASE T \in Types  BY <1>1, BuilderAssumption
<1>2. CASE T = PtrType  BY <1>2, SMT DEF PtrType, Aligns
<1> QED BY <1>1, <1>2

\* Emplacing an object, finish included.
LEMMA EmplaceKeeps ==
    ASSUME IInv, NEW T \in Types \union {PtrType}, NEW to \in [T.ptrs -> Positions],
           Emplace(T, to)
    PROVE  IInv'
<1> DEFINE pos == Place(m_cur_ptr, T.size, T.align)
           o   == [pos |-> pos, size |-> T.size, align |-> T.align, ptrs |-> T.ptrs]
<1>1. /\ T.size \in Nat \ {0} /\ T.align \in Aligns
      /\ T.ptrs \subseteq Nat
  BY TypeFacts
<1>2. m_cur_ptr \in 0 .. Capacity /\ Capacity \in Nat
  BY BuilderAssumption DEF IInv, TypeOK
<1>3. /\ pos # None
      /\ m_cur_ptr' = Bump(m_cur_ptr, T.size, T.align)
      /\ objs' = objs \union {o}
      /\ m_offset' = [s \in DOMAIN m_offset \union ObjectSlots(o) |->
                          IF s \in ObjectSlots(o) THEN Encode(s, to[s - pos])
                                                  ELSE m_offset[s]]
      /\ views' = views /\ spinning' = spinning
  BY DEF Emplace
<1>4. /\ pos \in Nat /\ pos >= m_cur_ptr /\ pos % T.align = 0
      /\ m_cur_ptr' \in 0 .. Capacity
      /\ m_cur_ptr' = pos + T.size
  BY <1>1, <1>2, <1>3, PlaceFacts DEF None
<1> HIDE DEF pos
<1>5. o \in ObjectType
  BY <1>1, <1>4 DEF ObjectType
<1>6. Positions \subseteq Nat
  BY DEF IInv, TypeOK, ObjectType, Positions
<1>7. TypeOK'
  <2>1. \A s \in ObjectSlots(o) : s \in Nat /\ Encode(s, to[s - pos]) \in Int16s
    <3> TAKE s \in ObjectSlots(o)
    <3>1. PICK p \in T.ptrs : s = pos + p  BY DEF ObjectSlots
    <3>2. s \in Nat /\ s - pos = p  BY <1>1, <1>4, <3>1
    <3>3. to[p] \in Nat  BY <1>6, <3>1
    <3>4. s - to[p] \in Int  BY <3>2, <3>3
    <3> QED BY <3>2, <3>4, Int16Type DEF Encode
  <2>2. m_offset' \in [DOMAIN m_offset' -> Int16s] /\ DOMAIN m_offset' \subseteq Nat
    BY <1>3, <2>1 DEF IInv, TypeOK
  <2> QED BY <1>3, <1>4, <1>5, <2>2 DEF IInv, TypeOK
<1>8. Regions' = Regions \union {[pos |-> pos, size |-> T.size]}
  BY <1>3 DEF Regions
<1>9. Separate'
  <2>1. \A r \in Regions : r.pos \in Int /\ r.size \in Int
    BY DEF IInv, TypeOK, ObjectType, ViewType, Regions, ViewPlaced, None
  <2>2. \A r \in Regions : r.pos >= 0 /\ r.pos + r.size <= m_cur_ptr
    BY DEF IInv, Separate
  <2>3. \A r \in Regions' : r.pos >= 0 /\ r.pos + r.size <= m_cur_ptr'
    BY <1>1, <1>2, <1>4, <1>8, <2>1, <2>2
  <2>4. \A x \in objs' : x.pos % x.align = 0
    BY <1>3, <1>4 DEF IInv, Separate
  <2>5. \A r \in Regions :
          ~Overlap(r.pos, r.size, pos, T.size) /\ ~Overlap(pos, T.size, r.pos, r.size)
    BY <1>1, <1>2, <1>4, <2>1, <2>2 DEF Overlap
  <2>6. \A r, s \in Regions' : r # s => ~Overlap(r.pos, r.size, s.pos, s.size)
    BY <1>8, <2>5 DEF IInv, Separate
  <2>7. m_cur_ptr' <= Capacity  BY <1>7 DEF TypeOK
  <2> QED BY <2>3, <2>4, <2>6, <2>7 DEF Separate
<1>10. \A v \in views' : ViewPlaced(v)'
  <2> SUFFICES ASSUME NEW v \in views PROVE ViewPlaced(v)'
    BY <1>3
  <2>1. ViewPlaced(v)  BY DEF IInv
  <2>2. v.body \in Int /\ v.len * v.esize \in Nat
    BY <2>1 DEF IInv, TypeOK, ViewType, ViewPlaced, None
  <2>3. v.body + v.len * v.esize <= m_cur_ptr => v.body + v.len * v.esize <= m_cur_ptr'
    BY <1>1, <1>2, <1>4, <2>2
  <2> QED BY <1>3, <2>1, <2>3 DEF ViewPlaced
<1> QED BY <1>7, <1>9, <1>10 DEF IInv

\* A string or vector: its header and, behind it, a body if there is room.
LEMMA CreateViewKeeps ==
    ASSUME IInv, NEW v, NewView(v), CreateView(v),
           m_offset' \in [DOMAIN m_offset' -> Int16s], DOMAIN m_offset' \subseteq Nat
    PROVE  IInv'
<1> DEFINE cur == Bump(m_cur_ptr, 2, 2)
           h   == [pos |-> v.pos, size |-> 2, align |-> 2, ptrs |-> {}]
           n   == v.len * v.esize
<1>1. PICK esize \in Nat \ {0}, ealign \in Aligns, len \in Nat, isRefs \in BOOLEAN :
          v = View(esize, ealign, len, isRefs)
  BY DEF NewView
<1>2. /\ v.pos = Place(m_cur_ptr, 2, 2)
      /\ v.esize = esize /\ v.ealign = ealign /\ v.refs = isRefs /\ v.len = len
      /\ v.m_len = Int16(len)
      /\ v.body = Place(cur, n, ealign)
      /\ v \in [pos : {v.pos}, esize : {esize}, ealign : {ealign}, refs : {isRefs},
                len : {len}, m_len : {v.m_len}, body : {v.body}]
  BY <1>1 DEF View, Header
<1>3. m_cur_ptr \in 0 .. Capacity /\ Capacity \in Nat
  BY BuilderAssumption DEF IInv, TypeOK
<1>4. n \in Nat
  BY <1>2, ProductFacts
<1>5. /\ v.pos # None
      /\ objs' = objs \union {h}
      /\ views' = views \union {v}
      /\ m_cur_ptr' = Bump(cur, n, ealign)
      /\ spinning' = spinning
  BY <1>2 DEF CreateView, Header
<1>6. /\ v.pos \in Nat /\ v.pos >= m_cur_ptr /\ v.pos % 2 = 0
      /\ cur \in 0 .. Capacity /\ cur = v.pos + 2
  BY <1>2, <1>3, <1>5, PlaceFacts DEF None, Aligns
<1> HIDE DEF cur, n
<1>7. /\ v.body \in Nat \union {None}
      /\ m_cur_ptr' \in 0 .. Capacity /\ m_cur_ptr' >= cur
      /\ v.body # None => /\ v.body >= cur
                          /\ v.body = AlignUp(cur, ealign)
                          /\ m_cur_ptr' = v.body + n
  <2>1. v.body = Place(cur, n, ealign) /\ m_cur_ptr' = Bump(cur, n, ealign)
    BY <1>2, <1>5
  <2>2. cur \in 0 .. Capacity /\ n \in Nat /\ ealign \in Aligns
    BY <1>4, <1>6
  <2> QED BY <2>1, <2>2, PlaceFacts
<1>8. TypeOK'
  <2>1. h \in ObjectType
    BY <1>6 DEF ObjectType, Aligns
  <2>2. v \in ViewType
    BY <1>2, <1>6, <1>7, Int16Type DEF ViewType
  <2> QED BY <1>5, <1>7, <2>1, <2>2 DEF IInv, TypeOK
<1>9. Regions' = Regions \union {[pos |-> v.pos, size |-> 2]} \union
                 (IF v.body # None THEN {[pos |-> v.body, size |-> n]} ELSE {})
  <2>1. {[pos |-> x.pos, size |-> x.size] : x \in objs'} =
          {[pos |-> x.pos, size |-> x.size] : x \in objs} \union {[pos |-> v.pos, size |-> 2]}
    <3>1. h.pos = v.pos /\ h.size = 2  OBVIOUS
    <3> HIDE DEF h
    <3> QED BY <1>5, <3>1
  <2>2. CASE v.body # None
    <3>1. {w \in views' : w.body # None} = {w \in views : w.body # None} \union {v}
      BY <1>5, <2>2
    <3> QED BY <2>1, <2>2, <3>1 DEF Regions, n
  <2>3. CASE v.body = None
    <3>1. {w \in views' : w.body # None} = {w \in views : w.body # None}
      BY <1>5, <2>3
    <3> QED BY <2>1, <2>3, <3>1 DEF Regions
  <2> QED BY <2>2, <2>3
<1>10. Separate'
  <2>1. \A r \in Regions : r.pos \in Int /\ r.size \in Int
    BY DEF IInv, TypeOK, ObjectType, ViewType, Regions, ViewPlaced, None
  <2>2. \A r \in Regions : r.pos >= 0 /\ r.pos + r.size <= m_cur_ptr
    BY DEF IInv, Separate
  <2>3. \A r \in Regions' : r.pos >= 0 /\ r.pos + r.size <= m_cur_ptr'
    BY <1>3, <1>4, <1>6, <1>7, <1>9, <2>1, <2>2
  <2>4. \A x \in objs' : x.pos % x.align = 0
    BY <1>5, <1>6 DEF IInv, Separate
  <2>5. \A r \in Regions :
          ~Overlap(r.pos, r.size, v.pos, 2) /\ ~Overlap(v.pos, 2, r.pos, r.size)
    BY <1>3, <1>6, <2>1, <2>2 DEF Overlap
  <2>6. v.body # None =>
          \A r \in Regions :
            ~Overlap(r.pos, r.size, v.body, n) /\ ~Overlap(v.body, n, r.pos, r.size)
    BY <1>3, <1>4, <1>6, <1>7, <2>1, <2>2 DEF Overlap
  <2>7. v.body # None => ~Overlap(v.pos, 2, v.body, n) /\ ~Overlap(v.body, n, v.pos, 2)
    BY <1>4, <1>6, <1>7 DEF Overlap
  <2>8. ASSUME NEW r \in Regions', NEW s \in Regions', r # s
        PROVE  ~Overlap(r.pos, r.size, s.pos, s.size)
    <3>1. CASE v.body # None
      BY <1>9, <2>5, <2>6, <2>7, <2>8, <3>1 DEF IInv, Separate
    <3>2. CASE v.body = None
      BY <1>9, <2>5, <2>8, <3>2 DEF IInv, Separate
    <3> QED BY <3>1, <3>2
  <2>9. m_cur_ptr' <= Capacity  BY <1>8 DEF TypeOK
  <2> QED BY <2>3, <2>4, <2>8, <2>9 DEF Separate
<1>11. \A w \in views' : ViewPlaced(w)'
  <2>1. ASSUME NEW w \in views PROVE ViewPlaced(w)'
    <3>1. ViewPlaced(w)  BY DEF IInv
    <3>2. w.body \in Int /\ w.len * w.esize \in Nat
      BY <3>1 DEF IInv, TypeOK, ViewType, ViewPlaced, None
    <3>3. w.body + w.len * w.esize <= m_cur_ptr => w.body + w.len * w.esize <= m_cur_ptr'
      BY <1>3, <1>6, <1>7, <3>2
    <3> QED BY <1>5, <3>1, <3>3 DEF ViewPlaced
  <2>2. ViewPlaced(v)'
    BY <1>2, <1>4, <1>5, <1>6, <1>7 DEF ViewPlaced, n
  <2> QED BY <1>5, <2>1, <2>2
<1> QED BY <1>8, <1>10, <1>11 DEF IInv

\* The vectors of references write their ptrs as well.
LEMMA RefsKeep ==
    ASSUME IInv, NEW len \in Nat, NEW to \in [0 .. len - 1 -> Positions],
           create_vector_refs(len, to)
    PROVE  IInv'
<1> DEFINE v == View(2, 2, len, TRUE)
<1>1. NewView(v)
  <2>1. 2 \in Nat \ {0} /\ 2 \in Aligns /\ TRUE \in BOOLEAN  BY DEF Aligns
  <2> QED BY <2>1, ViewIsNew, Zenon
<1>2. v.pos \in Nat /\ v.len = len /\ v.ealign = 2
  <2>1. m_cur_ptr \in 0 .. Capacity  BY DEF IInv, TypeOK
  <2>2. Header.pos # None  BY DEF create_vector_refs, CreateView
  <2> QED BY <2>1, <2>2, PlaceFacts DEF View, Header, Aligns
<1> HIDE DEF v
<1>3. Data(v) \in Nat
  <2>1. Base \in Nat /\ Base + v.pos + 2 \in Nat /\ Base + v.pos + 2 >= Base
    BY <1>2, BuilderAssumption
  <2>2. /\ AlignUp(Base + v.pos + 2, 2) \in Nat
        /\ AlignUp(Base + v.pos + 2, 2) >= Base + v.pos + 2
    BY <2>1, AlignUpFacts DEF Aligns
  <2> QED BY <1>2, <2>1, <2>2 DEF Data
<1>4. Positions \subseteq Nat
  BY DEF IInv, TypeOK, ObjectType, Positions
<1>5. /\ CreateView(v)
      /\ m_offset' = [s \in DOMAIN m_offset \union VectorSlots(v) |->
                          IF s \in VectorSlots(v)
                          THEN Encode(s, to[(s - Data(v)) \div 2])
                          ELSE m_offset[s]]
  BY DEF create_vector_refs, v
<1>6. \A s \in VectorSlots(v) :
          s \in Nat /\ Encode(s, to[(s - Data(v)) \div 2]) \in Int16s
  <2> TAKE s \in VectorSlots(v)
  <2>1. PICK i \in 0 .. v.len - 1 : s = Data(v) + 2 * i  BY DEF VectorSlots
  <2>2. s \in Nat /\ (s - Data(v)) \div 2 = i
    BY <1>2, <1>3, <2>1
  <2>3. to[i] \in Nat  BY <1>2, <1>4, <2>1
  <2>4. s - to[i] \in Int  BY <2>2, <2>3
  <2> QED BY <2>2, <2>4, Int16Type DEF Encode
<1>7. m_offset' \in [DOMAIN m_offset' -> Int16s] /\ DOMAIN m_offset' \subseteq Nat
  BY <1>5, <1>6 DEF IInv, TypeOK
<1> QED BY <1>1, <1>5, <1>7, CreateViewKeeps

\* Reassigning a ptr moves nothing.
LEMMA AssignKeeps ==
    ASSUME IInv, NEW s \in DOMAIN m_offset, NEW t \in Positions, assign(s, t)
    PROVE  IInv'
<1>1. s - t \in Int
  BY DEF IInv, TypeOK, ObjectType, Positions
<1>2. Encode(s, t) \in Int16s
  BY <1>1, Int16Type DEF Encode
<1>3. TypeOK'
  BY <1>2 DEF IInv, TypeOK, assign
<1>4. Separate'
  BY DEF IInv, Separate, Regions, assign
<1>5. \A v \in views' : ViewPlaced(v)'
  BY DEF IInv, ViewPlaced, assign
<1> QED BY <1>3, <1>4, <1>5 DEF IInv

LEMMA SpinKeeps ==
    ASSUME IInv, NEW sz, NEW a, Spin(sz, a)
    PROVE  IInv'
BY DEF IInv, TypeOK, Separate, Regions, ViewPlaced, Spin

LEMMA IInvInit == Init => IInv
<1> SUFFICES ASSUME Init PROVE IInv  OBVIOUS
<1>1. TypeOK
  <2>1. m_cur_ptr \in 0 .. Capacity  BY BuilderAssumption DEF Init
  <2>2. m_offset \in [{} -> Int16s] /\ DOMAIN m_offset = {}  BY DEF Init
  <2> QED BY <2>1, <2>2 DEF Init, TypeOK
<1>2. Separate
  BY <1>1 DEF Init, TypeOK, Separate, Regions
<1>3. \A v \in views : ViewPlaced(v)
  BY DEF Init
<1> QED BY <1>1, <1>2, <1>3 DEF IInv

LEMMA IInvStep == IInv /\ [Next]_vars => IInv'
<1> SUFFICES ASSUME IInv, [Next]_vars PROVE IInv'  OBVIOUS
<1>1. ASSUME NEW T \in Types, NEW to \in [T.ptrs -> Positions], Emplace(T, to)
      PROVE  IInv'
  BY <1>1, EmplaceKeeps
<1>2. ASSUME NEW t \in Positions, finish(t)
      PROVE  IInv'
  <2> DEFINE to == [p \in {0} |-> t]
  <2>1. to \in [PtrType.ptrs -> Positions]  BY <1>2 DEF PtrType
  <2>2. Emplace(PtrType, to)  BY <1>2 DEF finish
  <2> QED BY <2>1, <2>2, EmplaceKeeps
<1>3. ASSUME NEW n \in Lens, create_string(n)
      PROVE  IInv'
  <2>1. NewView(View(1, 1, n, FALSE))
    <3>1. 1 \in Nat \ {0} /\ 1 \in Aligns /\ FALSE \in BOOLEAN  BY DEF Aligns
    <3>2. n \in Nat  BY <1>3, BuilderAssumption
    <3> QED BY <3>1, <3>2, ViewIsNew, Zenon
  <2>2. /\ CreateView(View(1, 1, n, FALSE))
        /\ m_offset' \in [DOMAIN m_offset' -> Int16s] /\ DOMAIN m_offset' \subseteq Nat
    BY <1>3 DEF create_string, IInv, TypeOK
  <2> QED BY <2>1, <2>2, CreateViewKeeps
<1>4. ASSUME NEW E \in Elems, NEW n \in Lens, create_vector(E, n)
      PROVE  IInv'
  <2>1. NewView(View(E.size, E.align, n, FALSE))
    BY <1>4, BuilderAssumption, ViewIsNew
  <2>2. /\ CreateView(View(E.size, E.align, n, FALSE))
        /\ m_offset' \in [DOMAIN m_offset' -> Int16s] /\ DOMAIN m_offset' \subseteq Nat
    BY <1>4 DEF create_vector, IInv, TypeOK
  <2> QED BY <2>1, <2>2, CreateViewKeeps
<1>5. ASSUME NEW n \in RefLens, NEW to \in [0 .. n - 1 -> Positions],
             create_vector_refs(n, to)
      PROVE  IInv'
  BY <1>5, RefsKeep, BuilderAssumption
<1>6. ASSUME NEW s \in DOMAIN m_offset, NEW t \in Positions, assign(s, t)
      PROVE  IInv'
  BY <1>6, AssignKeeps
<1>7. ASSUME NEW T \in Types, Spin(T.size, T.align)
      PROVE  IInv'
  BY <1>7, SpinKeeps
<1>8. CASE Spin(2, 2)
  BY <1>8, SpinKeeps
<1>9. CASE UNCHANGED vars
  BY <1>9 DEF IInv, TypeOK, Separate, Regions, ViewPlaced, vars
<1> QED BY <1>1, <1>2, <1>3, <1>4, <1>5, <1>6, <1>7, <1>8, <1>9 DEF Next

\* Types, and the cursor inside the buffer, at all times.
THEOREM TypeCorrect == Spec => []TypeOK
<1>1. IInv => TypeOK  BY DEF IInv
<1> QED BY IInvInit, IInvStep, <1>1, PTL DEF Spec

\* What allocate hands out is in the buffer, aligned and never shared, whatever
\* mix of objects, strings and vectors is built, truncated ones included.
THEOREM AllocationsSeparate == Spec => []Separate
<1>1. IInv => Separate  BY DEF IInv
<1> QED BY IInvInit, IInvStep, <1>1, PTL DEF Spec

----------------------------------------------------------------------------
\* What is read back from a message under construction: bodies, lengths, the root, and
\* pointers; and that the builder implements ObjectStore.  For every buffer, every set of
\* types and every choice of lengths.

\* In memory a body that got room is where data() looks for it: the base address is
\* even, and aligned for the elements where BodyIsData asks for it.
LEMMA BodyPlaced ==
    ASSUME IInv, NEW v \in views, v.body # None, Base % v.ealign = 0
    PROVE  Data(v) = v.body
<1>1. v.pos + 2 \in Nat /\ v.ealign \in Aligns /\ v.body = AlignUp(v.pos + 2, v.ealign)
    <2>1. v \in ViewType /\ ViewPlaced(v)
        BY DEF IInv, TypeOK
    <2>2. v.body = AlignUp(v.pos + 2, v.ealign)
        BY <2>1 DEF ViewPlaced
    <2> QED
        BY <2>1, <2>2 DEF ViewType
<1>2. Base \in Nat /\ v.pos \in Nat
    BY BuilderAssumption DEF IInv, TypeOK, ViewType
<1>3. AlignUp(Base + (v.pos + 2), v.ealign) - Base = AlignUp(v.pos + 2, v.ealign)
    BY <1>1, <1>2, AlignUpShift
<1>4. Base + (v.pos + 2) = Base + v.pos + 2
    BY <1>2
<1> QED
    BY <1>1, <1>3, <1>4 DEF Data

\* A string or vector whose body got room reads its own body (message_builder::
\* allocate, vector::data).
THEOREM BodiesFound == Spec => []BodyIsData
<1>1. IInv => BodyIsData
    BY BodyPlaced DEF BodyIsData
<1> QED
    BY IInvInit, IInvStep, <1>1, PTL DEF Spec

------------------------------------------------------------------------------
\* What allocate hands to an object, and to the header of a string or vector and its
\* body, begins at the cursor or after it.
LEMMA EmplaceFacts ==
    ASSUME IInv, NEW T \in Types \union {PtrType}, NEW to, Emplace(T, to)
    PROVE  LET pos == Place(m_cur_ptr, T.size, T.align) IN
           /\ pos \in Nat /\ pos >= m_cur_ptr
           /\ m_cur_ptr' = pos + T.size /\ m_cur_ptr' <= Capacity
<1>1. m_cur_ptr \in 0 .. Capacity /\ Capacity \in Nat
    BY BuilderAssumption DEF IInv, TypeOK
<1>2. Place(m_cur_ptr, T.size, T.align) # None
    BY DEF Emplace
<1>3. m_cur_ptr' = Bump(m_cur_ptr, T.size, T.align)
    BY DEF Emplace
<1>4. T.size \in Nat /\ T.align \in Aligns
    BY TypeFacts
<1>5. Place(m_cur_ptr, T.size, T.align) \in Nat
    BY <1>1, <1>2, <1>4, PlaceFacts
<1>6. /\ Place(m_cur_ptr, T.size, T.align) >= m_cur_ptr
      /\ Bump(m_cur_ptr, T.size, T.align) = Place(m_cur_ptr, T.size, T.align) + T.size
    BY <1>1, <1>2, <1>4, PlaceFacts
<1>7. Bump(m_cur_ptr, T.size, T.align) \in 0 .. Capacity
    BY <1>1, <1>4, PlaceFacts
<1> QED
    BY <1>1, <1>3, <1>5, <1>6, <1>7

LEMMA ViewFacts ==
    ASSUME IInv, NEW v, NewView(v), CreateView(v)
    PROVE  /\ v.pos \in Nat /\ v.pos >= m_cur_ptr
           /\ v.len \in Nat /\ v.esize \in Nat \ {0} /\ v.refs \in BOOLEAN
           /\ m_cur_ptr' >= v.pos + 2 /\ m_cur_ptr' <= Capacity
           /\ objs' = objs \union {[pos |-> v.pos, size |-> 2, align |-> 2, ptrs |-> {}]}
           /\ views' = views \union {v}
<1> DEFINE cur == Bump(m_cur_ptr, 2, 2)
<1>1. PICK esize \in Nat \ {0}, ealign \in Aligns, len \in Nat, isRefs \in BOOLEAN :
          v = View(esize, ealign, len, isRefs)
    BY DEF NewView
<1>2. /\ v.pos = Place(m_cur_ptr, 2, 2)
      /\ v.esize = esize /\ v.ealign = ealign /\ v.refs = isRefs /\ v.len = len
    BY <1>1 DEF View, Header
<1>3. m_cur_ptr \in 0 .. Capacity /\ Capacity \in Nat
    BY BuilderAssumption DEF IInv, TypeOK
<1>4. v.len * v.esize \in Nat
    BY <1>2, ProductFacts
<1>5. /\ v.pos # None
      /\ objs' = objs \union {[pos |-> v.pos, size |-> 2, align |-> 2, ptrs |-> {}]}
      /\ views' = views \union {v}
      /\ m_cur_ptr' = Bump(cur, v.len * v.esize, ealign)
    BY <1>2 DEF CreateView, Header
<1>6. v.pos \in Nat /\ v.pos >= m_cur_ptr /\ cur \in 0 .. Capacity /\ cur = v.pos + 2
    BY <1>2, <1>3, <1>5, PlaceFacts DEF Aligns
<1> HIDE DEF cur
<1>7. m_cur_ptr' \in 0 .. Capacity /\ m_cur_ptr' >= cur
    BY <1>4, <1>5, <1>6, PlaceFacts
<1> QED
    BY <1>2, <1>3, <1>5, <1>6, <1>7

\* Objects lie before the cursor.
LEMMA PositionFacts ==
    ASSUME IInv, NEW t \in Positions
    PROVE  t \in Nat /\ t < m_cur_ptr
<1>1. PICK o \in objs : t = o.pos
    BY DEF Positions
<1>2. o.pos \in Nat /\ o.size \in Nat \ {0} /\ m_cur_ptr \in Nat
    BY BuilderAssumption DEF IInv, TypeOK, ObjectType
<1>3. [pos |-> o.pos, size |-> o.size] \in Regions
    BY DEF Regions
<1>4. o.pos + o.size <= m_cur_ptr
    BY <1>3 DEF IInv, Separate
<1> QED
    BY <1>1, <1>2, <1>4

\* The buffers that 16-bit offsets are enough for.
Small == Capacity <= 32768

\* Where 15 bits hold both places, their distance survives the conversion.
LEMMA DecodeEncode ==
    ASSUME NEW s \in Nat, NEW t \in Nat, s < 32768, t < 32768
    PROVE  Decode(s, Encode(s, t)) = t
<1>1. s - t \in Int16s
    BY DEF Int16s
<1>2. Int16(s - t) = s - t
    BY <1>1, Int16Keeps
<1> QED
    BY <1>2 DEF Decode, Encode

------------------------------------------------------------------------------
\* Every ptr that is part of what was allocated is before the cursor, written, and reads
\* as an object.  What lies before the cursor is not written but by assign, which is
\* why ptrs that were written where no room was left do no harm.
SlotsHold ==
    \A s \in Slots : /\ s \in Nat /\ s + 2 <= m_cur_ptr
                     /\ s \in DOMAIN m_offset
                     /\ Decode(s, m_offset[s]) \in Positions

SInv == IInv /\ SlotsHold

\* A call that leaves old ptrs alone and writes the new ones adds to the store.
LEMMA Added ==
    ASSUME SlotsHold, m_cur_ptr \in Nat, m_cur_ptr' \in Nat, m_cur_ptr' >= m_cur_ptr,
           Positions \subseteq Positions', Slots \subseteq Slots',
           \A s \in Slots : s \in DOMAIN m_offset' /\ m_offset'[s] = m_offset[s],
           \A s \in Slots' \ Slots :
              /\ s \in Nat /\ s + 2 <= m_cur_ptr'
              /\ s \in DOMAIN m_offset' /\ Decode(s, m_offset'[s]) \in Positions'
    PROVE  SlotsHold' /\ Store!Next
<1>1. \A s \in Slots' : /\ s \in Nat /\ s + 2 <= m_cur_ptr'
                        /\ s \in DOMAIN m_offset' /\ Decode(s, m_offset'[s]) \in Positions'
    <2> TAKE s \in Slots'
    <2>1. CASE s \in Slots
        <3>1. s \in Nat /\ s + 2 <= m_cur_ptr
            BY <2>1 DEF SlotsHold
        <3>2. s + 2 <= m_cur_ptr'
            BY <3>1
        <3>3. Decode(s, m_offset[s]) \in Positions
            BY <2>1 DEF SlotsHold
        <3> QED
            BY <2>1, <3>1, <3>2, <3>3
    <2> QED
        BY <2>1
<1>2. SlotsHold'
    BY <1>1 DEF SlotsHold, Decode
<1>3. Store!Add
    BY <1>1 DEF Store!Add, Decode
<1> QED
    BY <1>2, <1>3 DEF Store!Next

\* Emplacing writes the ptrs of the new object and no others.
LEMMA EmplaceStores ==
    ASSUME SInv, Small, NEW T \in Types \union {PtrType},
           NEW to \in [T.ptrs -> Positions], Emplace(T, to)
    PROVE  SlotsHold' /\ Store!Next
<1> DEFINE pos == Place(m_cur_ptr, T.size, T.align)
           o   == [pos |-> pos, size |-> T.size, align |-> T.align, ptrs |-> T.ptrs]
<1>1. IInv /\ m_cur_ptr \in Nat /\ Capacity \in Nat
    BY BuilderAssumption DEF SInv, IInv, TypeOK
<1>2. /\ pos \in Nat /\ pos >= m_cur_ptr
      /\ m_cur_ptr' = pos + T.size /\ m_cur_ptr' <= Capacity
    BY <1>1, EmplaceFacts
<1>3. /\ objs' = objs \union {o} /\ views' = views
      /\ m_offset' = [s \in DOMAIN m_offset \union ObjectSlots(o) |->
                          IF s \in ObjectSlots(o) THEN Encode(s, to[s - pos])
                                                  ELSE m_offset[s]]
    BY DEF Emplace
<1>4. /\ T.size \in Nat \ {0} /\ T.ptrs \subseteq Nat
      /\ \A p \in T.ptrs : p + 2 <= T.size
    BY TypeFacts
<1>5. o.pos = pos /\ o.ptrs = T.ptrs
    OBVIOUS
<1> HIDE DEF pos, o
<1>6. Positions \subseteq Positions'
    BY <1>3 DEF Positions
<1>7. Slots' = Slots \union ObjectSlots(o)
    <2>1. {ObjectSlots(x) : x \in objs'} = {ObjectSlots(x) : x \in objs} \union {ObjectSlots(o)}
        BY <1>3
    <2> QED
        BY <1>3, <2>1 DEF Slots
<1>8. \A s \in ObjectSlots(o) :
          /\ s \in Nat /\ s >= pos /\ s + 2 <= m_cur_ptr'
          /\ s \in DOMAIN m_offset' /\ Decode(s, m_offset'[s]) \in Positions
    <2> TAKE s \in ObjectSlots(o)
    <2>1. PICK p \in T.ptrs : s = pos + p
        BY <1>5 DEF ObjectSlots
    <2>2. /\ s \in Nat /\ s >= pos /\ s + 2 <= m_cur_ptr' /\ s - pos = p /\ s < 32768
        BY <1>1, <1>2, <1>4, <2>1 DEF Small
    <2>3. to[p] \in Positions
        OBVIOUS
    <2>4. to[p] \in Nat /\ to[p] < 32768
        <3>1. to[p] \in Nat /\ to[p] < m_cur_ptr
            BY <1>1, <2>3, PositionFacts
        <3>2. m_cur_ptr <= Capacity
            BY <1>1, <1>2, <1>4
        <3> QED
            BY <1>1, <3>1, <3>2 DEF Small
    <2>5. m_offset'[s] = Encode(s, to[p]) /\ s \in DOMAIN m_offset'
        BY <1>3, <2>2
    <2> QED
        BY <2>2, <2>3, <2>4, <2>5, DecodeEncode
<1>9. \A s \in Slots : s \in DOMAIN m_offset' /\ m_offset'[s] = m_offset[s]
    <2> TAKE s \in Slots
    <2>1. s \in Nat /\ s + 2 <= m_cur_ptr /\ s \in DOMAIN m_offset
        BY DEF SInv, SlotsHold
    <2>2. s \notin ObjectSlots(o)
        BY <1>1, <1>2, <1>8, <2>1
    <2> QED
        BY <1>3, <2>1, <2>2
<1>10. SlotsHold /\ m_cur_ptr' \in Nat /\ m_cur_ptr' >= m_cur_ptr
    BY <1>1, <1>2, <1>4 DEF SInv
<1> QED
    BY <1>1, <1>6, <1>7, <1>8, <1>9, <1>10, Added

\* A string, or a vector of plain elements, has no ptrs.
LEMMA PlainStores ==
    ASSUME SInv, NEW v, NewView(v), CreateView(v), v.refs = FALSE, m_offset' = m_offset
    PROVE  SlotsHold' /\ Store!Next
<1>1. IInv /\ SlotsHold /\ m_cur_ptr \in Nat /\ Capacity \in Nat
    BY BuilderAssumption DEF SInv, IInv, TypeOK
<1>2. /\ v.pos \in Nat /\ v.pos >= m_cur_ptr
      /\ m_cur_ptr' >= v.pos + 2
      /\ objs' = objs \union {[pos |-> v.pos, size |-> 2, align |-> 2, ptrs |-> {}]}
      /\ views' = views \union {v}
    BY <1>1, ViewFacts
<1>3. m_cur_ptr' \in Nat
    <2>1. IInv'
        BY <1>1, CreateViewKeeps DEF IInv, TypeOK
    <2> QED
        BY <2>1, BuilderAssumption DEF IInv, TypeOK
<1>4. Positions \subseteq Positions'
    BY <1>2 DEF Positions
<1>5. Slots' = Slots
    <2> DEFINE h == [pos |-> v.pos, size |-> 2, align |-> 2, ptrs |-> {}]
    <2>1. ObjectSlots(h) = {}
        BY DEF ObjectSlots
    <2> HIDE DEF h
    <2>2. UNION {ObjectSlots(o) : o \in objs'} = UNION {ObjectSlots(o) : o \in objs}
        <3>1. objs' = objs \union {h}
            BY <1>2 DEF h
        <3> QED
            BY <2>1, <3>1
    <2>3. {w \in views' : w.refs /\ w.body # None} = {w \in views : w.refs /\ w.body # None}
        BY <1>2
    <2> QED
        BY <2>2, <2>3 DEF Slots
<1>6. \A s \in Slots : s \in DOMAIN m_offset'
    BY <1>1 DEF SlotsHold
<1> QED
    BY <1>1, <1>2, <1>3, <1>4, <1>5, <1>6, Added

\* A vector of references writes the ptrs of its body, or, where there is no room for
\* one, places behind the cursor that are no part of anything.
LEMMA RefViewStores ==
    ASSUME SInv, IInv', Small, NEW len \in Nat, NEW to \in [0 .. len - 1 -> Positions],
           NEW v, NewView(v), CreateView(v),
           v.refs = TRUE, v.len = len, v.esize = 2, v.ealign = 2,
           m_offset' = [s \in DOMAIN m_offset \union VectorSlots(v) |->
                          IF s \in VectorSlots(v)
                          THEN Encode(s, to[(s - Data(v)) \div 2])
                          ELSE m_offset[s]]
    PROVE  SlotsHold' /\ Store!Next
<1>1. NewView(v) /\ CreateView(v)
    OBVIOUS
<1>2. m_offset' = [s \in DOMAIN m_offset \union VectorSlots(v) |->
                          IF s \in VectorSlots(v)
                          THEN Encode(s, to[(s - Data(v)) \div 2])
                          ELSE m_offset[s]]
    OBVIOUS
<1>3. v.refs = TRUE /\ v.len = len /\ v.esize = 2 /\ v.ealign = 2
    OBVIOUS
<1>4. /\ IInv /\ SlotsHold /\ m_cur_ptr \in Nat /\ m_cur_ptr <= Capacity
      /\ Capacity \in Nat
    BY BuilderAssumption DEF SInv, IInv, TypeOK
<1>5. /\ v.pos \in Nat /\ v.pos >= m_cur_ptr
      /\ m_cur_ptr' >= v.pos + 2 /\ m_cur_ptr' <= Capacity
      /\ objs' = objs \union {[pos |-> v.pos, size |-> 2, align |-> 2, ptrs |-> {}]}
      /\ views' = views \union {v}
    BY <1>1, <1>4, ViewFacts
<1>6. IInv'
    OBVIOUS
<1>7. m_cur_ptr' \in Nat
    BY <1>6, BuilderAssumption DEF IInv, TypeOK
<1>8. Data(v) \in Nat /\ Data(v) >= v.pos + 2
    <2>1. Base \in Nat /\ Base + v.pos + 2 \in Nat
        BY <1>5, BuilderAssumption
    <2>2. /\ AlignUp(Base + v.pos + 2, 2) \in Nat
          /\ AlignUp(Base + v.pos + 2, 2) >= Base + v.pos + 2
        <3>1. 2 \in Aligns
            BY DEF Aligns
        <3> QED
            BY <2>1, <3>1, AlignUpFacts
    <2> QED
        BY <1>3, <1>5, <2>1, <2>2 DEF Data
<1>9. v.body # None => Data(v) + 2 * len <= m_cur_ptr'
    <2> HAVE v.body # None
    <2>1. v \in views' /\ Base % v.ealign = 0
        BY <1>3, <1>5, BuilderAssumption
    <2>2. ViewPlaced(v)'
        BY <1>6, <2>1 DEF IInv
    <2>3. v.body + v.len * v.esize <= m_cur_ptr' /\ v.body = AlignUp(v.pos + 2, v.ealign)
        BY <2>2 DEF ViewPlaced
    <2>4. AlignUp(Base + (v.pos + 2), v.ealign) - Base = AlignUp(v.pos + 2, v.ealign)
        <3>1. v.ealign \in Aligns /\ Base \in Nat /\ v.pos + 2 \in Nat
            BY <1>3, <1>5, BuilderAssumption DEF Aligns
        <3> QED
            BY <2>1, <3>1, AlignUpShift
    <2>5. Base + (v.pos + 2) = Base + v.pos + 2
        BY <1>5, BuilderAssumption
    <2>6. Data(v) = v.body
        BY <2>3, <2>4, <2>5 DEF Data
    <2> QED
        BY <1>3, <1>8, <2>3, <2>6
<1>10. \A s \in VectorSlots(v) :
          /\ s \in Nat /\ s >= m_cur_ptr + 2
          /\ v.body # None => /\ s + 2 <= m_cur_ptr'
                              /\ s \in DOMAIN m_offset'
                              /\ Decode(s, m_offset'[s]) \in Positions
    <2> TAKE s \in VectorSlots(v)
    <2>1. PICK i \in 0 .. len - 1 : s = Data(v) + 2 * i
        BY <1>3 DEF VectorSlots
    <2>2. s \in Nat /\ s >= m_cur_ptr + 2 /\ (s - Data(v)) \div 2 = i
        <3>1. Data(v) \in Nat /\ i \in Nat /\ Data(v) >= m_cur_ptr + 2
            BY <1>4, <1>5, <1>8
        <3> QED
            BY <1>4, <2>1, <3>1
    <2>3. s \in DOMAIN m_offset' /\ m_offset'[s] = Encode(s, to[i])
        BY <1>2, <2>2
    <2>4. to[i] \in Positions
        OBVIOUS
    <2>5. to[i] \in Nat /\ to[i] < 32768
        <3>1. to[i] \in Nat /\ to[i] < m_cur_ptr
            BY <1>4, <2>4, PositionFacts
        <3> QED
            BY <1>4, <3>1 DEF Small
    <2>6. v.body # None => s + 2 <= m_cur_ptr' /\ s < 32768
        <3> HAVE v.body # None
        <3>1. Data(v) + 2 * len <= m_cur_ptr' /\ s = Data(v) + 2 * i /\ i <= len - 1
            BY <1>9, <2>1
        <3>2. m_cur_ptr' <= Capacity /\ m_cur_ptr' \in Nat /\ Data(v) \in Nat
            BY <1>5, <1>7, <1>8
        <3>3. s + 2 <= m_cur_ptr'
            BY <3>1, <3>2
        <3> QED
            BY <1>4, <2>2, <3>2, <3>3 DEF Small
    <2>7. v.body # None => Decode(s, Encode(s, to[i])) = to[i]
        BY <2>2, <2>5, <2>6, DecodeEncode
    <2> QED
        BY <2>2, <2>3, <2>4, <2>6, <2>7
<1>11. Positions \subseteq Positions'
    BY <1>5 DEF Positions
<1>12. /\ Slots \subseteq Slots'
       /\ Slots' \subseteq Slots \union (IF v.body # None THEN VectorSlots(v) ELSE {})
    <2> DEFINE h == [pos |-> v.pos, size |-> 2, align |-> 2, ptrs |-> {}]
    <2>1. ObjectSlots(h) = {}
        BY DEF ObjectSlots
    <2> HIDE DEF h
    <2>2. UNION {ObjectSlots(o) : o \in objs'} = UNION {ObjectSlots(o) : o \in objs}
        <3>1. objs' = objs \union {h}
            BY <1>5 DEF h
        <3> QED
            BY <2>1, <3>1
    <2>3. {w \in views' : w.refs /\ w.body # None}
            = {w \in views : w.refs /\ w.body # None}
                \union (IF v.body # None THEN {v} ELSE {})
        BY <1>3, <1>5
    <2> QED
        BY <2>2, <2>3 DEF Slots
<1>13. \A s \in Slots : s \in DOMAIN m_offset' /\ m_offset'[s] = m_offset[s]
    <2> TAKE s \in Slots
    <2>1. s \in Nat /\ s + 2 <= m_cur_ptr /\ s \in DOMAIN m_offset
        BY <1>4 DEF SlotsHold
    <2>2. s \notin VectorSlots(v)
        BY <1>4, <1>10, <2>1
    <2> QED
        BY <1>2, <2>1, <2>2
<1>14. \A s \in Slots' \ Slots : /\ v.body # None /\ s \in VectorSlots(v)
    BY <1>12
<1>15. m_cur_ptr' >= m_cur_ptr
    BY <1>4, <1>5, <1>7
<1> QED
    BY <1>4, <1>7, <1>10, <1>11, <1>12, <1>13, <1>14, <1>15, Added

\* What create_vector_refs adds is such a vector.
LEMMA RefsStore ==
    ASSUME SInv, Small, NEW len \in Nat, NEW to \in [0 .. len - 1 -> Positions],
           create_vector_refs(len, to)
    PROVE  SlotsHold' /\ Store!Next
<1> DEFINE v == View(2, 2, len, TRUE)
<1>1. NewView(v)
    <2>1. 2 \in Nat \ {0} /\ 2 \in Aligns /\ TRUE \in BOOLEAN
        BY DEF Aligns
    <2> QED
        BY <2>1, ViewIsNew, Zenon
<1>2. IInv'
    BY RefsKeep DEF SInv
<1>3. v.refs = TRUE /\ v.len = len /\ v.esize = 2 /\ v.ealign = 2
    BY DEF View
<1> HIDE DEF v
<1>4. /\ CreateView(v)
      /\ m_offset' = [s \in DOMAIN m_offset \union VectorSlots(v) |->
                          IF s \in VectorSlots(v)
                          THEN Encode(s, to[(s - Data(v)) \div 2])
                          ELSE m_offset[s]]
    BY DEF create_vector_refs, v
<1> QED
    BY <1>1, <1>2, <1>3, <1>4, RefViewStores

\* A ptr that is assigned again is redirected; where it is no part of anything, nothing
\* that can be read changes.
LEMMA AssignLinks ==
    ASSUME SInv, Small, NEW s \in DOMAIN m_offset, NEW t \in Positions,
           assign(s, t)
    PROVE  SlotsHold' /\ [Store!Next]_(Store!vars)
<1>1. /\ IInv /\ SlotsHold /\ m_cur_ptr \in Nat /\ m_cur_ptr <= Capacity
      /\ Capacity \in Nat
    BY BuilderAssumption DEF SInv, IInv, TypeOK
<1>2. UNCHANGED <<m_cur_ptr, objs, views>> /\ m_offset' = [m_offset EXCEPT ![s] = Encode(s, t)]
    BY DEF assign
<1>3. Slots' = Slots /\ Positions' = Positions
    BY <1>2 DEF Slots, Positions, Data, VectorSlots, ObjectSlots
<1>4. DOMAIN m_offset' = DOMAIN m_offset
    BY <1>2
<1>5. \A r \in Slots : r # s => m_offset'[r] = m_offset[r]
    BY <1>1, <1>2 DEF SlotsHold
<1>6. s \in Slots => Decode(s, m_offset'[s]) = t
    <2> HAVE s \in Slots
    <2>1. s \in Nat /\ s < 32768
        BY <1>1 DEF SlotsHold, Small
    <2>2. t \in Nat /\ t < 32768
        <3>1. t \in Nat /\ t < m_cur_ptr
            BY <1>1, PositionFacts
        <3> QED
            BY <1>1, <3>1 DEF Small
    <2> QED
        BY <1>2, <2>1, <2>2, DecodeEncode
<1>7. \A r \in Slots : /\ r \in Nat /\ r + 2 <= m_cur_ptr'
                       /\ r \in DOMAIN m_offset' /\ Decode(r, m_offset'[r]) \in Positions
    BY <1>1, <1>2, <1>4, <1>5, <1>6 DEF SlotsHold
<1>8. SlotsHold'
    BY <1>3, <1>7 DEF SlotsHold, Decode
<1>9. CASE s \in Slots
    <2>1. [r \in Slots' |-> Decode(r, m_offset'[r])]
            = [[r \in Slots |-> Decode(r, m_offset[r])] EXCEPT ![s] = t]
        BY <1>3, <1>5, <1>6, <1>9
    <2>2. Store!Link(s, t)
        BY <1>3, <1>9, <2>1 DEF Store!Link, Decode
    <2> QED
        BY <1>8, <1>9, <2>2 DEF Store!Next
<1>10. CASE s \notin Slots
    BY <1>3, <1>5, <1>8, <1>10 DEF Store!vars, Decode
<1> QED
    BY <1>9, <1>10

\* Each step of the builder is one of the store, or leaves it as it is.
LEMMA StoreStep ==
    ASSUME SInv, Small, [Next]_vars
    PROVE  SInv' /\ [Store!Next]_(Store!vars)
<1>1. IInv'
    BY IInvStep DEF SInv
<1>2. ASSUME NEW T \in Types, NEW to \in [T.ptrs -> Positions], Emplace(T, to)
      PROVE  SlotsHold' /\ Store!Next
    BY <1>2, EmplaceStores
<1>3. ASSUME NEW t \in Positions, finish(t)
      PROVE  SlotsHold' /\ Store!Next
    <2> DEFINE to == [p \in {0} |-> t]
    <2>1. to \in [PtrType.ptrs -> Positions]
        BY DEF PtrType
    <2>2. Emplace(PtrType, to)
        BY <1>3 DEF finish
    <2> QED
        BY <2>1, <2>2, EmplaceStores
<1>4. ASSUME NEW n \in Lens, create_string(n)
      PROVE  SlotsHold' /\ Store!Next
    <2>1. NewView(View(1, 1, n, FALSE))
        <3>1. 1 \in Nat \ {0} /\ 1 \in Aligns /\ FALSE \in BOOLEAN
            BY DEF Aligns
        <3>2. n \in Nat
            BY BuilderAssumption
        <3> QED
            BY <3>1, <3>2, ViewIsNew, Zenon
    <2>2. View(1, 1, n, FALSE).refs = FALSE
        BY DEF View
    <2> QED
        BY <1>4, <2>1, <2>2, PlainStores DEF create_string
<1>5. ASSUME NEW E \in Elems, NEW n \in Lens, create_vector(E, n)
      PROVE  SlotsHold' /\ Store!Next
    <2>1. NewView(View(E.size, E.align, n, FALSE))
        BY BuilderAssumption, ViewIsNew
    <2>2. View(E.size, E.align, n, FALSE).refs = FALSE
        BY DEF View
    <2> QED
        BY <1>5, <2>1, <2>2, PlainStores DEF create_vector
<1>6. ASSUME NEW n \in RefLens, NEW to \in [0 .. n - 1 -> Positions],
             create_vector_refs(n, to)
      PROVE  SlotsHold' /\ Store!Next
    BY <1>6, RefsStore, BuilderAssumption
<1>7. ASSUME NEW s \in DOMAIN m_offset, NEW t \in Positions, assign(s, t)
      PROVE  SlotsHold' /\ [Store!Next]_(Store!vars)
    BY <1>7, AssignLinks
<1>8. ASSUME UNCHANGED <<m_cur_ptr, objs, views, m_offset>>
      PROVE  SlotsHold' /\ UNCHANGED Store!vars
    BY <1>8 DEF SInv, SlotsHold, Slots, Positions, Data, VectorSlots, ObjectSlots,
                Store!vars, Decode
<1>9. ASSUME NEW T \in Types, Spin(T.size, T.align)
      PROVE  SlotsHold' /\ UNCHANGED Store!vars
    BY <1>8, <1>9 DEF Spin
<1>10. CASE Spin(2, 2)
    BY <1>1, <1>8, <1>10 DEF Spin, SInv
<1>11. CASE UNCHANGED vars
    BY <1>1, <1>8, <1>11 DEF vars, SInv
<1> QED
    BY <1>1, <1>2, <1>3, <1>4, <1>5, <1>6, <1>7, <1>9, <1>10, <1>11 DEF Next, SInv

\* Nothing is there at first.
LEMMA StoreInit == Init => SInv /\ Store!Init
<1> SUFFICES ASSUME Init PROVE SInv /\ Store!Init
    OBVIOUS
<1>1. Slots = {} /\ Positions = {}
    BY DEF Init, Slots, Positions
<1>2. SlotsHold
    BY <1>1 DEF SlotsHold
<1>3. Store!Init
    BY <1>1 DEF Store!Init
<1> QED
    BY <1>2, <1>3, IInvInit DEF SInv

\* In a buffer of at most 32 KiB the builder is an ObjectStore: each ptr reads as the
\* object it was last made to refer to, whatever is built in between, strings and
\* vectors without room for their bodies included (ptr.hpp, builder.hpp).
THEOREM BuilderImplementsStore ==
    ASSUME Capacity <= 32768
    PROVE  Spec => StoreSpec
<1>1. SInv /\ [Next]_vars => SInv' /\ [Store!Next]_(Store!vars)
    BY StoreStep DEF Small
<1> QED
    BY StoreInit, <1>1, PTL DEF Spec, StoreSpec, Store!Spec

\* In such a buffer lengths are read back as well: a body that fits is shorter than it.
LEMMA LengthsKept ==
    ASSUME IInv, Small, NEW v \in views, v.body # None
    PROVE  v.m_len = v.len
<1>1. v \in ViewType /\ ViewPlaced(v) /\ m_cur_ptr \in 0 .. Capacity /\ Capacity \in Nat
    BY BuilderAssumption DEF IInv, TypeOK
<1>2. /\ v.len \in Nat /\ v.esize \in Nat \ {0} /\ v.body \in Nat
    BY <1>1 DEF ViewType
<1>3. /\ v.m_len = Int16(v.len) /\ v.body + v.len * v.esize <= m_cur_ptr
      /\ v.body = AlignUp(v.pos + 2, v.ealign)
    BY <1>1 DEF ViewPlaced
<1>4. v.len * v.esize \in Nat /\ v.len * v.esize >= v.len
    BY <1>2, ProductFacts
<1>5. v.body >= 1
    <2>1. v.pos + 2 \in Nat /\ v.pos + 2 >= 2 /\ v.ealign \in Aligns
        BY <1>1 DEF ViewType
    <2> QED
        BY <1>3, <2>1, AlignUpFacts
<1>6. v.len < 32768
    BY <1>1, <1>2, <1>3, <1>4, <1>5 DEF Small
<1>7. v.len \in Int16s
    BY <1>2, <1>6 DEF Int16s
<1> QED
    BY <1>3, <1>7, Int16Keeps

\* In a buffer of at most 32 KiB neither lengths nor pointers lose anything in 16 bits
\* (vector.hpp, ptr.hpp).
THEOREM SixteenBitsSuffice == Spec => []Int16sSuffice
<1>1. CASE Small
    <2>1. SInv /\ [Next]_vars => SInv'
        BY <1>1, StoreStep
    <2>2. SInv => Int16sSuffice
        BY <1>1, LengthsKept DEF SInv, SlotsHold, Int16sSuffice
    <2> QED
        BY StoreInit, <2>1, <2>2, PTL DEF Spec
<1>2. CASE ~Small
    <2>1. Int16sSuffice
        BY <1>2 DEF Small, Int16sSuffice
    <2> QED
        BY <2>1, PTL
<1> QED
    BY <1>1, <1>2

------------------------------------------------------------------------------
\* The buffers whose sizes get_buffer() does not cut.
Addressable == Capacity < 65536

\* The conversion to uint16_t keeps what is one.
LEMMA Uint16Keeps == ASSUME NEW n \in Nat, n < 65536 PROVE Uint16(n) = n
BY SMTT(60) DEF Uint16

\* The object that a call adds alone ends where the cursor is then.
LEMMA NewIsLast ==
    ASSUME IInv, [Next]_vars, Addressable, NEW o \in objs' \ objs, views' = views
    PROVE  get_root(o.size)' = o.pos
<1>1. m_cur_ptr' \in 0 .. Capacity /\ Capacity \in Nat
    BY IInvStep, BuilderAssumption DEF IInv, TypeOK
<1>2. ASSUME NEW T \in Types \union {PtrType}, NEW to, Emplace(T, to)
      PROVE  m_cur_ptr' = o.pos + o.size /\ o.pos \in Nat /\ o.size \in Nat
    <2>1. o = [pos |-> Place(m_cur_ptr, T.size, T.align), size |-> T.size,
               align |-> T.align, ptrs |-> T.ptrs]
        BY <1>2 DEF Emplace
    <2>2. o.pos = Place(m_cur_ptr, T.size, T.align) /\ o.size = T.size
        BY <2>1
    <2> QED
        BY <1>2, <2>2, EmplaceFacts, TypeFacts
<1>3. ASSUME NEW v, NewView(v), CreateView(v)
      PROVE  FALSE
    <2>1. /\ views' = views \union {v}
          /\ objs' = objs \union {[pos |-> v.pos, size |-> 2, align |-> 2, ptrs |-> {}]}
        BY <1>3, ViewFacts
    <2>2. v \in views
        BY <2>1
    <2>3. [pos |-> v.pos, size |-> 2, align |-> 2, ptrs |-> {}] \in objs
        BY <2>2 DEF IInv, ViewPlaced
    <2> QED
        BY <2>1, <2>3
<1>4. ASSUME NEW esize \in Nat \ {0}, NEW ealign \in Aligns, NEW len \in Nat,
             NEW isRefs \in BOOLEAN, CreateView(View(esize, ealign, len, isRefs))
      PROVE  FALSE
    BY <1>3, <1>4, ViewIsNew
<1>5. ASSUME objs' = objs
      PROVE  FALSE
    BY <1>5
<1>6. m_cur_ptr' = o.pos + o.size /\ o.pos \in Nat /\ o.size \in Nat
    <2>1. CASE \E T \in Types : \E to \in [T.ptrs -> Positions] : Emplace(T, to)
        BY <1>2, <2>1
    <2>2. CASE \E t \in Positions : finish(t)
        BY <1>2, <2>2 DEF finish
    <2>3. ASSUME NEW n \in Lens, create_string(n)
          PROVE  FALSE
        <3>1. 1 \in Nat \ {0} /\ 1 \in Aligns /\ FALSE \in BOOLEAN /\ n \in Nat
            BY BuilderAssumption DEF Aligns
        <3>2. CreateView(View(1, 1, n, FALSE))
            BY <2>3, Zenon DEF create_string
        <3> QED
            BY <1>4, <3>1, <3>2, Zenon
    <2>4. ASSUME NEW E \in Elems, NEW n \in Lens, create_vector(E, n)
          PROVE  FALSE
        <3>1. E.size \in Nat \ {0} /\ E.align \in Aligns /\ FALSE \in BOOLEAN /\ n \in Nat
            BY BuilderAssumption
        <3>2. CreateView(View(E.size, E.align, n, FALSE))
            BY <2>4, Zenon DEF create_vector
        <3> QED
            BY <1>4, <3>1, <3>2, Zenon
    <2>5. ASSUME NEW n \in RefLens, NEW to \in [0 .. n - 1 -> Positions],
                 create_vector_refs(n, to)
          PROVE  FALSE
        <3>1. 2 \in Nat \ {0} /\ 2 \in Aligns /\ TRUE \in BOOLEAN /\ n \in Nat
            BY BuilderAssumption DEF Aligns
        <3>2. CreateView(View(2, 2, n, TRUE))
            BY <2>5, Zenon DEF create_vector_refs
        <3> QED
            BY <1>4, <3>1, <3>2, Zenon
    <2>6. CASE \E s \in DOMAIN m_offset, t \in Positions : assign(s, t)
        BY <1>5, <2>6 DEF assign
    <2>7. CASE (\E T \in Types : Spin(T.size, T.align)) \/ Spin(2, 2)
        BY <1>5, <2>7 DEF Spin
    <2>8. CASE UNCHANGED vars
        BY <1>5, <2>8 DEF vars
    <2> QED
        BY <2>1, <2>2, <2>3, <2>4, <2>5, <2>6, <2>7, <2>8 DEF Next
<1>7. Uint16(m_cur_ptr') = m_cur_ptr'
    <2>1. m_cur_ptr' \in Nat /\ m_cur_ptr' < 65536
        BY <1>1 DEF Addressable
    <2> QED
        BY <2>1, Uint16Keeps
<1>8. get_root(o.size)' = Uint16(m_cur_ptr') - o.size
    BY DEF get_root, size, Uint16
<1> QED
    BY <1>6, <1>7, <1>8

\* get_root on the finished part of a buffer of less than 64 KiB finds the object that
\* was emplaced last (message_builder::get_buffer, get_root).
THEOREM RootFound == Spec => RootIsLast
<1>1. IInv /\ [Next]_vars
        => (Capacity < 65536 =>
              \A o \in objs' \ objs : views' = views => get_root(o.size)' = o.pos)
    BY NewIsLast DEF Addressable
<1> QED
    BY IInvInit, IInvStep, <1>1, PTL DEF Spec, RootIsLast

------------------------------------------------------------------------------
\* A layout that a type may have.
Good(l) == /\ l \in [size : Nat, alignment : Aligns]
           /\ l.size >= 1
           /\ l.size % l.alignment = 0

\* A state of compound_layout: what it holds is aligned, its padding is a part of it.
Fine(c) == /\ c.size \in Nat /\ c.size >= 1 /\ c.alignment \in Aligns
           /\ c.size % c.alignment = 0
           /\ c.padding \in 0 .. 8 /\ c.padding <= c.size

\* ... that agrees with what the C++ compiler has made of the same members.
Match(c, x) == /\ Fine(c)
               /\ x.end = c.size - c.padding
               /\ x.alignment = c.alignment
               /\ x.offsets = c.offsets
               /\ c.size = CxxStruct(x).size

\* A type as the compiler has it.
Sized(t) == /\ Good(t.layout) /\ t.layout.size <= MaxSize
            /\ t.category \in {"value", "reference"}
            /\ t.is_inline \in BOOLEAN

\* What holds of the computed layouts, whatever they are layouts of.
WInv == /\ \A t \in types : Sized(t)
        /\ open \in {"nothing", "struct", "union", "bad_union", "member_exists"}
        /\ open = "struct" => /\ Fine(computer) /\ computer.size <= MaxSize
                              /\ DOMAIN computer.offsets \subseteq Names
        /\ open = "union" => /\ alternatives \in Layouts
                             /\ members # {} => alternatives.size >= 1
        /\ members \subseteq {"value", "reference"}

\* Sizes agree because the end of the members does: the padding that is taken back
\* is what separates the two.
AInv == /\ \A t \in types : t.abi = t.layout
        /\ open = "struct" => Match(computer, cxx)
        /\ open = "union" => cxx = alternatives
        /\ open = "bad_union" => cxx.size # alternatives.size

\* The bound on sizes is an int16_t with room for the largest alignment.
LEMMA MaxSizeType == MaxSize \in Nat /\ 8 <= MaxSize /\ MaxSize < 32768
BY LayoutAssumption

LEMMA LcmType ==
    ASSUME NEW a \in Aligns, NEW b \in Aligns
    PROVE  Lcm(a, b) \in Aligns /\ Lcm(a, b) >= a /\ Lcm(a, b) >= b
BY DEF Lcm, Aligns

\* What is aligned stays where it is; what is not moves.
LEMMA AlignUpStays ==
    ASSUME NEW p \in Nat, NEW a \in Aligns
    PROVE  AlignUp(p, a) = p <=> p % a = 0
<1>1. CASE a = 1  BY <1>1, SMTT(30) DEF AlignUp
<1>2. CASE a = 2  BY <1>2, SMTT(30) DEF AlignUp
<1>3. CASE a = 4  BY <1>3, SMTT(30) DEF AlignUp
<1>4. CASE a = 8  BY <1>4, SMTT(30) DEF AlignUp
<1> QED BY <1>1, <1>2, <1>3, <1>4 DEF Aligns

LEMMA RawLayoutKeeps ==
    ASSUME NEW sz \in 0 .. MaxSize, NEW al \in Aligns
    PROVE  RawLayout(sz, al) = [size |-> sz, alignment |-> al]
<1>1. sz \in Int16s /\ al \in Int16s
    BY MaxSizeType DEF Int16s, Aligns
<1>2. Int16(sz) = sz /\ Int16(al) = al
    BY <1>1, Int16Keeps
<1> QED
    BY <1>2, Zenon DEF RawLayout

\* One more member: it is where the last one ended or behind, and the padding that was
\* taken back is put behind it.
Offset(c, l) == AlignUp(c.size - c.padding, l.alignment)

AddedTo(d, c, n, l) ==
    /\ Offset(c, l) + l.size \in Nat /\ Offset(c, l) + l.size >= 1
    /\ d.alignment = Lcm(c.alignment, l.alignment)
    /\ d.size = AlignUp(Offset(c, l) + l.size, d.alignment)
    /\ d.size - d.padding = Offset(c, l) + l.size
    /\ d.offsets = [z \in DOMAIN c.offsets \union {n} |->
                       IF z = n THEN Offset(c, l) ELSE c.offsets[z]]

LEMMA AddIsFine ==
    ASSUME NEW c, Fine(c), NEW n, NEW l, Good(l)
    PROVE  Fine(add_member(c, n, l)) /\ AddedTo(add_member(c, n, l), c, n, l)
<1> DEFINE al     == Lcm(c.alignment, l.alignment)
           begin  == c.size - c.padding
           offset == AlignUp(begin, l.alignment)
           end    == offset + l.size
           d      == add_member(c, n, l)
<1>1. /\ al \in Aligns /\ begin \in Nat /\ l.size \in Nat /\ l.alignment \in Aligns
      /\ l.size >= 1
    BY LcmType DEF Fine, Good
<1>2. offset \in Nat
    BY <1>1, AlignUpFacts
<1>3. end = offset + l.size /\ end \in Nat /\ end >= 1
    BY <1>1, <1>2
<1>4. /\ AlignUp(end, al) \in Nat /\ AlignUp(end, al) >= end
      /\ AlignUp(end, al) < end + al /\ AlignUp(end, al) % al = 0
    BY <1>1, <1>3, AlignUpFacts
<1> HIDE DEF al, begin, end
<1>5. begin + PadTo(begin, l.alignment) = offset
    BY <1>1, <1>2 DEF PadTo, offset
<1> HIDE DEF offset
<1>6. end + PadTo(end, al) = AlignUp(end, al)
    BY <1>3, <1>4 DEF PadTo
<1>7. /\ d.size = AlignUp(end, al) /\ d.alignment = al /\ d.padding = PadTo(end, al)
      /\ d.offsets = [z \in DOMAIN c.offsets \union {n} |->
                         IF z = n THEN offset ELSE c.offsets[z]]
    BY <1>3, <1>5, <1>6 DEF add_member, al, begin
<1> HIDE DEF d
<1>8. d.padding \in 0 .. 8 /\ d.padding <= d.size /\ d.size - d.padding = end
    BY <1>1, <1>3, <1>4, <1>7 DEF PadTo, Aligns
<1>9. Fine(d)
    BY <1>1, <1>3, <1>4, <1>7, <1>8 DEF Fine
<1> QED
    BY <1>3, <1>7, <1>8, <1>9 DEF AddedTo, Offset, al, offset, begin, d

\* ... and both sides still agree.
LEMMA AddAgrees ==
    ASSUME NEW c, NEW x, Match(c, x), NEW n, NEW l, Good(l)
    PROVE  Match(add_member(c, n, l), CxxAdd(x, n, l))
<1> DEFINE end == Offset(c, l) + l.size
           d   == add_member(c, n, l)
           y   == CxxAdd(x, n, l)
<1>1. /\ Fine(c) /\ x.end = c.size - c.padding /\ x.alignment = c.alignment
      /\ x.offsets = c.offsets
    BY DEF Match
<1>2. Fine(d) /\ AddedTo(d, c, n, l)
    BY <1>1, AddIsFine
<1> HIDE DEF d
<1>3. /\ end \in Nat /\ end >= 1
      /\ d.size = AlignUp(end, d.alignment) /\ d.size - d.padding = end
    BY <1>2 DEF AddedTo
<1>4. y.end = end /\ y.alignment = d.alignment /\ y.offsets = d.offsets
    BY <1>1, <1>2 DEF CxxAdd, Offset, AddedTo
<1> HIDE DEF y, end
<1>5. d.size = CxxStruct(y).size
    BY <1>3, <1>4 DEF CxxStruct
<1>6. Match(d, y)
    BY <1>2, <1>3, <1>4, <1>5 DEF Match
<1> QED
    BY <1>6 DEF d, y

LEMMA NewAgrees == Match(NewComputer, NoMembers)
BY DEF Match, Fine, NewComputer, NoMembers, CxxStruct, Aligns

\* The basic types and ptr are laid out as the compiler does.
LEMMA BasicSized == \A t \in Basic \union {Ptr} : Sized(t) /\ t.abi = t.layout
<1>1. \A n \in Aligns : n \in 0 .. MaxSize /\ n % n = 0
    BY MaxSizeType DEF Aligns
<1>2. \A n \in Aligns : RawLayout(n, n) = [size |-> n, alignment |-> n]
    BY <1>1, RawLayoutKeeps
<1>3. \A n \in Aligns : Good(RawLayout(n, n)) /\ RawLayout(n, n).size <= MaxSize
    BY <1>1, <1>2 DEF Good, Aligns
<1>4. \A t \in Basic \union {Ptr} :
          \E n \in Aligns : /\ t.layout = RawLayout(n, n) /\ t.abi = RawLayout(n, n)
                            /\ t.category \in {"value", "reference"}
                            /\ t.is_inline = TRUE
    BY DEF Basic, Ptr, Type, Aligns
<1> QED
    BY <1>3, <1>4 DEF Sized

LEMMA WireTypeSized ==
    ASSUME NEW t, Sized(t)
    PROVE  Sized(WireType(t)) /\ (t.abi = t.layout => WireType(t).abi = WireType(t).layout)
BY BasicSized DEF WireType

\* A computed size that is small enough is what raw_layout has.
LEMMA CompoundSized ==
    ASSUME NEW c, Fine(c), c.size <= MaxSize, NEW abi,
           NEW cat \in {"value", "reference"}, NEW alts,
           NEW t, t = Type(RawLayout(c.size, c.alignment), abi, cat, cat = "value", alts)
    PROVE  Sized(t) /\ t.layout = [size |-> c.size, alignment |-> c.alignment] /\ t.abi = abi
<1> DEFINE l == [size |-> c.size, alignment |-> c.alignment]
<1>1. c.size \in 0 .. MaxSize /\ c.alignment \in Aligns
    BY MaxSizeType DEF Fine
<1>2. RawLayout(c.size, c.alignment) = l
    BY <1>1, RawLayoutKeeps
<1>3. Good(l) /\ l.size <= MaxSize
    BY DEF Fine, Good
<1>4. t.layout = l /\ t.abi = abi /\ t.category = cat /\ t.is_inline = (cat = "value")
    BY <1>2, Zenon DEF Type
<1>5. t.is_inline \in BOOLEAN
    BY <1>4, Zenon
<1> HIDE DEF l
<1>6. Sized(t)
    BY <1>3, <1>4, <1>5 DEF Sized
<1> QED
    BY <1>4, <1>6 DEF l

\* A layout with something in it is a good one, and a good one that is small enough is
\* one that the types have.
LEMMA LayoutIsGood ==
    ASSUME NEW l \in Layouts, l.size >= 1
    PROVE  Good(l)
<1>1. l \in [size : 0 .. MaxSize, alignment : Aligns] /\ l.size % l.alignment = 0
    BY Zenon DEF Layouts
<1>2. MaxSize \in Nat
    BY MaxSizeType
<1>3. l \in [size : Nat, alignment : Aligns]
    BY <1>1, <1>2
<1> QED
    BY <1>1, <1>3 DEF Good

LEMMA GoodIsLayout ==
    ASSUME NEW l, Good(l), l.size <= MaxSize, MaxSize \in Nat
    PROVE  l \in Layouts
<1>1. l \in [size : Nat, alignment : Aligns]
    BY Zenon DEF Good
<1>2. l.size % l.alignment = 0
    BY Zenon DEF Good
<1>3. l.size \in 0 .. MaxSize
    BY <1>1
<1>4. l \in [size : 0 .. MaxSize, alignment : Aligns]
    BY <1>1, <1>3
<1> QED
    BY <1>2, <1>4, Zenon DEF Layouts

\* A union is as large as its largest alternative, and what BadAlignment lets pass is a
\* layout.
LEMMA UnionAdd ==
    ASSUME NEW k \in Layouts, NEW l, Good(l), l.size <= MaxSize,
           NEW u, u = union_add(k, l)
    PROVE  /\ u.size \in 1 .. MaxSize /\ u.alignment \in Aligns
           /\ u = [size |-> u.size, alignment |-> u.alignment]
           /\ u.size % u.alignment = 0 => u \in Layouts
           /\ CxxAlternative(k, l)
                 = [size |-> AlignUp(u.size, u.alignment), alignment |-> u.alignment]
<1>1. l.size \in Nat /\ l.size >= 1 /\ l.alignment \in Aligns
    BY DEF Good
<1>2. k.size \in 0 .. MaxSize /\ k.alignment \in Aligns /\ MaxSize \in Nat
    BY MaxSizeType DEF Layouts
<1>3. /\ u.size = IF k.size >= l.size THEN k.size ELSE l.size
      /\ u.alignment = Lcm(k.alignment, l.alignment)
      /\ u = [size |-> u.size, alignment |-> u.alignment]
    BY DEF union_add
<1>4. u.size \in 1 .. MaxSize /\ u.alignment \in Aligns
    BY <1>1, <1>2, <1>3, LcmType
<1>5. u.size % u.alignment = 0 => u \in Layouts
    BY <1>2, <1>3, <1>4 DEF Layouts
<1>6. CxxAlternative(k, l)
         = [size |-> AlignUp(u.size, u.alignment), alignment |-> u.alignment]
    BY <1>3, Zenon DEF CxxAlternative
<1> QED
    BY <1>3, <1>4, <1>5, <1>6

\* n times a multiple of an alignment is one.
LEMMA ProductAligned ==
    ASSUME NEW s \in Nat, NEW n \in Nat, NEW a \in Aligns, s % a = 0
    PROVE  (s * n) % a = 0
<1>1. PICK k \in Nat : s = a * k
    <2>1. s = a * (s \div a) /\ s \div a \in Nat
        BY DEF Aligns
    <2> QED BY <2>1
<1>2. s * n = a * (k * n) /\ k * n \in Nat
    BY <1>1 DEF Aligns
<1> DEFINE m == k * n
<1> HIDE DEF m
<1>3. \A j \in Nat : (a * j) % a = 0
    BY DEF Aligns
<1> QED
    BY <1>2, <1>3

LEMMA NoneIsLayout == NoLayout = [size |-> 0, alignment |-> 1] /\ NoLayout \in Layouts
<1>1. 0 \in 0 .. MaxSize /\ 1 \in Aligns
    BY MaxSizeType DEF Aligns
<1>2. NoLayout = [size |-> 0, alignment |-> 1]
    BY <1>1, RawLayoutKeeps DEF NoLayout
<1> QED
    BY <1>1, <1>2 DEF Layouts

------------------------------------------------------------------------------
\* The parts of the steps that end a declaration.
UnionHead(raw) ==
    IF raw THEN NewComputer ELSE add_member(NewComputer, "discriminator", RawLayout(1, 1))
CxxHead(raw) ==
    IF raw THEN NoMembers ELSE CxxAdd(NoMembers, "discriminator", RawLayout(1, 1))

LEMMA ByteIsGood == Good(RawLayout(1, 1))
BY Int16Keeps DEF RawLayout, Int16s, Good, Aligns

LEMMA HeadsAgree ==
    ASSUME NEW raw \in BOOLEAN
    PROVE  Match(UnionHead(raw), CxxHead(raw))
BY ByteIsGood, NewAgrees, AddAgrees DEF UnionHead, CxxHead

\* The type that a step declares: its layout is that of a compound of the wire types.
LEMMA EndUnionMakes ==
    ASSUME WInv, NEW raw \in BOOLEAN, EndUnion(raw)
    PROVE  \E t : /\ Sized(t) /\ types' = types \union {t}
                  /\ cxx = alternatives => t.abi = t.layout
<1> DEFINE all == add_member(UnionHead(raw), "val", alternatives)
           x   == CxxAdd(CxxHead(raw), "val", cxx)
           cat == Category(members)
           t   == Type(RawLayout(all.size, all.alignment), CxxStruct(x), cat, cat = "value", cxx)
<1>1. Good(alternatives)
    <2>1. open = "union" /\ members # {}
        BY Zenon DEF EndUnion
    <2>2. alternatives \in Layouts /\ alternatives.size >= 1
        BY <2>1, Zenon DEF WInv
    <2> QED
        BY <2>2, LayoutIsGood
<1>2. Fine(all)
    <2>1. Fine(UnionHead(raw))
        BY HeadsAgree DEF Match
    <2> QED
        BY <1>1, <2>1, AddIsFine
<1>3. cxx = alternatives => Match(all, x)
    BY <1>1, HeadsAgree, AddAgrees
<1>4. all.size <= MaxSize /\ types' = types \union {t}
    BY DEF EndUnion, UnionHead, CxxHead
<1>5. cat \in {"value", "reference"}
    BY DEF Category
<1> HIDE DEF all, cat, x
<1>6. /\ Sized(t) /\ t.layout = [size |-> all.size, alignment |-> all.alignment]
      /\ t.abi = CxxStruct(x)
    BY <1>2, <1>4, <1>5, CompoundSized
<1> HIDE DEF t
<1>7. cxx = alternatives => t.abi = t.layout
    BY <1>3, <1>6 DEF Match, CxxStruct
<1> QED
    BY <1>4, <1>6, <1>7

LEMMA EndStructMakes ==
    ASSUME WInv, EndStruct
    PROVE  \E t : /\ Sized(t) /\ types' = types \union {t}
                  /\ Match(computer, cxx) => t.abi = t.layout
<1> DEFINE cat == Category(members)
           t   == Type(RawLayout(computer.size, computer.alignment), CxxStruct(cxx),
                       cat, cat = "value", NoLayout)
<1>1. Fine(computer) /\ computer.size <= MaxSize
    BY DEF EndStruct, WInv
<1>2. types' = types \union {t}
    BY DEF EndStruct
<1>3. cat \in {"value", "reference"}
    BY DEF Category
<1> HIDE DEF cat
<1>4. /\ Sized(t) /\ t.layout = [size |-> computer.size, alignment |-> computer.alignment]
      /\ t.abi = CxxStruct(cxx)
    BY <1>1, <1>3, CompoundSized
<1> HIDE DEF t
<1>5. Match(computer, cxx) => t.abi = t.layout
    BY <1>4 DEF Match, CxxStruct
<1> QED
    BY <1>2, <1>4, <1>5

\* An array of values: its size is a multiple of the alignment as its element's is.
LEMMA InstantiateMakes ==
    ASSUME WInv, NEW v \in types, NEW len \in Lengths, Instantiate(v, len)
    PROVE  \E t : /\ Sized(t) /\ types' = types \union {t}
                  /\ (v.abi = v.layout /\ "reference" \notin Elements) => t.abi = t.layout
<1> DEFINE e == WireType(v)
           l == [size |-> e.layout.size * len, alignment |-> e.layout.alignment]
           t == Type(IF e.category = "reference" THEN RawLayout(2, 2)
                     ELSE RawLayout(e.layout.size * len, e.layout.alignment),
                     [size |-> e.abi.size * len, alignment |-> e.abi.alignment],
                     e.category, TRUE, NoLayout)
<1>1. Sized(e) /\ (v.abi = v.layout => e.abi = e.layout)
    BY WireTypeSized DEF WInv
<1>2. /\ e.category \in Elements /\ e.layout.size * len <= MaxSize
      /\ types' = types \union {t}
    BY DEF Instantiate
<1>3. /\ e.layout.size \in Nat /\ e.layout.size >= 1 /\ e.layout.alignment \in Aligns
      /\ e.layout.size % e.layout.alignment = 0 /\ e.category \in {"value", "reference"}
    BY <1>1 DEF Sized, Good
<1>4. len \in Nat /\ len >= 1
    BY LayoutAssumption
<1> HIDE DEF e
<1>5. e.layout.size * len \in Nat /\ e.layout.size * len >= 1
    BY <1>3, <1>4
<1>6. RawLayout(e.layout.size * len, e.layout.alignment) = l
    BY <1>2, <1>3, <1>5, MaxSizeType, RawLayoutKeeps
<1>7. l.size % l.alignment = 0
    BY <1>3, <1>4, ProductAligned
<1>8. Good(l) /\ l.size <= MaxSize
    BY <1>2, <1>3, <1>5, <1>7 DEF Good
<1>9. Good(RawLayout(2, 2)) /\ RawLayout(2, 2).size <= MaxSize
    <2>1. Sized(Ptr) /\ Ptr.layout = RawLayout(2, 2)
        BY BasicSized DEF Ptr, Type
    <2> QED
        BY <2>1 DEF Sized
<1>10. /\ t.layout = IF e.category = "reference" THEN RawLayout(2, 2) ELSE l
       /\ t.abi = [size |-> e.abi.size * len, alignment |-> e.abi.alignment]
       /\ t.category = e.category /\ t.is_inline = TRUE
    BY <1>6 DEF Type
<1> HIDE DEF t
<1>11. (v.abi = v.layout /\ "reference" \notin Elements) => t.abi = t.layout
    BY <1>1, <1>2, <1>10
<1> HIDE DEF l
<1>12. Sized(t)
    BY <1>3, <1>8, <1>9, <1>10 DEF Sized
<1> QED
    BY <1>2, <1>11, <1>12

------------------------------------------------------------------------------
\* The layouts that are computed stay layouts.
LEMMA AddMemberSized ==
    ASSUME WInv, NEW n \in Names, NEW t \in types, AddMember(n, t)
    PROVE  WInv'
<1> DEFINE l == WireType(t).layout
           c == add_member(computer, n, l)
<1>1. Good(l) /\ WireType(t).category \in {"value", "reference"}
    BY WireTypeSized DEF WInv, Sized
<1>2. Fine(computer) /\ DOMAIN computer.offsets \subseteq Names
    BY DEF AddMember, WInv
<1>3. Fine(c)
    BY <1>1, <1>2, AddIsFine
<1>4. DOMAIN c.offsets = DOMAIN computer.offsets \union {n}
    BY DEF add_member
<1>5. /\ computer' = c /\ c.size <= MaxSize
      /\ open' = IF BadAlignment(c.size, c.alignment) THEN "bad_struct" ELSE "struct"
      /\ types' = types /\ members' = members \union {WireType(t).category}
    BY DEF AddMember
<1> HIDE DEF l, c
<1>6. open' = "struct"
    BY <1>3, <1>5 DEF Fine, BadAlignment
<1> QED
    BY <1>1, <1>2, <1>3, <1>4, <1>5, <1>6 DEF WInv

LEMMA AddAlternativeSized ==
    ASSUME WInv, NEW t \in types, AddAlternative(t)
    PROVE  WInv'
<1> DEFINE l == WireType(t).layout
           u == union_add(alternatives, l)
<1>1. Good(l) /\ l.size <= MaxSize /\ WireType(t).category \in {"value", "reference"}
    BY WireTypeSized DEF WInv, Sized
<1>2. alternatives \in Layouts
    BY DEF AddAlternative, WInv
<1>3. u.size \in 1 .. MaxSize /\ (u.size % u.alignment = 0 => u \in Layouts)
    BY <1>1, <1>2, UnionAdd
<1>4. /\ alternatives' = u
      /\ open' = IF u.size % u.alignment # 0 THEN "bad_union" ELSE "union"
      /\ types' = types /\ members' = members \union {WireType(t).category}
    BY DEF AddAlternative, BadAlignment
<1> HIDE DEF l, u
<1>5. u.size >= 1
    BY <1>3, MaxSizeType
<1> QED
    BY <1>1, <1>3, <1>4, <1>5 DEF WInv

LEMMA BeginSized ==
    ASSUME WInv,
           BeginStruct \/ BeginUnion \/ (\E n \in Names : AddTwice(n)) \/ UNCHANGED layout_vars
    PROVE  WInv'
<1>1. CASE BeginStruct
    <2>1. /\ Fine(NewComputer) /\ NewComputer.size <= MaxSize
          /\ DOMAIN NewComputer.offsets \subseteq Names
        BY NewAgrees, MaxSizeType DEF NewComputer, Match
    <2> QED
        BY <1>1, <2>1 DEF BeginStruct, WInv
<1>2. CASE BeginUnion
    BY <1>2, NoneIsLayout DEF BeginUnion, WInv
<1>3. CASE \E n \in Names : AddTwice(n)
    BY <1>3 DEF AddTwice, WInv
<1>4. CASE UNCHANGED layout_vars
    BY <1>4 DEF layout_vars, WInv
<1> QED
    BY <1>1, <1>2, <1>3, <1>4

\* What a step that declares the type t does to the invariants.
LEMMA DeclareSized ==
    ASSUME WInv, NEW t, Sized(t), types' = types \union {t}, open' = "nothing",
           members' = members
    PROVE  WInv'
<1>1. \A u \in types' : Sized(u)
    BY DEF WInv
<1> QED
    BY <1>1 DEF WInv

LEMMA WInvStep == WInv /\ [LayoutNext]_layout_vars => WInv'
<1> SUFFICES ASSUME WInv, [LayoutNext]_layout_vars PROVE WInv'
    OBVIOUS
<1>1. ASSUME NEW n \in Names, NEW t \in types, AddMember(n, t) PROVE WInv'
    BY <1>1, AddMemberSized
<1>2. ASSUME NEW t \in types, AddAlternative(t) PROVE WInv'
    BY <1>2, AddAlternativeSized
<1>3. CASE EndStruct
    <2>1. PICK t : Sized(t) /\ types' = types \union {t}
        BY <1>3, EndStructMakes
    <2> QED
        BY <1>3, <2>1, DeclareSized DEF EndStruct
<1>4. ASSUME NEW raw \in BOOLEAN, EndUnion(raw) PROVE WInv'
    <2>1. PICK t : Sized(t) /\ types' = types \union {t}
        BY <1>4, EndUnionMakes
    <2> QED
        BY <1>4, <2>1, DeclareSized DEF EndUnion
<1>5. ASSUME NEW v \in types, NEW len \in Lengths, Instantiate(v, len) PROVE WInv'
    <2>1. PICK t : Sized(t) /\ types' = types \union {t}
        BY <1>5, InstantiateMakes
    <2> QED
        BY <1>5, <2>1, DeclareSized DEF Instantiate
<1> QED
    BY <1>1, <1>2, <1>3, <1>4, <1>5, BeginSized DEF LayoutNext

LEMMA WInvInit == LayoutInit => WInv
BY BasicSized DEF LayoutInit, WInv

LEMMA Invariant == LayoutSpec => []WInv
BY WInvInit, WInvStep, PTL DEF LayoutSpec

------------------------------------------------------------------------------
\* What the C++ compiler makes of them stays the same.
LEMMA AddMemberAgrees ==
    ASSUME WInv, AInv, NEW n \in Names, NEW t \in types, AddMember(n, t)
    PROVE  AInv'
<1> DEFINE l == WireType(t).layout
<1>1. Good(l) /\ WireType(t).abi = l
    BY WireTypeSized DEF WInv, AInv, Sized
<1>2. Match(computer, cxx)
    BY DEF AddMember, AInv
<1>3. Match(add_member(computer, n, l), CxxAdd(cxx, n, l))
    BY <1>1, <1>2, AddAgrees, Zenon
<1>4. computer' = add_member(computer, n, l) /\ cxx' = CxxAdd(cxx, n, l)
      /\ types' = types /\ open' \in {"struct", "bad_struct"}
    BY <1>1 DEF AddMember
<1> HIDE DEF l
<1> QED
    BY <1>3, <1>4 DEF AInv

\* With alternatives that need no padding at the end the two agree; with others the
\* constructor of raw_layout throws.
LEMMA AddAlternativeAgrees ==
    ASSUME WInv, AInv, NEW t \in types, AddAlternative(t)
    PROVE  AInv'
<1> DEFINE l == WireType(t).layout
           u == union_add(alternatives, l)
<1>1. Good(l) /\ l.size <= MaxSize /\ WireType(t).abi = l
    BY WireTypeSized DEF WInv, AInv, Sized
<1>2. alternatives \in Layouts /\ cxx = alternatives
    BY DEF AddAlternative, WInv, AInv
<1>3. u.size \in 1 .. MaxSize /\ u.alignment \in Aligns
      /\ u = [size |-> u.size, alignment |-> u.alignment]
    BY <1>1, <1>2, UnionAdd
<1>4. CxxAlternative(cxx, l) = [size |-> AlignUp(u.size, u.alignment), alignment |-> u.alignment]
    BY <1>1, <1>2, UnionAdd
<1>5. /\ alternatives' = u /\ cxx' = CxxAlternative(cxx, l) /\ types' = types
      /\ open' = IF u.size % u.alignment # 0 THEN "bad_union" ELSE "union"
    BY <1>1 DEF AddAlternative, BadAlignment
<1> HIDE DEF l, u
<1>6. AlignUp(u.size, u.alignment) = u.size <=> u.size % u.alignment = 0
    BY <1>3, MaxSizeType, AlignUpStays
<1> QED
    BY <1>3, <1>4, <1>5, <1>6 DEF AInv

LEMMA BeginAgrees ==
    ASSUME AInv, Extending = FALSE,
           BeginStruct \/ BeginUnion \/ (\E n \in Names : AddTwice(n)) \/ UNCHANGED layout_vars
    PROVE  AInv'
<1>1. CASE BeginStruct
    BY <1>1, NewAgrees DEF BeginStruct, AInv
<1>2. CASE BeginUnion
    BY <1>2 DEF BeginUnion, AInv
<1>3. CASE \E n \in Names : AddTwice(n)
    BY <1>3 DEF AddTwice, AInv
<1>4. CASE UNCHANGED layout_vars
    BY <1>4 DEF layout_vars, AInv
<1> QED
    BY <1>1, <1>2, <1>3, <1>4

LEMMA DeclareAgrees ==
    ASSUME AInv, NEW t, t.abi = t.layout, types' = types \union {t}, open' = "nothing"
    PROVE  AInv'
BY DEF AInv

LEMMA AInvStep ==
    ASSUME Extending = FALSE, "reference" \notin Elements
    PROVE  WInv /\ AInv /\ [LayoutNext]_layout_vars => AInv'
<1> SUFFICES ASSUME WInv, AInv, [LayoutNext]_layout_vars PROVE AInv'
    OBVIOUS
<1>1. ASSUME NEW n \in Names, NEW t \in types, AddMember(n, t) PROVE AInv'
    BY <1>1, AddMemberAgrees
<1>2. ASSUME NEW t \in types, AddAlternative(t) PROVE AInv'
    BY <1>2, AddAlternativeAgrees
<1>3. CASE EndStruct
    <2>1. Match(computer, cxx)
        BY <1>3 DEF EndStruct, AInv
    <2>2. PICK t : t.abi = t.layout /\ types' = types \union {t}
        BY <1>3, <2>1, EndStructMakes
    <2> QED
        BY <1>3, <2>2, DeclareAgrees DEF EndStruct
<1>4. ASSUME NEW raw \in BOOLEAN, EndUnion(raw) PROVE AInv'
    <2>1. cxx = alternatives
        BY <1>4 DEF EndUnion, AInv
    <2>2. PICK t : t.abi = t.layout /\ types' = types \union {t}
        BY <1>4, <2>1, EndUnionMakes
    <2> QED
        BY <1>4, <2>2, DeclareAgrees DEF EndUnion
<1>5. ASSUME NEW v \in types, NEW len \in Lengths, Instantiate(v, len) PROVE AInv'
    <2>1. PICK t : t.abi = t.layout /\ types' = types \union {t}
        BY <1>5, InstantiateMakes DEF AInv
    <2> QED
        BY <1>5, <2>1, DeclareAgrees DEF Instantiate
<1> QED
    BY <1>1, <1>2, <1>3, <1>4, <1>5, BeginAgrees DEF LayoutNext

\* Both invariants hold, where they can be expected to.
LEMMA Agreement ==
    ASSUME Extending = FALSE, "reference" \notin Elements
    PROVE  LayoutSpec => [](WInv /\ AInv)
<1>1. LayoutInit => AInv
    BY BasicSized DEF LayoutInit, AInv
<1> QED
    BY Invariant, AInvStep, <1>1, PTL DEF LayoutSpec

------------------------------------------------------------------------------
\* Every computed layout is one: its size is a multiple of its alignment, fits the bound,
\* and raw_layout's constructor stops no struct.  For all types, also where the
\* compiler of C++ disagrees.
THEOREM LayoutsAreLayouts == LayoutSpec => [](LayoutTypeOK /\ open # "bad_struct")
<1>1. WInv => LayoutTypeOK /\ open # "bad_struct"
    <2> SUFFICES ASSUME WInv PROVE LayoutTypeOK
        BY DEF WInv
    <2>1. \A t \in types : t.layout \in Layouts
        BY MaxSizeType, GoodIsLayout DEF WInv, Sized
    <2>2. open = "struct" =>
              [size |-> computer.size, alignment |-> computer.alignment] \in Layouts
        BY MaxSizeType DEF WInv, Fine, Layouts
    <2> QED
        BY <2>1, <2>2 DEF WInv, Sized, Fine, LayoutTypeOK
<1> QED
    BY Invariant, <1>1, PTL

\* The offsets of the members are those that the C++ compiler gives to the members of
\* the emitted struct: for unions that extend nothing and arrays of values.
THEOREM OffsetsAreTheSame ==
    ASSUME Extending = FALSE, "reference" \notin Elements
    PROVE  LayoutSpec => []OffsetsAgree
<1>1. WInv /\ AInv => OffsetsAgree
    BY DEF AInv, Match, OffsetsAgree
<1> QED
    BY Agreement, <1>1, PTL

\* Every layout that is computed is the one the C++ compiler gives to the emitted
\* type, and raw_layout's constructor stops no struct, and no union that needs no
\* padding: for unions that extend nothing and arrays of values.
THEOREM LayoutsAgree ==
    ASSUME Extending = FALSE, "reference" \notin Elements
    PROVE  LayoutSpec => []TypesAgree
<1>1. WInv /\ AInv => TypesAgree
    BY DEF WInv, AInv, TypesAgree
<1> QED
    BY Agreement, <1>1, PTL
================================================================================
