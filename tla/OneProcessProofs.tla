------------------------ MODULE OneProcessProofs ----------------------------
(***************************************************************************)
(* The programs without messages, one part each.  The file manager: its    *)
(* screen invariant and its rule for changing directories, for every tree  *)
(* of directories and every height.  The shop: the order in which its      *)
(* threads end, and that goods are neither lost nor consumed twice, for    *)
(* any number of stores and customers.  Between them, the sums the shop's  *)
(* balance is made of.  The phone books: that the two of them know the     *)
(* same names, and that the array is a list.  Last, the exercises: what    *)
(* each of their loops computes, for numbers, texts, headers, arrays and   *)
(* matrices of every size.                                                 *)
(***************************************************************************)
EXTENDS MCOneProcess, SequenceTheorems, FiniteSetTheorems, TLAPS

USE DEF Panels

(* The cursor and the entry under it depend on each other: an entry of the *)
(* right kind is what Enter opens, and Enter is what sets the cursor back. *)
Screen == TypeOK /\ CursorVisible

(* A listing has one well-formed entry for each name.                      *)
LEMMA ListingIsSequence ==
  ASSUME NEW d \in Dirs, NEW l \in Listings(d)
  PROVE  l \in Seq([name : Names, is_dir : BOOLEAN])
<1>1. Entries[d] \in Seq(Names)
  BY TreeAssumption
<1>2. Len(Entries[d]) \in Nat
  BY <1>1
<1>3. \A k \in 1..Len(Entries[d]) : Entries[d][k] \in Names
  BY <1>1
<1>4. PICK denied : l = [k \in 1..Len(Entries[d]) |->
          [name |-> Entries[d][k],
           is_dir |-> Target[d][Entries[d][k]] # None /\ k \notin denied]]
  BY DEF Listings
<1>5. l \in [1..Len(Entries[d]) -> [name : Names, is_dir : BOOLEAN]]
  BY <1>3, <1>4
<1>6. Seq([name : Names, is_dir : BOOLEAN]) =
        UNION {[1..n -> [name : Names, is_dir : BOOLEAN]] : n \in Nat}
  BY SeqDef, Zenon
<1> QED
  BY <1>2, <1>5, <1>6, Zenon

(* The entry under the cursor of a panel is one of its entries.            *)
LEMMA SelectedIsName ==
  ASSUME Screen, NEW p \in Panels, OnDirectory(p)
  PROVE  Selected(p) \in Names
<1>1. files[p] \in Seq([name : Names, is_dir : BOOLEAN]) /\ files[p] # <<>>
  BY DEF Screen, TypeOK, OnDirectory
<1>2. Len(files[p]) \in Nat \ {0}
  BY <1>1
<1>3. current_file[p] + 1 \in 1..Len(files[p])
  BY <1>2 DEF Screen, TypeOK, CursorVisible
<1>4. files[p][current_file[p] + 1] \in [name : Names, is_dir : BOOLEAN]
  BY <1>1, <1>3, ElementOfSeq, Zenon
<1> QED
  BY <1>4 DEF Selected

(* The program starts with both cursors at the top.                        *)
LEMMA ScreenInit == Init => Screen
<1> SUFFICES ASSUME Init PROVE Screen
  OBVIOUS
<1>1. Start \in Dirs
  BY TreeAssumption
<1> DEFINE S == Seq([name : Names, is_dir : BOOLEAN])
<1>2. {<<>>} \cup Listings(Start) \subseteq S
  <2>1. Listings(Start) \subseteq S
    BY <1>1, ListingIsSequence
  <2> DEFINE R == [name : Names, is_dir : BOOLEAN]
  <2> HIDE DEF R
  <2>2. <<>> \in Seq(R)
    OBVIOUS
  <2> QED BY <2>1, <2>2 DEF R
<1>3. files \in [Panels -> S]
  <2> HIDE DEF S
  <2> QED BY <1>2 DEF Init
<1>4. TypeOK
  BY <1>1, <1>3 DEF Init, TypeOK
<1>5. CursorVisible
  BY <1>3, HeightAssumption DEF Init, CursorVisible
<1> QED
  BY <1>4, <1>5 DEF Screen

(* Every key keeps the cursor of the active panel on its screen and leaves *)
(* the other panel alone.                                                  *)
LEMMA ScreenNext == Screen /\ [Next]_vars => Screen'
<1> SUFFICES ASSUME Screen, [Next]_vars PROVE Screen'
  OBVIOUS
<1> USE HeightAssumption DEF Screen
<1> DEFINE p == active_panel
<1>t. /\ p \in Panels
      /\ current_file \in [Panels -> Nat]
      /\ scroll_offset \in [Panels -> Nat]
      /\ files \in [Panels -> Seq([name : Names, is_dir : BOOLEAN])]
      /\ \A q \in Panels : Len(files[q]) \in Nat
  BY DEF TypeOK
<1>1. CASE KeyUp
  <2>1. /\ current_file[p] > 0
        /\ current_file' = [current_file EXCEPT ![p] = @ - 1]
        /\ scroll_offset' = [scroll_offset EXCEPT
                  ![p] = IF current_file'[p] < @ THEN @ - 1 ELSE @]
        /\ UNCHANGED <<files, current_path, entered, active_panel, cwd,
                       running>>
    BY <1>1 DEF KeyUp
  <2>2. current_file'[p] = current_file[p] - 1
    BY <2>1, <1>t
  <2>3. scroll_offset'[p] = IF current_file[p] - 1 < scroll_offset[p]
                            THEN scroll_offset[p] - 1 ELSE scroll_offset[p]
    BY <2>1, <2>2, <1>t
  <2>4. \A q \in Panels : q # p => /\ current_file'[q] = current_file[q]
                                   /\ scroll_offset'[q] = scroll_offset[q]
    BY <2>1, <1>t
  <2>5. scroll_offset[p] <= current_file[p]
    BY <1>t DEF CursorVisible
  <2>6. current_file' \in [Panels -> Nat] /\ scroll_offset' \in [Panels -> Nat]
    BY <2>1, <2>2, <2>3, <2>5, <1>t
  <2>7. TypeOK'
    BY <2>1, <2>6 DEF TypeOK
  <2>8. CursorVisible'
    <3>1. /\ current_file[p] < Len(files[p]) \/ current_file[p] = 0
          /\ scroll_offset[p] <= current_file[p]
          /\ current_file[p] < scroll_offset[p] + HEIGHT
          /\ scroll_offset[p] > 0 => scroll_offset[p] + HEIGHT <= Len(files[p])
      BY <1>t DEF CursorVisible
    <3>2. files' = files
      BY <2>1
    <3>3. /\ current_file'[p] < Len(files[p]) \/ current_file'[p] = 0
          /\ scroll_offset'[p] <= current_file'[p]
          /\ current_file'[p] < scroll_offset'[p] + HEIGHT
          /\ scroll_offset'[p] > 0 =>
               scroll_offset'[p] + HEIGHT <= Len(files[p])
      BY <2>1, <2>2, <2>3, <3>1, <1>t
    <3> QED BY <2>4, <3>2, <3>3 DEF CursorVisible
  <2> QED
    BY <2>7, <2>8
<1>2. CASE KeyDown
  <2>1. /\ current_file[p] < Len(files[p]) - 1
        /\ current_file' = [current_file EXCEPT ![p] = @ + 1]
        /\ scroll_offset' = [scroll_offset EXCEPT
                  ![p] = IF current_file'[p] >= @ + HEIGHT THEN @ + 1 ELSE @]
        /\ UNCHANGED <<files, current_path, entered, active_panel, cwd,
                       running>>
    BY <1>2 DEF KeyDown
  <2>2. current_file'[p] = current_file[p] + 1
    BY <2>1, <1>t
  <2>3. scroll_offset'[p] = IF current_file[p] + 1 >= scroll_offset[p] + HEIGHT
                            THEN scroll_offset[p] + 1 ELSE scroll_offset[p]
    BY <2>1, <2>2, <1>t
  <2>4. \A q \in Panels : q # p => /\ current_file'[q] = current_file[q]
                                   /\ scroll_offset'[q] = scroll_offset[q]
    BY <2>1, <1>t
  <2>6. current_file' \in [Panels -> Nat] /\ scroll_offset' \in [Panels -> Nat]
    BY <2>1, <2>2, <2>3, <1>t
  <2>7. TypeOK'
    BY <2>1, <2>6 DEF TypeOK
  <2>8. CursorVisible'
    <3>1. /\ current_file[p] < Len(files[p]) \/ current_file[p] = 0
          /\ scroll_offset[p] <= current_file[p]
          /\ current_file[p] < scroll_offset[p] + HEIGHT
          /\ scroll_offset[p] > 0 => scroll_offset[p] + HEIGHT <= Len(files[p])
      BY <1>t DEF CursorVisible
    <3>2. files' = files
      BY <2>1
    <3>3. /\ current_file'[p] < Len(files[p]) \/ current_file'[p] = 0
          /\ scroll_offset'[p] <= current_file'[p]
          /\ current_file'[p] < scroll_offset'[p] + HEIGHT
          /\ scroll_offset'[p] > 0 =>
               scroll_offset'[p] + HEIGHT <= Len(files[p])
      BY <2>1, <2>2, <2>3, <3>1, <1>t
    <3> QED BY <2>4, <3>2, <3>3 DEF CursorVisible
  <2> QED
    BY <2>7, <2>8
<1>3. CASE Enter
  <2>1. /\ OnDirectory(p)
        /\ Chdir(Selected(p))
        /\ current_path' = [current_path EXCEPT ![p] = cwd']
        /\ ListFiles(p, cwd')
        /\ current_file' = [current_file EXCEPT ![p] = 0]
        /\ scroll_offset' = [scroll_offset EXCEPT ![p] = 0]
        /\ entered' = p
        /\ UNCHANGED <<active_panel, running>>
    BY <1>3 DEF Enter
  <2>2. Selected(p) \in Names
    BY <2>1, <1>t, SelectedIsName
  <2>3. cwd \in Dirs
    BY DEF TypeOK
  <2>4. Target[cwd][Selected(p)] \in Dirs \cup {None}
    BY <2>2, <2>3, TreeAssumption
  <2>5. cwd' \in Dirs
    BY <2>1, <2>3, <2>4 DEF Chdir
  <2>6. \A l \in Listings(cwd') : l \in Seq([name : Names, is_dir : BOOLEAN])
    BY <2>5, ListingIsSequence
  <2>7. /\ files' \in [Panels -> Seq([name : Names, is_dir : BOOLEAN])]
        /\ \A q \in Panels : q # p => files'[q] = files[q]
    <3> HIDE DEF p
    <3> DEFINE S == Seq([name : Names, is_dir : BOOLEAN])
    <3>1. files \in [Panels -> S]
      BY <1>t
    <3>2. CASE UNCHANGED files
      BY <3>1, <3>2
    <3>3. ASSUME NEW l \in Listings(cwd'), files' = [files EXCEPT ![p] = l]
          PROVE  <2>7!1 /\ <2>7!2
      <4>1. l \in S
        BY <2>6
      <4> HIDE DEF S
      <4>2. files' \in [Panels -> S]
        BY <3>1, <3>3, <4>1, <1>t
      <4>3. \A q \in Panels : q # p => files'[q] = files[q]
        BY <3>1, <3>3, <1>t
      <4> QED
        BY <4>2, <4>3 DEF S
    <3> QED
      BY <2>1, <3>2, <3>3 DEF ListFiles
  <2>8. TypeOK'
    BY <2>1, <2>5, <2>7, <1>t DEF TypeOK
  <2>9. CursorVisible'
    BY <2>1, <2>7, <1>t DEF CursorVisible
  <2> QED
    BY <2>8, <2>9
<1>4. CASE Tab
  BY <1>4 DEF Tab, panels, TypeOK, CursorVisible
<1>5. CASE Quit
  BY <1>5 DEF Quit, panels, TypeOK, CursorVisible
<1>6. CASE UNCHANGED vars
  BY <1>6 DEF vars, panels, TypeOK, CursorVisible
<1> QED
  BY <1>1, <1>2, <1>3, <1>4, <1>5, <1>6 DEF Next

LEMMA ScreenCorrect == Spec => []Screen
  BY ScreenInit, ScreenNext, PTL DEF Spec

(* CursorVisible, for every tree and height: no sequence of keys moves the *)
(* cursor of either panel off an entry or off the screen.                  *)
THEOREM CursorCorrect == Spec => []CursorVisible
<1>1. Screen => CursorVisible
  BY DEF Screen
<1> QED
  BY <1>1, ScreenCorrect, PTL

(* The file manager's types hold: a path is a directory of the tree, and a *)
(* panel a listing of one.                                                 *)
THEOREM FileManagerTypeCorrect == Spec => []TypeOK
<1>1. Screen => TypeOK
  BY DEF Screen
<1> QED BY <1>1, ScreenCorrect, PTL

(* handle_navigation looks a name up where the panel with the last Enter   *)
(* is, because the process is there: after a refused chdir() and a refused *)
(* opendir(), too, the path that is shown is getcwd()'s.                   *)
Together == cwd = current_path[entered]

LEMMA TogetherNext == Screen /\ Together /\ [Next]_vars => Together'
<1> SUFFICES ASSUME Screen, Together, [Next]_vars PROVE Together'
  OBVIOUS
<1>1. CASE Enter
  <2>1. /\ current_path' = [current_path EXCEPT ![active_panel] = cwd']
        /\ entered' = active_panel
    BY <1>1 DEF Enter
  <2> QED BY <2>1 DEF Screen, TypeOK, Together
<1>2. CASE UNCHANGED <<current_path, cwd, entered>>
  BY <1>2 DEF Together
<1> QED
  BY <1>1, <1>2 DEF Next, KeyUp, KeyDown, Tab, Quit, vars, panels

THEOREM MovesCorrect == Spec => MovesFromLastEntered
<1> DEFINE Rule == \A p \in Panels :
                     current_path'[p] # current_path[p] =>
                       LET base == current_path[entered] IN
                       /\ p = active_panel
                       /\ current_path'[p] \in
                            {base, Target[base][Selected(p)]}
<1>1. Init => Together
  BY DEF Init, Together, Panels
<1>2. Screen /\ Together /\ [Next]_vars => [Rule]_vars
  <2> SUFFICES ASSUME Screen, Together, Next, NEW p \in Panels,
                      current_path'[p] # current_path[p]
               PROVE  /\ p = active_panel
                      /\ current_path'[p] \in
                           {cwd, Target[cwd][Selected(p)]}
    BY DEF Together
  <2>1. Enter
    BY DEF Next, KeyUp, KeyDown, Tab, Quit, panels
  <2>2. /\ current_path' = [current_path EXCEPT ![active_panel] = cwd']
        /\ Chdir(Selected(active_panel))
    BY <2>1 DEF Enter
  <2>3. p = active_panel /\ current_path'[p] = cwd'
    BY <2>2 DEF Screen, TypeOK
  <2> QED
    BY <2>2, <2>3 DEF Chdir
<1> QED
  BY <1>1, <1>2, TogetherNext, ScreenCorrect, PTL
    DEF Spec, MovesFromLastEntered

-----------------------------------------------------------------------------
(* Sums.  MapThenSumSet adds the values of any one element and the rest.   *)
(* What follows is by induction over the subsets of a finite set, as the   *)
(* absence of a smallest counterexample.                                   *)

LEMMA SmallestSubset ==
  ASSUME NEW S, IsFiniteSet(S), NEW Bad \in SUBSET (SUBSET S), Bad # {}
  PROVE  \E T \in Bad : \A U \in Bad : U \subseteq T => U = T
<1>1. Bad \subseteq FiniteSubsetsOf(S)
  BY FS_Subset DEF FiniteSubsetsOf
<1>2. \E T \in Bad : \A U \in Bad : <<U, T>> \notin StrictSubsetOrdering(S)
  BY <1>1, FS_StrictSubsetOrderingWellFounded, WFMin
<1> QED BY <1>2 DEF StrictSubsetOrdering

Any(T) == CHOOSE x \in T : TRUE

LEMMA AnyIsIn == ASSUME NEW T, T # {} PROVE Any(T) \in T
BY DEF Any

(* g has the sums of f over the subsets of S, as MapThenSumSet forms them. *)
Recurs(g, f, S) ==
  /\ g[{}] = 0
  /\ \A T \in SUBSET S : T # {} => g[T] = f[Any(T)] + g[T \ {Any(T)}]

Sums(g, f, S) == g \in [SUBSET S -> Int] /\ Recurs(g, f, S)

LEMMA SumsAgree ==
  ASSUME NEW S, IsFiniteSet(S), NEW f, NEW T \in SUBSET S, NEW U \in SUBSET S,
         NEW g, NEW h, Recurs(g, f, T), Recurs(h, f, U)
  PROVE  \A V \in SUBSET (T \cap U) : g[V] = h[V]
<1> DEFINE Bad == {V \in SUBSET (T \cap U) : g[V] # h[V]}
<1> SUFFICES ASSUME Bad # {} PROVE FALSE
  OBVIOUS
<1>1. Bad \in SUBSET (SUBSET S)
  OBVIOUS
<1>2. PICK V \in Bad : \A W \in Bad : W \subseteq V => W = V
  <2> HIDE DEF Bad
  <2> QED BY <1>1, SmallestSubset
<1>3. V # {}
  BY DEF Sums, Recurs
<1>4. Any(V) \in V
  BY <1>3, AnyIsIn
<1>5. V \ {Any(V)} \notin Bad
  BY <1>2, <1>4
<1>6. g[V \ {Any(V)}] = h[V \ {Any(V)}]
  BY <1>5
<1>7. V \in SUBSET T /\ V \in SUBSET U
  OBVIOUS
<1>8. g[V] = h[V]
  BY <1>3, <1>6, <1>7 DEF Sums, Recurs
<1> QED BY <1>8

LEMMA SumsExist ==
  ASSUME NEW S, IsFiniteSet(S), NEW f \in [S -> Int]
  PROVE  \E g : Sums(g, f, S)
<1> DEFINE Bad == {T \in SUBSET S : ~ \E g : Sums(g, f, T)}
<1> SUFFICES ASSUME Bad # {} PROVE FALSE
  OBVIOUS
<1>1. PICK T \in Bad : \A U \in Bad : U \subseteq T => U = T
  <2>1. Bad \in SUBSET (SUBSET S)
    OBVIOUS
  <2> HIDE DEF Bad
  <2> QED BY <2>1, SmallestSubset
<1> DEFINE Below(V) == CHOOSE h : Sums(h, f, V)
           Rest(V) == V \ {Any(V)}
           G == [V \in SUBSET T |-> IF V = {} THEN 0
                                    ELSE f[Any(V)] + Below(Rest(V))[Rest(V)]]
<1>2. ASSUME NEW V \in SUBSET T, V # {} PROVE Sums(Below(Rest(V)), f, Rest(V))
  <2>1. Any(V) \in V
    BY <1>2, AnyIsIn
  <2>2. Rest(V) \in SUBSET S /\ Rest(V) \notin Bad
    BY <1>1, <2>1
  <2>3. \E h : Sums(h, f, Rest(V))
    BY <2>2
  <2> HIDE DEF Rest
  <2> QED BY <2>3
<1>3. ASSUME NEW V \in SUBSET T, V # {}
      PROVE  f[Any(V)] + Below(Rest(V))[Rest(V)] \in Int
  <2>1. Any(V) \in S
    BY <1>3, AnyIsIn
  <2>2. Below(Rest(V)) \in [SUBSET Rest(V) -> Int]
    BY <1>2, <1>3 DEF Sums, Recurs
  <2> HIDE DEF Below, Rest
  <2> QED BY <2>1, <2>2
<1>4. G \in [SUBSET T -> Int] /\ G[{}] = 0
  <2> HIDE DEF Below, Rest
  <2> QED BY <1>3
<1>5. ASSUME NEW V \in SUBSET T, V # {}
      PROVE  G[V] = f[Any(V)] + G[Rest(V)]
  <2> DEFINE W == Rest(V)
             h == Below(W)
  <2>1. W \in SUBSET T /\ Sums(h, f, W)
    BY <1>2, <1>5
  <2>2. G[V] = f[Any(V)] + h[W]
    BY <1>5
  <2>3. CASE W = {}
    BY <1>4, <2>1, <2>2, <2>3 DEF Sums, Recurs
  <2>4. CASE W # {}
    <3>1. G[W] = f[Any(W)] + Below(Rest(W))[Rest(W)]
      BY <2>1, <2>4
    <3>2. h[W] = f[Any(W)] + h[Rest(W)]
      BY <2>1, <2>4 DEF Sums, Recurs
    <3>3. Sums(Below(Rest(W)), f, Rest(W))
      BY <1>2, <2>1, <2>4
    <3>4. Rest(W) \in SUBSET S /\ W \in SUBSET S
      BY <2>1
    <3> HIDE DEF Below, W, h, G
    <3>5. \A X \in SUBSET (Rest(W) \cap W) : Below(Rest(W))[X] = h[X]
      BY <2>1, <3>3, <3>4, SumsAgree DEF Sums
    <3>6. Rest(W) \in SUBSET (Rest(W) \cap W)
      OBVIOUS
    <3> QED BY <2>2, <3>1, <3>2, <3>5, <3>6 DEF W
  <2> QED BY <2>3, <2>4
<1>6. Sums(G, f, T)
  <2> HIDE DEF G
  <2> QED BY <1>4, <1>5 DEF Sums, Recurs
<1> QED
  BY <1>6

(* One value of f changes: so do the sums over the sets it is in.          *)
LEMMA SumsChange ==
  ASSUME NEW S, IsFiniteSet(S), NEW f \in [S -> Int], NEW f2 \in [S -> Int],
         NEW e \in S, NEW d \in Int, f2[e] = f[e] + d,
         \A x \in S \ {e} : f2[x] = f[x],
         NEW g, NEW h, Sums(g, f, S), Sums(h, f2, S)
  PROVE  h[S] = g[S] + d
<1> DEFINE Off(T) == IF e \in T THEN d ELSE 0
           Bad == {T \in SUBSET S : h[T] # g[T] + Off(T)}
<1> SUFFICES ASSUME Bad # {} PROVE FALSE
  OBVIOUS
<1>1. PICK T \in Bad : \A U \in Bad : U \subseteq T => U = T
  <2>1. Bad \in SUBSET (SUBSET S)
    OBVIOUS
  <2> HIDE DEF Bad
  <2> QED BY <2>1, SmallestSubset
<1>2. T # {}
  <2>1. g[{}] = 0 /\ h[{}] = 0 /\ Off({}) = 0
    BY DEF Sums, Recurs
  <2> QED BY <2>1
<1> DEFINE x == Any(T)
           U == T \ {x}
<1>3. x \in T
  BY <1>2, AnyIsIn
<1>4. U \in SUBSET S /\ h[U] = g[U] + Off(U)
  BY <1>1, <1>3
<1>5. h[T] = f2[x] + h[U] /\ g[T] = f[x] + g[U]
  BY <1>2 DEF Sums, Recurs
<1>6. /\ g[U] \in Int /\ h[U] \in Int /\ f[x] \in Int
      /\ f2[x] = IF x = e THEN f[x] + d ELSE f[x]
  BY <1>3, <1>4 DEF Sums, Recurs
<1>7. Off(T) = Off(U) + (IF x = e THEN d ELSE 0)
  BY <1>3
<1>8. h[T] = g[T] + Off(T)
  <2> HIDE DEF x, U, Off
  <2>1. Off(U) \in Int
    BY DEF Off
  <2> QED BY <1>4, <1>5, <1>6, <1>7, <2>1
<1> QED BY <1>8

LEMMA TotalIsSum ==
  ASSUME NEW S, IsFiniteSet(S), NEW f, NEW g, Sums(g, f, S)
  PROVE  Shop!MapThenSumSet(LAMBDA s : f[s], S) = g[S]
<1> DEFINE P(it) ==
      it = [s \in SUBSET S |->
             IF s = {} THEN 0
             ELSE f[CHOOSE x \in s : TRUE] + it[s \ {CHOOSE x \in s : TRUE}]]
<1>1. \A it : P(it) <=>
        it = [s \in SUBSET S |->
               IF s = {} THEN 0 ELSE f[Any(s)] + it[s \ {Any(s)}]]
  BY DEF Any
<1>2. P(g)
  <2>1. \A s \in SUBSET S : g[s] =
          IF s = {} THEN 0 ELSE f[Any(s)] + g[s \ {Any(s)}]
    BY DEF Sums, Recurs
  <2>2. g = [s \in SUBSET S |-> g[s]]
    BY DEF Sums
  <2>3. g = [s \in SUBSET S |->
               IF s = {} THEN 0 ELSE f[Any(s)] + g[s \ {Any(s)}]]
    BY <2>1, <2>2
  <2> HIDE DEF P
  <2> QED BY <1>1, <2>3
<1>3. Recurs(CHOOSE it : P(it), f, S)
  <2> HIDE DEF P
  <2> DEFINE it == CHOOSE it : P(it)
  <2>1. P(it)
    BY <1>2
  <2>2. it = [s \in SUBSET S |->
               IF s = {} THEN 0 ELSE f[Any(s)] + it[s \ {Any(s)}]]
    BY <1>1, <2>1
  <2> HIDE DEF it
  <2>3. Recurs(it, f, S)
    BY <2>2 DEF Recurs
  <2> QED BY <2>3 DEF it
<1>4. (CHOOSE it : P(it))[S] = g[S]
  <2> HIDE DEF P
  <2> QED BY <1>3, SumsAgree DEF Sums
<1> QED
  BY <1>4 DEF Shop!MapThenSumSet, Shop!MapThenFoldSet

-----------------------------------------------------------------------------
(* The shop.                                                               *)

Inside == {"take", "clear", "unlock", "add"}
Counting == {"readCount", "writeCount"}
Finished == {c \in Shop!Customers : pc[c] = "done"}

ShopKinds ==
  /\ stores \in [Shop!Stores -> 0..STORE_BOUND]
  /\ need \in [Shop!Customers -> Int]
  /\ satisfied_customers \in Nat
  /\ store_mutexes \in [Shop!Stores -> Shop!Threads \cup {None}]
  /\ satisfied_customers_mutex \in Shop!Customers \cup {None}
  /\ pc \in [Shop!Threads -> {"unborn", "while", "try", "take", "clear",
             "unlock", "lockCount", "readCount", "writeCount", "add", "check",
             "done"}]
  /\ i \in [Shop!Threads -> 0..NUM_STORES]
  /\ read \in [Shop!Customers -> Nat]
  /\ created \in 0..(NUM_CUSTOMERS + 1) /\ joined \in 0..(NUM_CUSTOMERS + 1)

(* Whoever is in a store holds its mutex, and nobody else does.            *)
OneInStore ==
  /\ \A t \in Shop!Threads : pc[t] \in Inside =>
       i[t] \in Shop!Stores /\ store_mutexes[i[t]] = t
  /\ \A s \in Shop!Stores : store_mutexes[s] # None =>
       pc[store_mutexes[s]] \in Inside /\ i[store_mutexes[s]] = s

(* The counter is read and written by its mutex's holder only, and counts  *)
(* the customers that are past it.                                         *)
OneCounts ==
  /\ \A c \in Shop!Customers :
       pc[c] \in Counting <=> satisfied_customers_mutex = c
  /\ \A c \in Shop!Customers :
       pc[c] = "writeCount" => read[c] = satisfied_customers
  /\ satisfied_customers = Cardinality(Finished)

(* The order in which threads begin and end.                               *)
Ordered ==
  /\ \A c \in Shop!Customers : pc[c] = "unborn" <=> created <= c
  /\ pc[Loader] = "unborn" <=> created <= NUM_CUSTOMERS
  /\ \A c \in Shop!Customers :
       /\ pc[c] \in Counting \cup {"lockCount", "done"} => need[c] <= 0
       /\ c < joined => pc[c] = "done"
  /\ pc[Loader] = "done" => \A c \in Shop!Customers : pc[c] = "done"
  /\ joined = NUM_CUSTOMERS + 1 => pc[Loader] = "done"
  /\ pc[Loader] \in {"unborn", "try", "add", "unlock", "check", "done"}

ShopInv == ShopKinds /\ OneInStore /\ OneCounts /\ Ordered

LEMMA ShopPeople ==
  /\ Loader \notin Shop!Customers /\ None \notin Shop!Threads
  /\ Shop!Customers \subseteq Nat /\ IsFiniteSet(Shop!Customers)
  /\ Cardinality(Shop!Customers) = NUM_CUSTOMERS
BY CustomersAssumption, FS_Interval DEF Shop!Customers, Shop!Threads

LEMMA ShopCases ==
  ASSUME Shop!Next
  PROVE  \/ \E t \in Shop!Threads, inside \in {"take", "add"} :
              Shop!Enter(t, inside) /\ (inside = "add" <=> t = Loader)
         \/ \E t \in Shop!Threads : Shop!NextStore(t)
         \/ \E t \in Shop!Threads, after \in {"while", "check"} :
              /\ Shop!NoStore(t, after) \/ Shop!Leave(t, after)
              /\ after = "check" <=> t = Loader
         \/ \E c \in Shop!Customers :
              \/ Shop!WhileNeed(c) \/ Shop!Take(c) \/ Shop!Clear(c)
              \/ Shop!LockCount(c) \/ Shop!ReadCount(c) \/ Shop!WriteCount(c)
         \/ Shop!Add \/ Shop!Check
         \/ Shop!Create \/ Shop!Join
<1>1. /\ Loader \in Shop!Threads /\ Loader \notin Shop!Customers
      /\ Shop!Customers \subseteq Shop!Threads
  BY ShopPeople DEF Shop!Threads
<1>2. CASE Shop!MainStep
  BY <1>2 DEF Shop!MainStep
<1>3. CASE Shop!LoaderStep
  BY <1>1, <1>3 DEF Shop!LoaderStep
<1>4. CASE \E c \in Shop!Customers : Shop!CustomerStep(c)
  <2>1. PICK c \in Shop!Customers : Shop!CustomerStep(c)
    BY <1>4
  <2>2. c \in Shop!Threads /\ c # Loader
    BY <1>1
  <2> QED BY <2>1, <2>2 DEF Shop!CustomerStep
<1> QED BY <1>2, <1>3, <1>4 DEF Shop!Next

LEMMA ShopKindsStep == ShopInv /\ Shop!Next => ShopKinds'
<1> SUFFICES ASSUME ShopInv, Shop!Next PROVE ShopKinds'
  OBVIOUS
<1> USE CustomersAssumption, ShopPeople
    DEF ShopInv, ShopKinds, OneInStore, Inside, Shop!Goto, Shop!goods,
        Shop!counting, Shop!mainVars, Shop!Stores
<1>1. ASSUME NEW t \in Shop!Threads, NEW inside \in {"take", "add"},
             Shop!Enter(t, inside)
      PROVE  ShopKinds'
  BY <1>1 DEF Shop!Enter
<1>2. ASSUME NEW t \in Shop!Threads, Shop!NextStore(t) PROVE ShopKinds'
  <2>1. i[t] + 1 \in 0..NUM_STORES
    BY <1>2 DEF Shop!NextStore
  <2> QED BY <1>2, <2>1 DEF Shop!NextStore
<1>3. ASSUME NEW t \in Shop!Threads, NEW after \in {"while", "check"},
             Shop!NoStore(t, after) \/ Shop!Leave(t, after)
      PROVE  ShopKinds'
  <2>1. 0 \in 0..NUM_STORES
    OBVIOUS
  <2>2. CASE Shop!NoStore(t, after)
    BY <1>3, <2>1, <2>2 DEF Shop!NoStore
  <2>3. CASE Shop!Leave(t, after)
    BY <1>3, <2>1, <2>3 DEF Shop!Leave
  <2> QED BY <1>3, <2>2, <2>3
<1>4. ASSUME NEW c \in Shop!Customers, Shop!WhileNeed(c) PROVE ShopKinds'
  BY <1>4 DEF Shop!WhileNeed
<1>5. ASSUME NEW c \in Shop!Customers, Shop!Take(c) PROVE ShopKinds'
  <2>1. i[c] \in Shop!Stores
    BY <1>5 DEF Shop!Take, Shop!Threads
  <2>2. need[c] - stores[i[c]] \in Int
    BY <2>1
  <2> QED BY <1>5, <2>2 DEF Shop!Take
<1>6. ASSUME NEW c \in Shop!Customers, Shop!Clear(c) PROVE ShopKinds'
  <2>1. c \in Shop!Threads /\ 0 \in 0..STORE_BOUND
    BY DEF Shop!Threads
  <2> QED BY <1>6, <2>1 DEF Shop!Clear
<1>7. ASSUME NEW c \in Shop!Customers,
             Shop!LockCount(c) \/ Shop!ReadCount(c) \/ Shop!WriteCount(c)
      PROVE  ShopKinds'
  <2>1. c \in Shop!Threads /\ read[c] + 1 \in Nat
    BY DEF Shop!Threads
  <2>2. CASE Shop!LockCount(c)
    BY <2>1, <2>2 DEF Shop!LockCount
  <2>3. CASE Shop!ReadCount(c)
    BY <2>1, <2>3 DEF Shop!ReadCount
  <2>4. CASE Shop!WriteCount(c)
    BY <2>1, <2>4 DEF Shop!WriteCount
  <2> QED BY <1>7, <2>2, <2>3, <2>4
<1>8. CASE Shop!Add
  <2>1. Loader \in Shop!Threads /\ i[Loader] \in Shop!Stores
    BY <1>8 DEF Shop!Add, Shop!Threads
  <2>2. Shop!Filled(stores[i[Loader]]) \in 0..STORE_BOUND
    BY <2>1 DEF Shop!Filled
  <2> QED BY <1>8, <2>1, <2>2 DEF Shop!Add
<1>9. CASE Shop!Check
  BY <1>9 DEF Shop!Check
<1>10. CASE Shop!Create
  <2>1. Shop!ThreadNumber(created) \in Shop!Threads
    BY DEF Shop!ThreadNumber, Shop!Threads, Shop!Customers
  <2> QED BY <1>10, <2>1 DEF Shop!Create
<1>11. CASE Shop!Join
  BY <1>11 DEF Shop!Join
<1> HIDE DEF ShopInv, ShopKinds
<1> QED
  BY <1>1, <1>2, <1>3, <1>4, <1>5, <1>6, <1>7, <1>8, <1>9, <1>10, <1>11,
     ShopCases

(* A step that moves its thread neither into a store nor out of one.       *)
LEMMA StaysInStore ==
  ASSUME ShopKinds, OneInStore, NEW t \in Shop!Threads,
         store_mutexes' = store_mutexes,
         pc[t] \in Inside <=> pc'[t] \in Inside,
         pc[t] \in Inside => i'[t] = i[t],
         \A u \in Shop!Threads \ {t} : pc'[u] = pc[u] /\ i'[u] = i[u]
  PROVE  OneInStore'
<1>1. \A u \in Shop!Threads : /\ pc[u] \in Inside <=> pc'[u] \in Inside
                             /\ pc[u] \in Inside => i'[u] = i[u]
  OBVIOUS
<1>2. ASSUME NEW u \in Shop!Threads, pc'[u] \in Inside
      PROVE  i'[u] \in Shop!Stores /\ store_mutexes'[i'[u]] = u
  BY <1>1, <1>2 DEF OneInStore
<1>3. ASSUME NEW s \in Shop!Stores, store_mutexes'[s] # None
      PROVE  /\ pc'[store_mutexes'[s]] \in Inside
             /\ i'[store_mutexes'[s]] = s
  <2>1. store_mutexes[s] \in Shop!Threads
    BY <1>3 DEF ShopKinds
  <2> QED BY <1>1, <1>3, <2>1 DEF OneInStore
<1>4. Shop!Stores' = Shop!Stores /\ Shop!Threads' = Shop!Threads
  BY DEF Shop!Stores, Shop!Threads, Shop!Customers
<1> QED BY <1>2, <1>3, <1>4 DEF OneInStore

LEMMA OneInStoreStep == ShopInv /\ Shop!Next => OneInStore'
<1> SUFFICES ASSUME ShopInv, Shop!Next PROVE OneInStore'
  OBVIOUS
<1> USE ShopPeople DEF ShopInv, ShopKinds, Shop!Goto
<1>1. ASSUME NEW t \in Shop!Threads, NEW inside \in {"take", "add"},
             Shop!Enter(t, inside)
      PROVE  OneInStore'
  <2>1. i[t] \in Shop!Stores
    BY <1>1, CustomersAssumption DEF Shop!Enter, Shop!Stores
  <2> QED BY <1>1, <2>1 DEF Shop!Enter, OneInStore, Inside
<1>2. ASSUME NEW t \in Shop!Threads, Shop!NextStore(t) PROVE OneInStore'
  BY <1>2, StaysInStore DEF Shop!NextStore, Inside
<1>3. ASSUME NEW t \in Shop!Threads, NEW after \in {"while", "check"},
             Shop!NoStore(t, after)
      PROVE  OneInStore'
  BY <1>3, StaysInStore DEF Shop!NoStore, Inside
<1>4. ASSUME NEW t \in Shop!Threads, NEW after \in {"while", "check"},
             Shop!Leave(t, after)
      PROVE  OneInStore'
  BY <1>4 DEF Shop!Leave, OneInStore, Inside
<1>5. ASSUME NEW c \in Shop!Customers,
             \/ Shop!WhileNeed(c) \/ Shop!Take(c) \/ Shop!Clear(c)
             \/ Shop!LockCount(c) \/ Shop!ReadCount(c) \/ Shop!WriteCount(c)
      PROVE  OneInStore'
  <2>1. c \in Shop!Threads
    BY DEF Shop!Threads
  <2> QED
    BY <1>5, <2>1, StaysInStore
    DEF Shop!WhileNeed, Shop!Take, Shop!Clear, Shop!LockCount,
        Shop!ReadCount, Shop!WriteCount, Inside
<1>6. CASE Shop!Add \/ Shop!Check
  <2>1. Loader \in Shop!Threads
    BY DEF Shop!Threads
  <2> QED BY <1>6, <2>1, StaysInStore DEF Shop!Add, Shop!Check, Inside
<1>7. CASE Shop!Create
  <2>1. /\ Shop!ThreadNumber(created) \in Shop!Threads
        /\ pc[Shop!ThreadNumber(created)] = "unborn"
    BY <1>7, CustomersAssumption
    DEF Shop!Create, Shop!ThreadNumber, Shop!Threads, Shop!Customers, Ordered
  <2> QED BY <1>7, <2>1, StaysInStore DEF Shop!Create, Inside
<1>8. CASE Shop!Join
  BY <1>8 DEF Shop!Join, OneInStore
<1> HIDE DEF ShopInv
<1> QED
  BY <1>1, <1>2, <1>3, <1>4, <1>5, <1>6, <1>7, <1>8, ShopCases

(* A step that brings no customer to the counter or past it.               *)
LEMMA StaysUncounted ==
  ASSUME OneCounts, NEW t \in Shop!Threads, UNCHANGED Shop!counting,
         \A u \in Shop!Threads \ {t} : pc'[u] = pc[u],
         t \in Shop!Customers =>
           /\ pc[t] \notin Counting \cup {"done"}
           /\ pc'[t] \notin Counting \cup {"done"}
  PROVE  OneCounts'
<1>1. /\ satisfied_customers' = satisfied_customers /\ read' = read
      /\ satisfied_customers_mutex' = satisfied_customers_mutex
  BY DEF Shop!counting
<1>2. \A c \in Shop!Customers :
        /\ pc'[c] \in Counting <=> pc[c] \in Counting
        /\ pc'[c] = "writeCount" => pc[c] = "writeCount"
        /\ pc'[c] = "done" <=> pc[c] = "done"
  BY DEF Counting, Shop!Threads
<1>3. Finished' = Finished
  BY <1>2 DEF Finished
<1> QED BY <1>1, <1>2, <1>3 DEF OneCounts

LEMMA OneCountsStep == ShopInv /\ Shop!Next => OneCounts'
<1> SUFFICES ASSUME ShopInv, Shop!Next PROVE OneCounts'
  OBVIOUS
<1> USE ShopPeople DEF ShopInv, ShopKinds, Shop!Goto
<1>0. \A c \in Shop!Customers : c \in Shop!Threads /\ c # None
  BY DEF Shop!Threads
<1>1. ASSUME NEW t \in Shop!Threads, NEW inside \in {"take", "add"},
             Shop!Enter(t, inside)
      PROVE  OneCounts'
  BY <1>1, StaysUncounted DEF Shop!Enter, Counting
<1>2. ASSUME NEW t \in Shop!Threads, Shop!NextStore(t) PROVE OneCounts'
  BY <1>2, StaysUncounted DEF Shop!NextStore, Counting
<1>3. ASSUME NEW t \in Shop!Threads, NEW after \in {"while", "check"},
             Shop!NoStore(t, after) \/ Shop!Leave(t, after)
      PROVE  OneCounts'
  BY <1>3, StaysUncounted DEF Shop!NoStore, Shop!Leave, Counting
<1>4. ASSUME NEW c \in Shop!Customers,
             Shop!WhileNeed(c) \/ Shop!Take(c) \/ Shop!Clear(c)
      PROVE  OneCounts'
  BY <1>0, <1>4, StaysUncounted
  DEF Shop!WhileNeed, Shop!Take, Shop!Clear, Counting
<1>5. ASSUME NEW c \in Shop!Customers, Shop!LockCount(c) PROVE OneCounts'
  <2>1. /\ pc[c] = "lockCount" /\ pc' = [pc EXCEPT ![c] = "readCount"]
        /\ satisfied_customers_mutex = None
        /\ satisfied_customers_mutex' = c
        /\ UNCHANGED <<satisfied_customers, read>>
    BY <1>5 DEF Shop!LockCount
  <2>2. Finished' = Finished
    BY <1>0, <2>1 DEF Finished
  <2> QED BY <1>0, <2>1, <2>2 DEF OneCounts, Counting
<1>6. ASSUME NEW c \in Shop!Customers, Shop!ReadCount(c) PROVE OneCounts'
  <2>1. /\ pc[c] = "readCount" /\ pc' = [pc EXCEPT ![c] = "writeCount"]
        /\ read' = [read EXCEPT ![c] = satisfied_customers]
        /\ UNCHANGED <<satisfied_customers, satisfied_customers_mutex>>
    BY <1>6 DEF Shop!ReadCount
  <2>2. Finished' = Finished
    BY <1>0, <2>1 DEF Finished
  <2>3. \A d \in Shop!Customers \ {c} : pc[d] \notin Counting
    BY <2>1 DEF OneCounts, Counting
  <2> QED BY <1>0, <2>1, <2>2, <2>3 DEF OneCounts, Counting
<1>7. ASSUME NEW c \in Shop!Customers, Shop!WriteCount(c) PROVE OneCounts'
  <2>1. /\ pc[c] = "writeCount" /\ pc' = [pc EXCEPT ![c] = "done"]
        /\ satisfied_customers' = read[c] + 1
        /\ satisfied_customers_mutex' = None
        /\ read' = read
    BY <1>7 DEF Shop!WriteCount
  <2>2. Finished' = Finished \cup {c} /\ c \notin Finished
    BY <1>0, <2>1 DEF Finished
  <2>3. IsFiniteSet(Finished)
    BY FS_Subset DEF Finished
  <2>4. Cardinality(Finished') = Cardinality(Finished) + 1
    BY <2>2, <2>3, FS_AddElement
  <2>5. \A d \in Shop!Customers \ {c} : pc[d] \notin Counting
    BY <2>1 DEF OneCounts, Counting
  <2>6. satisfied_customers' = Cardinality(Finished')
    BY <2>1, <2>4 DEF OneCounts
  <2> QED BY <1>0, <2>1, <2>5, <2>6 DEF OneCounts, Counting
<1>8. CASE Shop!Add \/ Shop!Check
  <2>1. Loader \in Shop!Threads
    BY DEF Shop!Threads
  <2> QED BY <1>8, <2>1, StaysUncounted DEF Shop!Add, Shop!Check
<1>9. CASE Shop!Create
  <2>1. /\ Shop!ThreadNumber(created) \in Shop!Threads
        /\ pc[Shop!ThreadNumber(created)] = "unborn"
    BY <1>9, CustomersAssumption
    DEF Shop!Create, Shop!ThreadNumber, Shop!Threads, Shop!Customers, Ordered
  <2> QED BY <1>9, <2>1, StaysUncounted DEF Shop!Create, Counting
<1>10. CASE Shop!Join
  BY <1>10 DEF Shop!Join, Shop!counting, OneCounts, Finished
<1> HIDE DEF ShopInv
<1> QED
  BY <1>1, <1>2, <1>3, <1>4, <1>5, <1>6, <1>7, <1>8, <1>9, <1>10, ShopCases

LEMMA OrderedStep == ShopInv /\ Shop!Next => Ordered'
<1> SUFFICES ASSUME ShopInv, Shop!Next PROVE Ordered'
  OBVIOUS
<1> USE ShopPeople DEF ShopInv, ShopKinds, Shop!Goto
<1>0. /\ \A c \in Shop!Customers : c \in Shop!Threads /\ c # Loader
      /\ Loader \in Shop!Threads
  BY DEF Shop!Threads
<1>1. ASSUME NEW t \in Shop!Threads, NEW inside \in {"take", "add"},
             Shop!Enter(t, inside), inside = "add" <=> t = Loader
      PROVE  Ordered'
  BY <1>0, <1>1 DEF Shop!Enter, Shop!goods, Shop!mainVars, Ordered, Counting
<1>2. ASSUME NEW t \in Shop!Threads, Shop!NextStore(t) PROVE Ordered'
  BY <1>2 DEF Shop!NextStore, Shop!goods, Shop!mainVars, Ordered
<1>3. ASSUME NEW t \in Shop!Threads, NEW after \in {"while", "check"},
             Shop!NoStore(t, after) \/ Shop!Leave(t, after),
             after = "check" <=> t = Loader
      PROVE  Ordered'
  BY <1>0, <1>3
  DEF Shop!NoStore, Shop!Leave, Shop!goods, Shop!mainVars, Ordered, Counting
<1>4. ASSUME NEW c \in Shop!Customers, Shop!WhileNeed(c) PROVE Ordered'
  <2>1. /\ pc[c] = "while" /\ pc'[c] \in {"try", "lockCount"}
        /\ pc'[c] = "lockCount" => need[c] <= 0
        /\ \A u \in Shop!Threads \ {c} : pc'[u] = pc[u]
        /\ UNCHANGED <<need, created, joined>>
    BY <1>0, <1>4 DEF Shop!WhileNeed, Shop!goods, Shop!mainVars
  <2> QED BY <1>0, <2>1 DEF Ordered, Counting
<1>5. ASSUME NEW c \in Shop!Customers, Shop!Take(c) PROVE Ordered'
  <2>1. /\ pc[c] = "take" /\ pc'[c] = "clear"
        /\ \A u \in Shop!Threads \ {c} : pc'[u] = pc[u]
        /\ \A d \in Shop!Customers \ {c} : need'[d] = need[d]
        /\ UNCHANGED <<created, joined>>
    BY <1>0, <1>5 DEF Shop!Take, Shop!mainVars
  <2> QED BY <1>0, <2>1 DEF Ordered, Counting
<1>6. ASSUME NEW c \in Shop!Customers, Shop!Clear(c) PROVE Ordered'
  BY <1>0, <1>6 DEF Shop!Clear, Shop!mainVars, Ordered, Counting
<1>7. ASSUME NEW c \in Shop!Customers,
             Shop!LockCount(c) \/ Shop!ReadCount(c) \/ Shop!WriteCount(c)
      PROVE  Ordered'
  <2>1. /\ pc[c] \in Counting \cup {"lockCount"}
        /\ pc'[c] \in Counting \cup {"done"}
        /\ \A u \in Shop!Threads \ {c} : pc'[u] = pc[u]
        /\ UNCHANGED <<need, created, joined>>
    BY <1>0, <1>7
    DEF Shop!LockCount, Shop!ReadCount, Shop!WriteCount, Shop!goods,
        Shop!mainVars, Counting
  <2> QED BY <1>0, <2>1 DEF Ordered, Counting
<1>8. CASE Shop!Add
  BY <1>0, <1>8 DEF Shop!Add, Shop!mainVars, Ordered
<1>9. CASE Shop!Check
  <2>1. /\ pc[Loader] = "check" /\ pc'[Loader] \in {"done", "try"}
        /\ pc'[Loader] = "done" => satisfied_customers >= NUM_CUSTOMERS
        /\ \A c \in Shop!Customers : pc'[c] = pc[c]
        /\ UNCHANGED <<need, created, joined>>
    BY <1>0, <1>9 DEF Shop!Check, Shop!goods, Shop!mainVars
  <2>2. Finished \in SUBSET Shop!Customers
    BY DEF Finished
  <2>3. /\ Cardinality(Finished) <= NUM_CUSTOMERS
        /\ Cardinality(Finished) = NUM_CUSTOMERS => Finished = Shop!Customers
    BY <2>2, FS_Subset
  <2>4. pc'[Loader] = "done" => \A c \in Shop!Customers : pc[c] = "done"
    <3>1. satisfied_customers >= NUM_CUSTOMERS => Finished = Shop!Customers
      BY <2>3, CustomersAssumption DEF OneCounts
    <3> QED BY <2>1, <3>1 DEF Finished
  <2> QED BY <2>1, <2>4 DEF Ordered
<1>10. CASE Shop!Create
  <2> DEFINE t == Shop!ThreadNumber(created)
  <2>1. /\ t \in Shop!Threads /\ pc[t] = "unborn"
        /\ created' = created + 1 /\ created <= NUM_CUSTOMERS
        /\ \A c \in Shop!Customers : t = c <=> created = c
        /\ t = Loader <=> created = NUM_CUSTOMERS
    BY <1>0, <1>10, CustomersAssumption
    DEF Shop!Create, Shop!ThreadNumber, Shop!Threads, Shop!Customers, Ordered
  <2>2. /\ pc'[t] = (IF created < NUM_CUSTOMERS THEN "while" ELSE "try")
        /\ \A u \in Shop!Threads \ {t} : pc'[u] = pc[u]
        /\ UNCHANGED <<need, joined>>
    BY <2>1, <1>10 DEF Shop!Create, Shop!goods
  <2> HIDE DEF t
  <2>3. created \in Nat /\ created' \in Nat /\ NUM_CUSTOMERS \in Nat
    BY <2>1, CustomersAssumption
  <2> QED BY <1>0, <2>1, <2>2, <2>3, CustomersAssumption DEF Ordered, Counting
<1>11. CASE Shop!Join
  <2>1. /\ joined <= NUM_CUSTOMERS /\ joined' = joined + 1
        /\ pc[Shop!ThreadNumber(joined)] = "done"
        /\ UNCHANGED <<pc, need, created>>
    BY <1>11 DEF Shop!Join, Shop!goods
  <2>2. \A c \in Shop!Customers : c < joined' => pc[c] = "done"
    BY <2>1, CustomersAssumption
    DEF Shop!ThreadNumber, Ordered, Shop!Customers
  <2>3. joined' = NUM_CUSTOMERS + 1 => pc[Loader] = "done"
    BY <2>1, CustomersAssumption DEF Shop!ThreadNumber
  <2> QED BY <2>1, <2>2, <2>3 DEF Ordered
<1> HIDE DEF ShopInv
<1> QED
  BY <1>1, <1>2, <1>3, <1>4, <1>5, <1>6, <1>7, <1>8, <1>9, <1>10, <1>11,
     ShopCases

LEMMA ShopInvariant == Shop!Spec => []ShopInv
<1>1. Shop!Init => ShopInv
  <2> SUFFICES ASSUME Shop!Init PROVE ShopInv
    OBVIOUS
  <2> USE CustomersAssumption, ShopPeople DEF Shop!Init
  <2>1. ShopKinds
    BY DEF ShopKinds, Shop!Threads
  <2>2. OneInStore
    BY DEF OneInStore, Inside
  <2>3. OneCounts
    <3>1. Finished = {}
      BY DEF Finished, Shop!Threads
    <3> QED BY <3>1, FS_EmptySet DEF OneCounts, Counting, Shop!Threads
  <2>4. Ordered
    BY DEF Ordered, Counting, Shop!Threads
  <2> QED BY <2>1, <2>2, <2>3, <2>4 DEF ShopInv
<1>2. ShopInv /\ [Shop!Next]_(Shop!vars) => ShopInv'
  <2> SUFFICES ASSUME ShopInv, [Shop!Next]_(Shop!vars) PROVE ShopInv'
    OBVIOUS
  <2>1. CASE UNCHANGED Shop!vars
    <3>1. UNCHANGED <<stores, need, satisfied_customers, store_mutexes,
                      satisfied_customers_mutex, pc, i, read, created, joined>>
      BY <2>1 DEF Shop!vars, Shop!goods, Shop!counting, Shop!mainVars
    <3>2. Finished' = Finished
      BY <3>1 DEF Finished
    <3> QED
      BY <3>1, <3>2 DEF ShopInv, ShopKinds, OneInStore, OneCounts, Ordered
  <2>2. CASE Shop!Next
    BY <2>2, ShopKindsStep, OneInStoreStep, OneCountsStep, OrderedStep
    DEF ShopInv
  <2> QED BY <2>1, <2>2
<1> QED BY <1>1, <1>2, PTL DEF Shop!Spec

(* The counter is exact, the loader ends after the last customer, and the  *)
(* mutexes are free when main() destroys them.                             *)
THEOREM EndsCorrect == Shop!Spec => []EndsInOrder
<1>1. ASSUME ShopInv PROVE EndsInOrder
  <2> USE <1>1 DEF ShopInv
  <2>1. \A S : Shop!Cardinality(S) = Cardinality(S)
    BY DEF Shop!Cardinality, Cardinality, Shop!IsFiniteSet, IsFiniteSet
  <2>2. satisfied_customers
          = Shop!Cardinality({c \in Shop!Customers : pc[c] = "done"})
    BY <2>1 DEF OneCounts, Finished
  <2>3. pc[Loader] = "done" =>
          \A c \in Shop!Customers : pc[c] = "done" /\ need[c] <= 0
    BY DEF Ordered
  <2>4. ASSUME joined = NUM_CUSTOMERS + 1
        PROVE  /\ \A t \in Shop!Threads : pc[t] = "done"
               /\ \A s \in Shop!Stores : store_mutexes[s] = None
    <3>1. \A t \in Shop!Threads : pc[t] = "done"
      BY <2>4 DEF Ordered, Shop!Threads
    <3> QED BY <3>1 DEF ShopKinds, OneInStore, Inside
  <2> QED BY <2>2, <2>3, <2>4 DEF EndsInOrder, Shop!EndsInOrder
<1> QED BY <1>1, ShopInvariant, PTL

(* The bounds of the shop's numbers.  A customer visits stores only while  *)
(* it needs something, so it never takes more than one store beyond its    *)
(* need; that is why the need has a lower bound.                           *)
ShopTyped ==
  /\ need \in [Shop!Customers -> (1 - STORE_BOUND)..MAX_NEED]
  /\ \A c \in Shop!Customers : pc[c] \in {"try", "take"} => need[c] > 0
  /\ read \in [Shop!Customers -> 0..NUM_CUSTOMERS]

LEMMA CounterBounded == ShopInv => satisfied_customers \in 0..NUM_CUSTOMERS
<1> SUFFICES ASSUME ShopInv PROVE satisfied_customers \in 0..NUM_CUSTOMERS
  OBVIOUS
<1>1. Finished \subseteq Shop!Customers
  BY DEF Finished
<1>2. Cardinality(Finished) <= Cardinality(Shop!Customers)
  BY <1>1, ShopPeople, FS_Subset
<1> QED
  BY <1>2, ShopPeople, CustomersAssumption DEF ShopInv, ShopKinds, OneCounts

LEMMA ShopTypedStep ==
  ASSUME ShopInv, ShopTyped, Shop!Next
  PROVE  ShopTyped'
<1> USE CustomersAssumption, ShopPeople
    DEF ShopInv, ShopKinds, ShopTyped, Shop!Goto, Shop!goods, Shop!counting,
        Shop!mainVars
<1>0. \A c \in Shop!Customers : c \in Shop!Threads /\ c # Loader
  BY DEF Shop!Threads
<1>1. ASSUME NEW t \in Shop!Threads, NEW inside \in {"take", "add"},
             Shop!Enter(t, inside)
      PROVE  ShopTyped'
  BY <1>0, <1>1 DEF Shop!Enter
<1>2. ASSUME NEW t \in Shop!Threads, Shop!NextStore(t) PROVE ShopTyped'
  BY <1>0, <1>2 DEF Shop!NextStore
<1>3. ASSUME NEW t \in Shop!Threads, NEW after \in {"while", "check"},
             Shop!NoStore(t, after) \/ Shop!Leave(t, after)
      PROVE  ShopTyped'
  BY <1>0, <1>3 DEF Shop!NoStore, Shop!Leave
<1>4. ASSUME NEW c \in Shop!Customers, Shop!WhileNeed(c) PROVE ShopTyped'
  BY <1>0, <1>4 DEF Shop!WhileNeed
<1>5. ASSUME NEW c \in Shop!Customers, Shop!Take(c) PROVE ShopTyped'
  <2>1. i[c] \in Shop!Stores /\ stores[i[c]] \in 0..STORE_BOUND
    BY <1>0, <1>5 DEF Shop!Take, OneInStore, Inside
  <2>2. need[c] \in 1..MAX_NEED
    BY <1>5 DEF Shop!Take
  <2>3. need[c] - stores[i[c]] \in (1 - STORE_BOUND)..MAX_NEED
    BY <2>1, <2>2
  <2> QED BY <1>0, <1>5, <2>3 DEF Shop!Take
<1>6. ASSUME NEW c \in Shop!Customers,
             Shop!Clear(c) \/ Shop!LockCount(c) \/ Shop!WriteCount(c)
      PROVE  ShopTyped'
  BY <1>0, <1>6 DEF Shop!Clear, Shop!LockCount, Shop!WriteCount
<1>7. ASSUME NEW c \in Shop!Customers, Shop!ReadCount(c) PROVE ShopTyped'
  BY <1>0, <1>7, CounterBounded DEF Shop!ReadCount
<1>8. CASE Shop!Add \/ Shop!Check
  BY <1>0, <1>8 DEF Shop!Add, Shop!Check
<1>9. CASE Shop!Create
  <2>1. CASE created < NUM_CUSTOMERS
    BY <1>0, <1>9, <2>1 DEF Shop!Create, Shop!ThreadNumber
  <2>2. CASE ~(created < NUM_CUSTOMERS)
    BY <1>0, <1>9, <2>2 DEF Shop!Create, Shop!ThreadNumber
  <2> QED BY <2>1, <2>2
<1>10. CASE Shop!Join
  BY <1>0, <1>10 DEF Shop!Join
<1> HIDE DEF ShopInv, ShopTyped
<1> QED
  BY <1>1, <1>2, <1>3, <1>4, <1>5, <1>6, <1>7, <1>8, <1>9, <1>10, ShopCases

(* The shop's types hold, for any numbers of stores and customers.         *)
THEOREM ShopTypeCorrect == Shop!Spec => []Shop!TypeOK
<1>1. Shop!Init => ShopTyped
  BY CustomersAssumption, ShopPeople DEF Shop!Init, ShopTyped, Shop!Threads
<1>2. ShopInv /\ ShopTyped /\ [Shop!Next]_(Shop!vars) => ShopTyped'
  BY ShopTypedStep DEF ShopTyped, Shop!vars, Shop!goods, Shop!counting
<1>3. ShopInv /\ ShopTyped => Shop!TypeOK
  BY CounterBounded DEF ShopInv, ShopKinds, ShopTyped, Shop!TypeOK
<1> QED BY <1>1, <1>2, <1>3, ShopInvariant, PTL DEF Shop!Spec

-----------------------------------------------------------------------------
(* What a store has, where what a customer has taken from it but not yet   *)
(* cleared does not count.                                                 *)
shown ==
  [s \in Shop!Stores |->
     IF \E c \in Shop!Customers : pc[c] = "clear" /\ i[c] = s
     THEN 0 ELSE stores[s]]

(* What a step does with goods: nothing, or a customer's need falls by     *)
(* what one store has and that store is empty, or the loader adds to one   *)
(* store.                                                                  *)
NothingMoves == shown' = shown /\ need' = need
Emptied ==
  \E c \in Shop!Customers, s \in Shop!Stores :
    /\ need' = [need EXCEPT ![c] = @ - shown[s]]
    /\ shown' = [shown EXCEPT ![s] = 0]
Delivered ==
  /\ Shop!Add
  /\ need' = need
  /\ \E s \in Shop!Stores, n \in 0..LOADER_INCREMENT :
       shown' = [shown EXCEPT ![s] = @ + n]

LEMMA ShownStays ==
  ASSUME ShopInv, NEW t \in Shop!Threads, stores' = stores,
         pc[t] # "clear", pc'[t] # "clear",
         \A u \in Shop!Threads \ {t} : pc'[u] = pc[u] /\ i'[u] = i[u]
  PROVE  shown' = shown
<1>1. \A c \in Shop!Customers : pc[c] = "clear" \/ pc'[c] = "clear" =>
        pc'[c] = pc[c] /\ i'[c] = i[c]
  BY DEF Shop!Threads
<1> QED BY <1>1 DEF shown

LEMMA GoodsMove == ShopInv /\ Shop!Next => NothingMoves \/ Emptied \/ Delivered
<1> SUFFICES ASSUME ShopInv, Shop!Next
             PROVE  NothingMoves \/ Emptied \/ Delivered
  OBVIOUS
<1> USE ShopPeople DEF ShopInv, ShopKinds, Shop!Goto
<1>0. /\ \A c \in Shop!Customers : c \in Shop!Threads /\ c # Loader
      /\ Loader \in Shop!Threads
      /\ shown \in [Shop!Stores -> Nat]
  BY DEF Shop!Threads, shown
<1>1. ASSUME NEW t \in Shop!Threads, NEW inside \in {"take", "add"},
             Shop!Enter(t, inside)
      PROVE  NothingMoves
  BY <1>1, ShownStays DEF Shop!Enter, Shop!goods, NothingMoves
<1>2. ASSUME NEW t \in Shop!Threads, Shop!NextStore(t) PROVE NothingMoves
  BY <1>2, ShownStays DEF Shop!NextStore, Shop!goods, NothingMoves
<1>3. ASSUME NEW t \in Shop!Threads, NEW after \in {"while", "check"},
             Shop!NoStore(t, after) \/ Shop!Leave(t, after)
      PROVE  NothingMoves
  BY <1>3, ShownStays DEF Shop!NoStore, Shop!Leave, Shop!goods, NothingMoves
<1>4. ASSUME NEW c \in Shop!Customers,
             \/ Shop!WhileNeed(c) \/ Shop!LockCount(c) \/ Shop!ReadCount(c)
             \/ Shop!WriteCount(c)
      PROVE  NothingMoves
  BY <1>0, <1>4, ShownStays
  DEF Shop!WhileNeed, Shop!LockCount, Shop!ReadCount, Shop!WriteCount,
      Shop!goods, NothingMoves
<1>5. ASSUME NEW c \in Shop!Customers, Shop!Take(c) PROVE Emptied
  <2>1. /\ pc[c] = "take" /\ pc' = [pc EXCEPT ![c] = "clear"]
        /\ need' = [need EXCEPT ![c] = @ - stores[i[c]]]
        /\ UNCHANGED <<stores, i>>
    BY <1>5 DEF Shop!Take
  <2>2. i[c] \in Shop!Stores /\ store_mutexes[i[c]] = c
    BY <1>0, <2>1 DEF OneInStore, Inside
  <2>3. \A d \in Shop!Customers : pc[d] = "clear" => i[d] # i[c]
    BY <1>0, <2>1, <2>2 DEF OneInStore, Inside
  <2>4. shown[i[c]] = stores[i[c]]
    BY <2>2, <2>3 DEF shown
  <2>5. shown' = [shown EXCEPT ![i[c]] = 0]
    BY <1>0, <2>1, <2>2 DEF shown
  <2> QED BY <2>1, <2>2, <2>4, <2>5 DEF Emptied
<1>6. ASSUME NEW c \in Shop!Customers, Shop!Clear(c) PROVE NothingMoves
  <2>1. /\ pc[c] = "clear" /\ pc' = [pc EXCEPT ![c] = "unlock"]
        /\ stores' = [stores EXCEPT ![i[c]] = 0]
        /\ UNCHANGED <<need, i>>
    BY <1>6 DEF Shop!Clear
  <2>2. i[c] \in Shop!Stores
    BY <1>0, <2>1 DEF OneInStore, Inside
  <2> QED BY <1>0, <2>1, <2>2 DEF shown, NothingMoves
<1>7. CASE Shop!Add
  <2>1. /\ pc[Loader] = "add" /\ pc' = [pc EXCEPT ![Loader] = "unlock"]
        /\ stores' = [stores EXCEPT ![i[Loader]] = Shop!Filled(@)]
        /\ UNCHANGED <<need, i>>
    BY <1>7 DEF Shop!Add
  <2>2. i[Loader] \in Shop!Stores /\ store_mutexes[i[Loader]] = Loader
    BY <1>0, <2>1 DEF OneInStore, Inside
  <2>3. \A c \in Shop!Customers : pc[c] = "clear" => i[c] # i[Loader]
    BY <1>0, <2>1, <2>2 DEF OneInStore, Inside
  <2> DEFINE n == stores'[i[Loader]] - stores[i[Loader]]
  <2>4. n \in 0..LOADER_INCREMENT
    BY <2>1, <2>2, CustomersAssumption DEF Shop!Filled
  <2>5. shown' = [shown EXCEPT ![i[Loader]] = @ + n]
    <3>1. \A c \in Shop!Customers : pc'[c] = "clear" <=> pc[c] = "clear"
      BY <1>0, <2>1
    <3>2. shown[i[Loader]] = stores[i[Loader]]
      BY <2>2, <2>3 DEF shown
    <3>3. shown'[i[Loader]] = stores'[i[Loader]]
      BY <2>1, <2>2, <2>3, <3>1 DEF shown
    <3>4. \A s \in Shop!Stores \ {i[Loader]} : shown'[s] = shown[s]
      BY <2>1, <3>1 DEF shown
    <3>5. /\ stores[i[Loader]] \in Int /\ stores'[i[Loader]] \in Int
          /\ shown' \in [Shop!Stores -> Int]
      <4>1. Shop!Filled(stores[i[Loader]]) \in Int
        BY <2>2, CustomersAssumption DEF Shop!Filled
      <4>2. stores' \in [Shop!Stores -> Int]
        BY <2>1, <2>2, <4>1
      <4> QED BY <2>2, <4>2 DEF shown
    <3> HIDE DEF ShopKinds
    <3> QED BY <1>0, <2>2, <3>2, <3>3, <3>4, <3>5
  <2> QED BY <1>7, <2>1, <2>2, <2>4, <2>5 DEF Delivered
<1>8. CASE Shop!Check
  BY <1>0, <1>8, ShownStays DEF Shop!Check, Shop!goods, NothingMoves
<1>9. CASE Shop!Create
  <2>1. /\ Shop!ThreadNumber(created) \in Shop!Threads
        /\ pc[Shop!ThreadNumber(created)] = "unborn"
    BY <1>9, CustomersAssumption
    DEF Shop!Create, Shop!ThreadNumber, Shop!Threads, Shop!Customers, Ordered
  <2> QED BY <1>9, <2>1, ShownStays DEF Shop!Create, Shop!goods, NothingMoves
<1>10. CASE Shop!Join
  BY <1>10 DEF Shop!Join, Shop!goods, shown, NothingMoves
<1> HIDE DEF ShopInv
<1> QED
  BY <1>1, <1>2, <1>3, <1>4, <1>5, <1>6, <1>7, <1>8, <1>9, <1>10, ShopCases

LEMMA ShownTotal ==
  ASSUME ShopInv, NEW g, Sums(g, shown, Shop!Stores)
  PROVE  Shop!MapThenSumSet(LAMBDA s :
           IF \E c \in Shop!Customers : pc[c] = "clear" /\ i[c] = s
           THEN 0 ELSE stores[s], Shop!Stores) = g[Shop!Stores]
<1> DEFINE P(it) ==
      it = [s \in SUBSET Shop!Stores |->
             IF s = {} THEN 0
             ELSE (IF \E c \in Shop!Customers :
                        pc[c] = "clear" /\ i[c] = (CHOOSE x \in s : TRUE)
                   THEN 0 ELSE stores[CHOOSE x \in s : TRUE])
                  + it[s \ {CHOOSE x \in s : TRUE}]]
<1>1. \A s \in SUBSET Shop!Stores : s # {} =>
        (IF \E c \in Shop!Customers :
              pc[c] = "clear" /\ i[c] = (CHOOSE x \in s : TRUE)
         THEN 0 ELSE stores[CHOOSE x \in s : TRUE]) = shown[Any(s)]
  <2> SUFFICES ASSUME NEW s \in SUBSET Shop!Stores, s # {}
               PROVE  (IF \E c \in Shop!Customers :
                           pc[c] = "clear" /\ i[c] = Any(s)
                       THEN 0 ELSE stores[Any(s)]) = shown[Any(s)]
    BY DEF Any
  <2>1. Any(s) \in Shop!Stores
    BY AnyIsIn
  <2> QED BY <2>1 DEF shown
<1>2. \A it : P(it) <=>
        it = [s \in SUBSET Shop!Stores |->
               IF s = {} THEN 0 ELSE shown[Any(s)] + it[s \ {Any(s)}]]
  BY <1>1 DEF Any
<1>3. P(g)
  <2>1. \A s \in SUBSET Shop!Stores : g[s] =
          IF s = {} THEN 0 ELSE shown[Any(s)] + g[s \ {Any(s)}]
    BY DEF Sums, Recurs
  <2>2. g = [s \in SUBSET Shop!Stores |-> g[s]]
    BY DEF Sums
  <2>3. g = [s \in SUBSET Shop!Stores |->
               IF s = {} THEN 0 ELSE shown[Any(s)] + g[s \ {Any(s)}]]
    BY <2>1, <2>2
  <2> HIDE DEF P
  <2> QED BY <1>2, <2>3
<1>4. P(CHOOSE it : P(it))
  <2> HIDE DEF P
  <2> QED BY <1>3
<1>5. Recurs(CHOOSE it : P(it), shown, Shop!Stores)
  <2> HIDE DEF P
  <2> DEFINE it == CHOOSE it : P(it)
  <2>1. it = [s \in SUBSET Shop!Stores |->
               IF s = {} THEN 0 ELSE shown[Any(s)] + it[s \ {Any(s)}]]
    BY <1>2, <1>4
  <2> HIDE DEF it
  <2>2. Recurs(it, shown, Shop!Stores)
    BY <2>1 DEF Recurs
  <2> QED BY <2>2 DEF it
<1>6. (CHOOSE it : P(it))[Shop!Stores] = g[Shop!Stores]
  <2> HIDE DEF P
  <2>1. IsFiniteSet(Shop!Stores)
    BY CustomersAssumption, FS_Interval DEF Shop!Stores
  <2> QED BY <1>5, <2>1, SumsAgree DEF Sums
<1> QED
  BY <1>6 DEF Shop!MapThenSumSet, Shop!MapThenFoldSet

BalanceIsTotal ==
  \A g, k : Sums(g, shown, Shop!Stores) /\ Sums(k, need, Shop!Customers) =>
    Shop!Balance = g[Shop!Stores] - k[Shop!Customers]

LEMMA BalanceFact == ShopInv => BalanceIsTotal
<1> SUFFICES ASSUME ShopInv, NEW g, NEW k, Sums(g, shown, Shop!Stores),
                    Sums(k, need, Shop!Customers)
             PROVE  Shop!Balance = g[Shop!Stores] - k[Shop!Customers]
  BY DEF BalanceIsTotal
<1>1. Shop!MapThenSumSet(LAMBDA c : need[c], Shop!Customers)
        = k[Shop!Customers]
  BY ShopPeople, TotalIsSum
<1> QED
  BY <1>1, ShownTotal DEF Shop!Balance

(* Goods are neither lost nor consumed twice.                              *)
THEOREM GoodsCorrect == Shop!Spec => GoodsConserved
<1> DEFINE Rule == /\ Shop!Balance' - Shop!Balance \in 0..LOADER_INCREMENT
                   /\ Shop!Balance' # Shop!Balance => Shop!Add
<1>1. ASSUME ShopInv, BalanceIsTotal, ShopInv', BalanceIsTotal', Shop!Next
      PROVE  Rule
  <2>1. /\ IsFiniteSet(Shop!Stores) /\ IsFiniteSet(Shop!Customers)
        /\ shown \in [Shop!Stores -> Int] /\ need \in [Shop!Customers -> Int]
        /\ shown' \in [Shop!Stores -> Int]
        /\ need' \in [Shop!Customers -> Int]
    <3>1. /\ IsFiniteSet(Shop!Stores) /\ IsFiniteSet(Shop!Customers)
          /\ 0..STORE_BOUND \subseteq Int
      BY CustomersAssumption, ShopPeople, FS_Interval DEF Shop!Stores
    <3>2. /\ stores \in [Shop!Stores -> Int]
          /\ need \in [Shop!Customers -> Int]
      BY <1>1, <3>1 DEF ShopInv, ShopKinds
    <3>3. /\ stores' \in [Shop!Stores -> Int]
          /\ need' \in [Shop!Customers -> Int]
      BY <1>1, <3>1 DEF ShopInv, ShopKinds
    <3> QED BY <3>1, <3>2, <3>3 DEF shown
  <2>2. PICK g : Sums(g, shown, Shop!Stores)
    BY <2>1, SumsExist
  <2>3. PICK k : Sums(k, need, Shop!Customers)
    BY <2>1, SumsExist
  <2>4. PICK h : Sums(h, shown', Shop!Stores)
    BY <2>1, SumsExist
  <2>5. PICK l : Sums(l, need', Shop!Customers)
    BY <2>1, SumsExist
  <2>6. /\ Shop!Balance = g[Shop!Stores] - k[Shop!Customers]
        /\ Shop!Balance' = h[Shop!Stores] - l[Shop!Customers]
    BY <1>1, <2>2, <2>3, <2>4, <2>5 DEF BalanceIsTotal
  <2>7. /\ g[Shop!Stores] \in Int /\ k[Shop!Customers] \in Int
        /\ h[Shop!Stores] \in Int /\ l[Shop!Customers] \in Int
    BY <2>2, <2>3, <2>4, <2>5 DEF Sums
  <2>8. 0 \in 0..LOADER_INCREMENT
    BY CustomersAssumption
  <2>9. ASSUME NEW d \in Int, NEW s \in Shop!Stores,
                shown'[s] = shown[s] + d,
                \A x \in Shop!Stores \ {s} : shown'[x] = shown[x]
         PROVE  h[Shop!Stores] = g[Shop!Stores] + d
    BY <2>1, <2>2, <2>4, <2>9, SumsChange
  <2>10. ASSUME NEW d \in Int, NEW c \in Shop!Customers,
                need'[c] = need[c] + d,
                \A x \in Shop!Customers \ {c} : need'[x] = need[x]
         PROVE  l[Shop!Customers] = k[Shop!Customers] + d
    BY <2>1, <2>3, <2>5, <2>10, SumsChange
  <2>11. CASE NothingMoves
    <3>1. h[Shop!Stores] = g[Shop!Stores]
      BY <2>1, <2>2, <2>4, <2>11, SumsAgree DEF NothingMoves, Sums
    <3>2. l[Shop!Customers] = k[Shop!Customers]
      BY <2>1, <2>3, <2>5, <2>11, SumsAgree DEF NothingMoves, Sums
    <3> QED BY <2>6, <2>7, <2>8, <3>1, <3>2
  <2>12. CASE Emptied
    <3>1. PICK c \in Shop!Customers, s \in Shop!Stores :
            /\ need' = [need EXCEPT ![c] = @ - shown[s]]
            /\ shown' = [shown EXCEPT ![s] = 0]
      BY <2>12 DEF Emptied
    <3>2. PICK d \in Int : d = -shown[s]
      <4>1. shown[s] \in Int
        BY <2>1
      <4> QED BY <4>1
    <3>3. h[Shop!Stores] = g[Shop!Stores] + d
      <4>1. shown'[s] = shown[s] + d
        BY <2>1, <3>1, <3>2
      <4>2. \A x \in Shop!Stores \ {s} : shown'[x] = shown[x]
        BY <2>1, <3>1
      <4> QED BY <2>9, <4>1, <4>2
    <3>4. l[Shop!Customers] = k[Shop!Customers] + d
      <4>1. need'[c] = need[c] + d
        BY <2>1, <3>1, <3>2
      <4>2. \A x \in Shop!Customers \ {c} : need'[x] = need[x]
        BY <2>1, <3>1
      <4> QED BY <2>10, <4>1, <4>2
    <3> QED BY <2>6, <2>7, <2>8, <3>2, <3>3, <3>4
  <2>13. CASE Delivered
    <3>1. PICK s \in Shop!Stores, n \in 0..LOADER_INCREMENT :
            shown' = [shown EXCEPT ![s] = @ + n]
      BY <2>13 DEF Delivered
    <3>2. n \in Int
      BY CustomersAssumption
    <3>3. h[Shop!Stores] = g[Shop!Stores] + n
      <4>1. /\ shown'[s] = shown[s] + n
            /\ \A x \in Shop!Stores \ {s} : shown'[x] = shown[x]
        BY <2>1, <3>1
      <4> QED BY <2>9, <3>2, <4>1
    <3>4. l[Shop!Customers] = k[Shop!Customers]
      BY <2>1, <2>3, <2>5, <2>13, SumsAgree DEF Delivered, Sums
    <3> QED BY <2>6, <2>7, <2>13, <3>2, <3>3, <3>4 DEF Delivered
  <2> HIDE DEF Rule
  <2> QED BY <1>1, <2>11, <2>12, <2>13, GoodsMove
<1>2. ShopInv => BalanceIsTotal
  BY BalanceFact
<1>3. [][Rule]_(Shop!vars) => GoodsConserved
  BY DEF GoodsConserved, Shop!GoodsConserved
<1> HIDE DEF Rule
<1> QED
  BY <1>1, <1>2, <1>3, ShopInvariant, PTL DEF Shop!Spec

-----------------------------------------------------------------------------
(* The phone books.  What both of them hold is well formed, and nothing is *)
(* left above the array's count.                                           *)
BooksKinds ==
  /\ list \in [Books!Slots -> Books!Records \cup {Zero}]
  /\ abonents_count \in 0..MAX_ABONENTS
  /\ \A k \in 0..(abonents_count - 1) : list[k] \in Books!Records
  /\ Books!NothingLeft
  /\ heap \in Seq(Books!Records)
  /\ count = Len(heap)
  /\ exited \in BOOLEAN /\ exhausted \in BOOLEAN /\ refused \in BOOLEAN
  /\ exited => exhausted

(* A set of numbers has a first element: the one whose initial segment is  *)
(* smallest.                                                               *)
LEMMA FirstExists ==
  ASSUME NEW n \in Nat, NEW T \in SUBSET (0..n), T # {}
  PROVE  \E k \in T : \A j \in T : k <= j
<1> DEFINE Segments == {0..k : k \in T}
<1>1. Segments \in SUBSET (SUBSET (0..n)) /\ Segments # {}
  <2>1. \A k \in T : 0..k \in SUBSET (0..n)
    OBVIOUS
  <2> QED BY <2>1
<1>2. PICK U \in Segments : \A V \in Segments : V \subseteq U => V = U
  <2> DEFINE W == 0..n
  <2>1. IsFiniteSet(W) /\ Segments \in SUBSET (SUBSET W) /\ Segments # {}
    BY <1>1, FS_Interval
  <2> HIDE DEF Segments, W
  <2> QED BY <2>1, SmallestSubset
<1> HIDE DEF Segments
<1>3. PICK k \in T : U = 0..k
  BY <1>2 DEF Segments
<1>4. ASSUME NEW j \in T PROVE k <= j
  <2>1. CASE j < k
    <3>1. 0..j \in Segments /\ 0..j \subseteq U
      BY <1>3, <2>1 DEF Segments
    <3> QED BY <1>2, <1>3, <2>1, <3>1
  <2> QED BY <2>1
<1> QED BY <1>4

LEMMA FirstFound ==
  ASSUME BooksKinds, NEW name, Books!InArray(name) # {}
  PROVE  /\ Books!First(Books!InArray(name)) \in Books!InArray(name)
         /\ \A j \in Books!InArray(name) :
              Books!First(Books!InArray(name)) <= j
<1>1. MAX_ABONENTS \in Nat /\ Books!InArray(name) \in SUBSET (0..MAX_ABONENTS)
  BY BooksAssumption DEF BooksKinds, Books!InArray
<1> QED BY <1>1, FirstExists DEF Books!First

LEMMA FirstFoundInHeap ==
  ASSUME BooksKinds, NEW name, Books!InHeap(name) # {}
  PROVE  Books!FirstInHeap(name) \in Books!InHeap(name)
<1>1. count \in Nat /\ Books!InHeap(name) \in SUBSET (0..count)
  BY DEF BooksKinds, Books!InHeap
<1> QED BY <1>1, FirstExists DEF Books!FirstInHeap

(* Equal sizes, by a function that pairs the elements off.                 *)
LEMMA Paired ==
  ASSUME NEW S, IsFiniteSet(S), NEW T, NEW f \in [S -> T],
         \A x, y \in S : f[x] = f[y] => x = y,
         \A t \in T : \E x \in S : f[x] = t
  PROVE  Cardinality(T) = Cardinality(S)
<1>1. f \in Bijection(S, T)
  BY DEF Bijection, Injection, Surjection, IsInjective
<1> QED BY <1>1, FS_Bijection DEF ExistsBijection

LEMMA FoundFinite ==
  ASSUME BooksKinds, NEW name
  PROVE  /\ IsFiniteSet(Books!InArray(name))
         /\ Cardinality(Books!InArray(name)) \in Nat
         /\ IsFiniteSet(Books!InHeap(name))
         /\ Cardinality(Books!InHeap(name)) \in Nat
<1>1. /\ Books!InArray(name) \subseteq 0..(abonents_count - 1)
      /\ Books!InHeap(name) \subseteq 1..count
  BY DEF Books!InArray, Books!InHeap
<1>2. /\ IsFiniteSet(0..(abonents_count - 1)) /\ IsFiniteSet(1..count)
  BY FS_Interval DEF BooksKinds
<1>3. IsFiniteSet(Books!InArray(name)) /\ IsFiniteSet(Books!InHeap(name))
  BY <1>1, <1>2, FS_Subset
<1> QED BY <1>3, FS_CardinalityType

(* How each operation changes the number of records under a name.          *)
LEMMA ArrayAdds ==
  ASSUME BooksKinds, NEW r \in Books!Records, ~Books!ArrayFull,
         Books!ArrayAdd(r), NEW name
  PROVE  Cardinality(Books!InArray(name)') =
           Cardinality(Books!InArray(name)) + IF r.name = name THEN 1 ELSE 0
<1>1. /\ list' = [list EXCEPT ![abonents_count] = r]
      /\ abonents_count' = abonents_count + 1
      /\ abonents_count \in Nat /\ abonents_count \in Books!Slots
      /\ list \in [Books!Slots -> Books!Records \cup {Zero}]
      /\ MAX_ABONENTS \in Nat
  BY BooksAssumption
  DEF Books!ArrayAdd, Books!ArrayFull, BooksKinds, Books!Slots
<1>2. \A k \in 0..(abonents_count - 1) : list'[k] = list[k]
  BY <1>1 DEF Books!Slots
<1>3. list'[abonents_count] = r
  BY <1>1
<1>4. 0..(abonents_count' - 1) = 0..(abonents_count - 1) \cup {abonents_count}
  BY <1>1
<1>5. Books!InArray(name)' =
        IF r.name = name THEN Books!InArray(name) \cup {abonents_count}
                         ELSE Books!InArray(name)
  BY <1>1, <1>2, <1>3, <1>4 DEF Books!InArray
<1>6. abonents_count \notin Books!InArray(name)
  BY <1>1 DEF Books!InArray
<1>7. Cardinality(Books!InArray(name) \cup {abonents_count}) =
        Cardinality(Books!InArray(name)) + 1
  BY <1>6, FoundFinite, FS_AddElement
<1>8. Cardinality(Books!InArray(name)) \in Nat
  BY FoundFinite
<1> QED BY <1>5, <1>7, <1>8

LEMMA HeapAdds ==
  ASSUME BooksKinds, NEW r \in Books!Records, heap' = Append(heap, r),
         count' = count + 1, NEW name
  PROVE  Cardinality(Books!InHeap(name)') =
           Cardinality(Books!InHeap(name)) + IF r.name = name THEN 1 ELSE 0
<1>1. /\ count \in Nat /\ heap \in Seq(Books!Records) /\ count = Len(heap)
  BY DEF BooksKinds
<1>2. \A k \in 1..count : heap'[k] = heap[k]
  BY <1>1
<1>3. heap'[count + 1] = r
  BY <1>1
<1>4. 1..count' = 1..count \cup {count + 1}
  BY <1>1
<1>5. Books!InHeap(name)' =
        IF r.name = name THEN Books!InHeap(name) \cup {count + 1}
                         ELSE Books!InHeap(name)
  BY <1>2, <1>3, <1>4 DEF Books!InHeap
<1>6. count + 1 \notin Books!InHeap(name)
  BY <1>1 DEF Books!InHeap
<1>7. Cardinality(Books!InHeap(name) \cup {count + 1}) =
        Cardinality(Books!InHeap(name)) + 1
  BY <1>6, FoundFinite, FS_AddElement
<1>8. Cardinality(Books!InHeap(name)) \in Nat
  BY FoundFinite
<1> QED BY <1>5, <1>7, <1>8

LEMMA ArrayDeletes ==
  ASSUME BooksKinds, NEW gone, Books!InArray(gone) # {},
         Books!ArrayDelete(gone), NEW name
  PROVE  Cardinality(Books!InArray(name)') =
           Cardinality(Books!InArray(name)) - IF gone = name THEN 1 ELSE 0
<1> DEFINE e == Books!First(Books!InArray(gone))
           S == Books!InArray(name) \ {e}
           f == [k \in S |-> IF k < e THEN k ELSE k - 1]
<1>1. e \in Books!InArray(gone)
  BY FirstFound
<1>2. /\ list' = Books!Shifted(e)
      /\ abonents_count' = abonents_count - 1
      /\ abonents_count \in Nat /\ abonents_count <= MAX_ABONENTS
      /\ MAX_ABONENTS \in Nat
  BY BooksAssumption DEF Books!ArrayDelete, BooksKinds
<1> HIDE DEF e
<1>3. e \in 0..(abonents_count - 1) /\ list[e].name = gone
  BY <1>1 DEF Books!InArray
<1>4. \A k \in 0..(abonents_count - 2) :
        list'[k] = IF k < e THEN list[k] ELSE list[k + 1]
  BY <1>2, <1>3 DEF Books!Shifted, Books!Slots
<1>5. f \in [S -> Books!InArray(name)']
  BY <1>2, <1>3, <1>4 DEF Books!InArray
<1>6. \A x, y \in S : f[x] = f[y] => x = y
  BY <1>3 DEF Books!InArray
<1>7. ASSUME NEW t \in Books!InArray(name)' PROVE \E x \in S : f[x] = t
  <2>1. t \in 0..(abonents_count - 2) /\ list'[t].name = name
    BY <1>2, <1>7 DEF Books!InArray
  <2>2. CASE t < e
    <3>1. t \in S /\ f[t] = t
      BY <1>2, <1>3, <1>4, <2>1, <2>2 DEF Books!InArray
    <3> QED BY <3>1
  <2>3. CASE ~(t < e)
    <3>1. t + 1 \in S
      BY <1>2, <1>3, <1>4, <2>1, <2>3 DEF Books!InArray
    <3> QED BY <1>3, <2>1, <2>3, <3>1
  <2> QED BY <2>2, <2>3
<1>8. /\ IsFiniteSet(S)
      /\ Cardinality(S) = Cardinality(Books!InArray(name)) -
                            IF gone = name THEN 1 ELSE 0
  <2>1. e \in Books!InArray(name) <=> gone = name
    BY <1>3 DEF Books!InArray
  <2> QED BY <2>1, FoundFinite, FS_RemoveElement
<1> HIDE DEF S, f
<1> QED BY <1>5, <1>6, <1>7, <1>8, Paired

LEMMA HeapDeletes ==
  ASSUME BooksKinds, NEW gone, Books!InHeap(gone) # {},
         heap' = Books!Shrunk(Books!FirstInHeap(gone)), count' = count - 1,
         NEW name
  PROVE  Cardinality(Books!InHeap(name)') =
           Cardinality(Books!InHeap(name)) - IF gone = name THEN 1 ELSE 0
<1> DEFINE e == Books!FirstInHeap(gone)
           S == Books!InHeap(name) \ {e}
           f == [k \in S |-> IF k = count THEN e ELSE k]
<1>1. e \in Books!InHeap(gone)
  BY FirstFoundInHeap
<1>2. /\ heap' = SubSeq([heap EXCEPT ![e] = heap[count]], 1, count - 1)
      /\ count \in Nat /\ count = Len(heap) /\ heap \in Seq(Books!Records)
  BY DEF Books!Shrunk, BooksKinds
<1> HIDE DEF e
<1>3. e \in 1..count /\ heap[e].name = gone
  BY <1>1 DEF Books!InHeap
<1>4. \A k \in 1..(count - 1) :
        heap'[k] = IF k = e THEN heap[count] ELSE heap[k]
  BY <1>2, <1>3
<1>5. f \in [S -> Books!InHeap(name)']
  BY <1>2, <1>3, <1>4 DEF Books!InHeap
<1>6. \A x, y \in S : f[x] = f[y] => x = y
  BY <1>3 DEF Books!InHeap
<1>7. ASSUME NEW t \in Books!InHeap(name)' PROVE \E x \in S : f[x] = t
  <2>1. t \in 1..(count - 1) /\ heap'[t].name = name
    BY <1>2, <1>7 DEF Books!InHeap
  <2>2. CASE t = e
    <3>1. count \in S
      BY <1>2, <1>3, <1>4, <2>1, <2>2 DEF Books!InHeap
    <3> QED BY <2>2, <3>1
  <2>3. CASE t # e
    BY <1>2, <1>3, <1>4, <2>1, <2>3 DEF Books!InHeap
  <2> QED BY <2>2, <2>3
<1>8. /\ IsFiniteSet(S)
      /\ Cardinality(S) = Cardinality(Books!InHeap(name)) -
                            IF gone = name THEN 1 ELSE 0
  <2>1. e \in Books!InHeap(name) <=> gone = name
    BY <1>3 DEF Books!InHeap
  <2> QED BY <2>1, FoundFinite, FS_RemoveElement
<1> HIDE DEF S, f
<1> QED BY <1>5, <1>6, <1>7, <1>8, Paired

(* What a step does to each of the two, and to the number of records under *)
(* every name.                                                             *)
BooksInv == BooksKinds /\ SameNames

LEMMA BooksInit == Books!Init => BooksInv
<1> SUFFICES ASSUME Books!Init PROVE BooksInv
  OBVIOUS
<1>1. BooksKinds
  <2>1. list = [k \in Books!Slots |-> Zero] /\ abonents_count = 0
    BY DEF Books!Init, Books!ArrayInit
  <2>2. 0 \in 0..MAX_ABONENTS /\ 0..(abonents_count - 1) = {}
    BY <2>1, BooksAssumption
  <2>3. /\ heap = <<>> /\ count = 0
        /\ exited = FALSE /\ exhausted = FALSE /\ refused = FALSE
    BY DEF Books!Init, Books!HeapInit
  <2>4. /\ list \in [Books!Slots -> Books!Records \cup {Zero}]
        /\ Books!NothingLeft
    BY <2>1 DEF Books!NothingLeft
  <2>5. heap \in Seq(Books!Records) /\ count = Len(heap)
    BY <2>3
  <2> QED BY <2>1, <2>2, <2>3, <2>4, <2>5 DEF BooksKinds
<1>2. \A name \in Persons : /\ Books!InArray(name) = {}
                            /\ Books!InHeap(name) = {}
  BY DEF Books!Init, Books!ArrayInit, Books!HeapInit, Books!InArray,
    Books!InHeap
<1>3. Len(heap) = 0 /\ count = 0 /\ abonents_count = 0 /\ ~exited
  BY DEF Books!Init, Books!ArrayInit, Books!HeapInit
<1> QED
  BY <1>1, <1>2, <1>3 DEF BooksInv, SameNames, Books!SameNames,
    Books!Cardinality, Cardinality, Books!IsFiniteSet, IsFiniteSet

ArrayKinds ==
  /\ list \in [Books!Slots -> Books!Records \cup {Zero}]
  /\ abonents_count \in 0..MAX_ABONENTS
  /\ \A k \in 0..(abonents_count - 1) : list[k] \in Books!Records
  /\ Books!NothingLeft

HeapKinds == heap \in Seq(Books!Records) /\ count = Len(heap)

LEMMA ArrayStays ==
  ASSUME BooksKinds,
         \/ \E r \in Books!Records : Books!ArrayAdd(r)
         \/ \E name \in Persons : Books!ArrayDelete(name)
         \/ UNCHANGED Books!arrayVars
  PROVE  ArrayKinds'
<1>1. ASSUME NEW r \in Books!Records, Books!ArrayAdd(r), ~Books!ArrayFull
      PROVE  ArrayKinds'
  BY <1>1, BooksAssumption DEF BooksKinds, ArrayKinds, Books!ArrayAdd,
    Books!ArrayFull, Books!NothingLeft, Books!Slots
<1>2. ASSUME NEW name, Books!ArrayDelete(name), Books!InArray(name) # {}
      PROVE  ArrayKinds'
  <2> DEFINE e == Books!First(Books!InArray(name))
  <2>1. e \in 0..(abonents_count - 1)
    BY <1>2, FirstFound DEF Books!InArray
  <2>2. /\ list' = Books!Shifted(e)
        /\ abonents_count' = abonents_count - 1
    BY <1>2 DEF Books!ArrayDelete
  <2> HIDE DEF e
  <2> QED
    BY <2>1, <2>2, BooksAssumption DEF BooksKinds, ArrayKinds,
      Books!Shifted, Books!NothingLeft, Books!Slots
<1>3. ASSUME UNCHANGED Books!arrayVars
      PROVE  ArrayKinds'
  BY <1>3 DEF BooksKinds, ArrayKinds, Books!arrayVars, Books!NothingLeft,
    Books!Slots
<1> QED BY <1>1, <1>2, <1>3 DEF Books!ArrayAdd, Books!ArrayDelete

HeapGrows(r) == heap' = Append(heap, r) /\ count' = count + 1

HeapShrinks(name) ==
  /\ Books!InHeap(name) # {}
  /\ heap' = Books!Shrunk(Books!FirstInHeap(name))
  /\ count' = count - 1

LEMMA HeapStays ==
  ASSUME BooksKinds,
         \/ \E r \in Books!Records : HeapGrows(r)
         \/ \E name \in Persons : HeapShrinks(name)
         \/ UNCHANGED <<heap, count>>
  PROVE  HeapKinds'
<1>1. ASSUME NEW r \in Books!Records, HeapGrows(r)
      PROVE  HeapKinds'
  BY <1>1 DEF BooksKinds, HeapKinds, HeapGrows
<1>2. ASSUME NEW name, HeapShrinks(name)
      PROVE  HeapKinds'
  <2> DEFINE e == Books!FirstInHeap(name)
  <2>1. e \in 1..count
    BY <1>2, FirstFoundInHeap DEF Books!InHeap, HeapShrinks
  <2>2. /\ heap' = SubSeq([heap EXCEPT ![e] = heap[count]], 1, count - 1)
        /\ count' = count - 1
    BY <1>2 DEF HeapShrinks, Books!Shrunk
  <2> HIDE DEF e
  <2>3. [heap EXCEPT ![e] = heap[count]] \in Seq(Books!Records)
    BY <2>1 DEF BooksKinds
  <2>4. Len([heap EXCEPT ![e] = heap[count]]) = count
    BY <2>1 DEF BooksKinds
  <2> QED BY <2>1, <2>2, <2>3, <2>4 DEF BooksKinds, HeapKinds
<1>3. ASSUME UNCHANGED <<heap, count>>
      PROVE  HeapKinds'
  BY <1>3 DEF BooksKinds, HeapKinds
<1> QED BY <1>1, <1>2, <1>3

(* A step in which there is memory and room for what is entered.           *)
BothAdd(r) == ~Books!ArrayFull /\ Books!ArrayAdd(r) /\ HeapGrows(r)

BothDelete(name) ==
  /\ Books!ArrayDelete(name)
  /\ \/ HeapShrinks(name)
     \/ Books!InHeap(name) = {} /\ UNCHANGED <<heap, count>>

EndKinds ==
  /\ exited \in BOOLEAN /\ exhausted \in BOOLEAN /\ refused \in BOOLEAN
  /\ exited => exhausted

LEMMA BooksSteps ==
  ASSUME BooksKinds, Books!Next
  PROVE  /\ \/ \E r \in Books!Records : Books!ArrayAdd(r)
            \/ \E name \in Persons : Books!ArrayDelete(name)
         /\ \/ \E r \in Books!Records : HeapGrows(r)
            \/ \E name \in Persons : HeapShrinks(name)
            \/ UNCHANGED <<heap, count>>
         /\ EndKinds'
         /\ ~exhausted' /\ ~refused' =>
              /\ ~exhausted /\ ~refused
              /\ \/ \E r \in Books!Records : BothAdd(r)
                 \/ \E name \in Persons : BothDelete(name)
<1>1. ASSUME NEW r \in Books!Records, Books!Add(r) 
      PROVE  /\ HeapGrows(r) \/ UNCHANGED <<heap, count>>
             /\ EndKinds'
             /\ ~exhausted' /\ ~refused' =>
                  ~exhausted /\ ~refused /\ BothAdd(r)
  BY <1>1 DEF Books!Add, Books!HeapAdd, Books!ReallocFails, Books!heapVars,
    HeapGrows, BothAdd, BooksKinds, Books!ArrayFull, EndKinds
<1>2. ASSUME NEW name \in Persons, Books!Delete(name)
      PROVE  /\ HeapShrinks(name) \/ UNCHANGED <<heap, count>>
             /\ EndKinds'
             /\ ~exhausted' /\ ~refused' =>
                  ~exhausted /\ ~refused /\ BothDelete(name)
  <2>1. CASE exited \/ Books!InHeap(name) = {}
    BY <1>2, <2>1 DEF Books!Delete, Books!HeapDelete, Books!heapVars,
      BothDelete, BooksKinds, EndKinds
  <2>2. CASE ~exited /\ Books!InHeap(name) # {}
    <3>1. PICK null \in BOOLEAN :
            /\ exhausted' = (exhausted \/ (null /\ count > 1))
            /\ exited' = (null /\ count - 1 > 0)
            /\ IF exited' THEN UNCHANGED <<heap, count>>
                          ELSE HeapShrinks(name)
      BY <1>2, <2>2 DEF Books!Delete, Books!HeapDelete, Books!IsFailure,
        HeapShrinks
    <3>2. count \in Nat
      BY DEF BooksKinds
    <3>3. Books!ArrayDelete(name) /\ refused' = refused
      BY <1>2 DEF Books!Delete
    <3> QED BY <2>2, <3>1, <3>2, <3>3 DEF BothDelete, BooksKinds, EndKinds
  <2> QED BY <2>1, <2>2
<1> QED BY <1>1, <1>2 DEF Books!Next, Books!Add, Books!Delete

LEMMA BooksStay ==
  ASSUME BooksKinds, Books!Next \/ UNCHANGED Books!vars
  PROVE  BooksKinds'
<1>1. ArrayKinds'
  BY ArrayStays, BooksSteps DEF Books!vars, Books!arrayVars
<1>2. HeapKinds'
  BY HeapStays, BooksSteps DEF Books!vars, Books!heapVars
<1>3. EndKinds'
  BY BooksSteps DEF Books!vars, Books!heapVars, BooksKinds, EndKinds
<1> QED
  BY <1>1, <1>2, <1>3 DEF BooksKinds, ArrayKinds, HeapKinds, EndKinds,
    Books!NothingLeft

SameCounts ==
  /\ count = abonents_count
  /\ \A name \in Persons :
       Cardinality(Books!InArray(name)) = Cardinality(Books!InHeap(name))

LEMMA AddsKeepNames ==
  ASSUME BooksKinds, SameCounts, NEW r \in Books!Records, BothAdd(r)
  PROVE  SameCounts'
<1>1. count' = abonents_count'
  BY DEF SameCounts, BothAdd, HeapGrows, Books!ArrayAdd
<1>2. ASSUME NEW name \in Persons
      PROVE  Cardinality(Books!InArray(name)') =
               Cardinality(Books!InHeap(name)')
  BY ArrayAdds, HeapAdds DEF SameCounts, BothAdd, HeapGrows
<1> QED BY <1>1, <1>2 DEF SameCounts

LEMMA DeletesKeepNames ==
  ASSUME BooksKinds, SameCounts, NEW gone \in Persons, BothDelete(gone)
  PROVE  SameCounts'
<1>1. Books!InArray(gone) = {} <=> Books!InHeap(gone) = {}
  BY FoundFinite, FS_EmptySet DEF SameCounts
<1>2. CASE Books!InHeap(gone) = {}
  <2>1. UNCHANGED <<list, abonents_count, heap, count>>
    BY <1>1, <1>2 DEF BothDelete, HeapShrinks, Books!ArrayDelete,
      Books!arrayVars
  <2> QED BY <2>1 DEF SameCounts, Books!InArray, Books!InHeap
<1>3. CASE Books!InHeap(gone) # {}
  <2>1. /\ Books!ArrayDelete(gone) /\ HeapShrinks(gone)
        /\ Books!InArray(gone) # {}
    BY <1>1, <1>3 DEF BothDelete
  <2>2. count' = abonents_count'
    BY <2>1 DEF SameCounts, HeapShrinks, Books!ArrayDelete
  <2>3. ASSUME NEW name \in Persons
        PROVE  Cardinality(Books!InArray(name)') =
                 Cardinality(Books!InHeap(name)')
    BY <2>1, ArrayDeletes, HeapDeletes DEF SameCounts, HeapShrinks
  <2> QED BY <2>2, <2>3 DEF SameCounts
<1> QED BY <1>2, <1>3

LEMMA SameNamesIs ==
  BooksKinds => (SameNames <=> (~exhausted /\ ~refused => SameCounts))
BY DEF SameNames, Books!SameNames, SameCounts, BooksKinds,
  Books!Cardinality, Cardinality, Books!IsFiniteSet, IsFiniteSet

LEMMA BooksNext ==
  ASSUME BooksInv, Books!Next \/ UNCHANGED Books!vars
  PROVE  BooksInv'
<1>1. BooksKinds /\ BooksKinds'
  BY BooksStay DEF BooksInv
<1>2. ~exhausted /\ ~refused => SameCounts
  BY <1>1, SameNamesIs DEF BooksInv
<1>3. ASSUME ~exhausted', ~refused', Books!Next
      PROVE  SameCounts'
  BY <1>1, <1>2, <1>3, BooksSteps, AddsKeepNames, DeletesKeepNames
<1>4. ASSUME ~exhausted', ~refused', UNCHANGED Books!vars
      PROVE  SameCounts'
  BY <1>2, <1>4 DEF SameCounts, Books!vars, Books!arrayVars,
    Books!heapVars, Books!InArray, Books!InHeap
<1>5. (SameNames <=> (~exhausted /\ ~refused => SameCounts))'
  BY <1>1, SameNamesIs, PTL
<1> QED BY <1>1, <1>3, <1>4, <1>5 DEF BooksInv

THEOREM BooksCorrect == Books!Spec => []SameNames
<1>1. BooksInv /\ [Books!Next]_(Books!vars) => BooksInv'
  BY BooksNext
<1>2. BooksInv => SameNames
  BY DEF BooksInv
<1> QED BY <1>1, <1>2, BooksInit, PTL DEF Books!Spec

(* The phone books' types hold, for arrays of any length.                  *)
HeapFits == count \in 0..MAX_RECORDS

THEOREM BooksTypeCorrect == Books!Spec => []Books!TypeOK
<1>1. Books!Init => BooksInv /\ HeapFits
  BY BooksInit, BooksAssumption DEF Books!Init, Books!HeapInit, HeapFits
<1>2. BooksInv /\ [Books!Next]_(Books!vars) => BooksInv'
  BY BooksNext
<1>3. BooksInv /\ HeapFits /\ [Books!Next]_(Books!vars) => HeapFits'
  <2> SUFFICES ASSUME BooksInv, HeapFits, [Books!Next]_(Books!vars)
               PROVE  HeapFits'
    OBVIOUS
  <2>1. CASE UNCHANGED Books!vars
    BY <2>1 DEF Books!vars, Books!heapVars, HeapFits
  <2>2. ASSUME NEW r \in Books!Records, Books!Add(r) PROVE HeapFits'
    BY <2>2, BooksAssumption DEF Books!Add, Books!HeapAdd,
      Books!ReallocFails, Books!heapVars, HeapFits
  <2>3. ASSUME NEW name \in Persons, Books!Delete(name) PROVE HeapFits'
    <3>1. CASE Books!InHeap(name) = {}
      BY <2>3, <3>1 DEF Books!Delete, Books!HeapDelete, Books!heapVars,
        HeapFits
    <3>2. CASE Books!InHeap(name) # {}
      <4>1. count >= 1
        BY <3>2 DEF Books!InHeap, HeapFits
      <4> QED
        BY <2>3, <3>2, <4>1, BooksAssumption DEF Books!Delete,
          Books!HeapDelete, Books!heapVars, HeapFits
    <3> QED BY <3>1, <3>2
  <2> QED BY <2>1, <2>2, <2>3 DEF Books!Next
<1>4. BooksInv /\ HeapFits => Books!TypeOK
  BY DEF BooksInv, BooksKinds, HeapFits, Books!TypeOK, Books!ArrayTypeOK
<1> QED BY <1>1, <1>2, <1>3, <1>4, PTL DEF Books!Spec

(* The array is the list of PhoneBook: its state and its steps, mapped.    *)
Listed == [k \in 1..abonents_count |-> list[k - 1]]

ListedKinds ==
  /\ Listed \in Seq(Books!Records)
  /\ Len(Listed) = abonents_count
  /\ abonents_count \in Nat

LEMMA ListedIsSequence == BooksKinds => ListedKinds
<1> SUFFICES ASSUME BooksKinds PROVE ListedKinds
  OBVIOUS
<1>1. abonents_count \in Nat
  BY BooksAssumption DEF BooksKinds
<1>2. \A k \in 1..abonents_count : list[k - 1] \in Books!Records
  BY <1>1 DEF BooksKinds
<1> QED BY <1>1, <1>2 DEF Listed, ListedKinds

LEMMA WithoutOne ==
  ASSUME NEW S, NEW s \in Seq(S), NEW e \in 0..(Len(s) - 1)
  PROVE  LET r == SubSeq(s, 1, e) \o SubSeq(s, e + 2, Len(s)) IN
         /\ r \in Seq(S)
         /\ Len(r) = Len(s) - 1
         /\ \A k \in 1..(Len(s) - 1) : r[k] = IF k <= e THEN s[k] ELSE s[k + 1]
<1> DEFINE l == SubSeq(s, 1, e)
           h == SubSeq(s, e + 2, Len(s))
<1>1. l \in Seq(S) /\ Len(l) = e /\ \A k \in 1..e : l[k] = s[k]
  BY SubSeqProperties
<1>2. /\ h \in Seq(S) /\ Len(h) = Len(s) - 1 - e
      /\ \A k \in 1..(Len(s) - 1 - e) : h[k] = s[e + 1 + k]
  <2>1. \A k \in 1..Len(s) : s[k] \in S
    OBVIOUS
  <2>2. h = [k \in 1..(Len(s) - 1 - e) |-> s[e + 1 + k]]
    OBVIOUS
  <2> QED BY <2>1, <2>2
<1> HIDE DEF l, h
<1>3. /\ l \o h \in Seq(S)
      /\ Len(l \o h) = Len(s) - 1
      /\ \A k \in 1..(Len(s) - 1) :
           (l \o h)[k] = IF k <= e THEN l[k] ELSE h[k - e]
  <2>1. Len(l) + Len(h) = Len(s) - 1 /\ Len(l) = e
    BY <1>1, <1>2
  <2>2. /\ l \o h \in Seq(S) /\ Len(l \o h) = Len(l) + Len(h)
        /\ \A k \in 1..(Len(l) + Len(h)) :
             (l \o h)[k] = IF k <= Len(l) THEN l[k] ELSE h[k - Len(l)]
    BY <1>1, <1>2, ConcatProperties, Zenon
  <2> QED BY <2>1, <2>2, Zenon
<1>4. ASSUME NEW k \in 1..(Len(s) - 1)
      PROVE  (l \o h)[k] = IF k <= e THEN s[k] ELSE s[k + 1]
  BY <1>1, <1>2, <1>3
<1> QED BY <1>3, <1>4 DEF l, h

LEMMA ListAdds ==
  ASSUME BooksKinds, BooksKinds', NEW r \in Books!Records,
         Books!ArrayAdd(r), ~Books!ArrayFull
  PROVE  Books!Book!Add(r)
<1>1. /\ list' = [list EXCEPT ![abonents_count] = r]
      /\ abonents_count' = abonents_count + 1
      /\ abonents_count \in Nat /\ abonents_count \in Books!Slots
      /\ abonents_count < MAX_ABONENTS
      /\ list \in [Books!Slots -> Books!Records \cup {Zero}]
      /\ MAX_ABONENTS \in Nat
  BY BooksAssumption
  DEF Books!ArrayAdd, Books!ArrayFull, BooksKinds, Books!Slots
<1>2. \A k \in 0..(abonents_count - 1) : list'[k] = list[k]
  BY <1>1 DEF Books!Slots
<1>3. list'[abonents_count] = r
  BY <1>1
<1>4. Listed' = Append(Listed, r)
  <2>1. /\ Listed' \in Seq(Books!Records)
        /\ Len(Listed') = abonents_count + 1
    <3>1. ListedKinds'
      BY ListedIsSequence, PTL
    <3> QED BY <1>1, <3>1 DEF ListedKinds
  <2>2. /\ Append(Listed, r) \in Seq(Books!Records)
        /\ Len(Append(Listed, r)) = abonents_count + 1
    BY ListedIsSequence DEF ListedKinds
  <2>3. ASSUME NEW k \in 1..(abonents_count + 1)
        PROVE  Listed'[k] = Append(Listed, r)[k]
    BY <1>1, <1>2, <1>3, ListedIsSequence DEF Listed, ListedKinds
  <2> QED BY <2>1, <2>2, <2>3, SeqEqual
<1> QED
  BY <1>1, <1>4, ListedIsSequence
  DEF Books!Book!Add, Listed, ListedKinds

LEMMA ListDeletes ==
  ASSUME BooksKinds, BooksKinds', NEW gone \in Persons,
         Books!ArrayDelete(gone), Books!InArray(gone) # {}
  PROVE  Books!Book!Delete(gone)
<1> DEFINE e == Books!First(Books!InArray(gone))
           Rest == SubSeq(Listed, 1, e) \o SubSeq(Listed, e + 2, Len(Listed))
<1>1. /\ e \in Books!InArray(gone)
      /\ \A j \in Books!InArray(gone) : e <= j
  BY FirstFound
<1>2. /\ list' = Books!Shifted(e)
      /\ abonents_count' = abonents_count - 1
      /\ abonents_count \in Nat /\ abonents_count <= MAX_ABONENTS
      /\ MAX_ABONENTS \in Nat
  BY BooksAssumption DEF Books!ArrayDelete, BooksKinds
<1> HIDE DEF e
<1>3. e \in 0..(abonents_count - 1) /\ list[e].name = gone
  BY <1>1 DEF Books!InArray
<1>4. \A k \in 0..(abonents_count - 2) :
        list'[k] = IF k < e THEN list[k] ELSE list[k + 1]
  BY <1>2, <1>3 DEF Books!Shifted, Books!Slots
<1>5. Listed' = Rest
  <2>1. /\ Listed' \in Seq(Books!Records)
        /\ Len(Listed') = abonents_count - 1
    <3>1. ListedKinds'
      BY ListedIsSequence, PTL
    <3> QED BY <1>2, <3>1 DEF ListedKinds
  <2>2. /\ Rest \in Seq(Books!Records) /\ Len(Rest) = abonents_count - 1
        /\ \A k \in 1..(abonents_count - 1) :
             Rest[k] = IF k <= e THEN Listed[k] ELSE Listed[k + 1]
    BY <1>3, ListedIsSequence, WithoutOne DEF ListedKinds
  <2> HIDE DEF Rest
  <2>3. ASSUME NEW k \in 1..(abonents_count - 1)
        PROVE  Listed'[k] = Rest[k]
    <3>1. Listed'[k] = IF k <= e THEN list[k - 1] ELSE list[k]
      BY <1>2, <1>3, <1>4 DEF Listed
    <3>2. /\ Listed[k] = list[k - 1]
          /\ Listed[k + 1] = list[k]
      BY <1>2 DEF Listed
    <3> QED BY <2>2, <3>1, <3>2
  <2> QED BY <2>1, <2>2, <2>3, SeqEqual
<1>6. /\ e + 1 \in Books!Book!Bearers(gone)
      /\ \A j \in Books!Book!Bearers(gone) : e + 1 <= j
  BY <1>1, <1>2, <1>3, ListedIsSequence
  DEF Books!Book!Bearers, Books!InArray, Listed, ListedKinds
<1>7. Listed' = Books!Book!RemoveAt(Listed, e + 1)
  <2>1. (e + 1) - 1 = e /\ (e + 1) + 1 = e + 2
    BY <1>3
  <2> QED BY <1>5, <2>1 DEF Books!Book!RemoveAt
<1> QED
  BY <1>6, <1>7 DEF Books!Book!Delete, Listed

LEMMA BookSteps ==
  ASSUME BooksKinds, BooksKinds', Books!Next \/ UNCHANGED Books!vars
  PROVE  Books!Book!Next \/ UNCHANGED Listed
<1>1. ASSUME UNCHANGED Books!arrayVars PROVE UNCHANGED Listed
  BY <1>1 DEF Books!arrayVars, Listed
<1>2. ASSUME NEW r \in Books!Records, Books!ArrayAdd(r)
      PROVE  Books!Book!Next \/ UNCHANGED Listed
  BY <1>1, <1>2, ListAdds DEF Books!ArrayAdd, Books!Book!Next
<1>3. ASSUME NEW name \in Persons, Books!ArrayDelete(name)
      PROVE  Books!Book!Next \/ UNCHANGED Listed
  BY <1>1, <1>3, ListDeletes DEF Books!ArrayDelete, Books!Book!Next
<1> QED
  BY <1>1, <1>2, <1>3 DEF Books!Next, Books!Add, Books!Delete, Books!vars

THEOREM ListCorrect == Books!Spec => ArrayIsList
<1>1. Books!Init => BooksKinds
  BY BooksInit DEF BooksInv
<1>2. BooksKinds /\ [Books!Next]_(Books!vars) => BooksKinds'
  BY BooksStay
<1>3. Books!Init => Books!Book!Init
  BY DEF Books!Init, Books!ArrayInit, Books!Book!Init
<1>4. BooksKinds /\ BooksKinds' /\ [Books!Next]_(Books!vars)
        => [Books!Book!Next]_Listed
  BY BookSteps
<1>5. BooksKinds => Books!NothingLeft
  BY DEF BooksKinds
<1> QED
  BY <1>1, <1>2, <1>3, <1>4, <1>5, PTL
  DEF Books!Spec, ArrayIsList, Books!ArrayIsList, Books!Book!Spec, Listed
-----------------------------------------------------------------------------
(* The search for a substring.  Its two loops are recursive functions: any *)
(* function that satisfies the equation of a loop goes on unchanged to     *)
(* where the loop ends, and there is one.                                  *)

LEMMA Steady ==
  ASSUME NEW lo \in Nat, NEW hi \in Nat, lo <= hi, NEW f,
         \A k \in lo..(hi - 1) : f[k] = f[k + 1]
  PROVE  f[lo] = f[hi]
<1> DEFINE Bad == {d \in 0..(hi - lo) : f[hi - d] # f[hi]}
<1>1. ASSUME Bad # {} PROVE FALSE
  <2>1. hi - lo \in Nat /\ Bad \in SUBSET (0..(hi - lo))
    OBVIOUS
  <2>2. PICK d \in Bad : \A e \in Bad : d <= e
    <3> HIDE DEF Bad
    <3> QED BY <1>1, <2>1, FirstExists
  <2>3. d \in 0..(hi - lo) /\ f[hi - d] # f[hi]
    OBVIOUS
  <2>4. d # 0
    BY <2>3
  <2>5. d - 1 \in 0..(hi - lo) /\ d - 1 \notin Bad
    BY <2>2, <2>3, <2>4
  <2>6. f[hi - (d - 1)] = f[hi]
    BY <2>5
  <2>7. hi - d \in lo..(hi - 1) /\ hi - (d - 1) = (hi - d) + 1
    BY <2>3, <2>4
  <2> QED BY <2>3, <2>6, <2>7
<1>2. hi - lo \in 0..(hi - lo)
  OBVIOUS
<1>3. f[hi - (hi - lo)] = f[hi]
  BY <1>1, <1>2
<1> QED BY <1>3

(* The inner loop goes on at letter k.                                     *)
Fits(str, sub, begin, k) ==
  /\ k < Len(sub) /\ begin + k <= Len(str)
  /\ str[begin + k] = sub[k + 1]

Least(T) == CHOOSE j \in T : \A l \in T : j <= l

(* It passes all letters exactly when every one of them fits.              *)
LEMMA MatchedIs ==
  ASSUME NEW str, NEW sub, Len(sub) \in Nat, NEW begin
  PROVE  Exercise!Matched(str, sub, begin) = Len(sub) <=>
           \A k \in 0..(Len(sub) - 1) : Fits(str, sub, begin, k)
<1> DEFINE n == Len(sub)
           F(k) == Fits(str, sub, begin, k)
           P(same) ==
             same = [k \in 0..Len(sub) |->
                      IF /\ k < Len(sub) /\ begin + k <= Len(str)
                         /\ str[begin + k] = sub[k + 1]
                        THEN same[k + 1] ELSE k]
           it == CHOOSE same : P(same)
<1>1. \A same : P(same) <=>
        same = [k \in 0..n |-> IF F(k) THEN same[k + 1] ELSE k]
  BY DEF Fits
<1>2. \A k \in 0..n : F(k) => k < n
  BY DEF Fits
<1>3. \E same : P(same)
  <2> DEFINE Ends(k) == {j \in k..n : ~F(j)}
             g == [k \in 0..n |-> Least(Ends(k))]
  <2> HIDE DEF P, F
  <2>1. ASSUME NEW k \in 0..n, F(k)
        PROVE  Ends(k) = Ends(k + 1) /\ k + 1 \in 0..n
    BY <1>2, <2>1
  <2>2. ASSUME NEW k \in 0..n, ~F(k)
        PROVE  Least(Ends(k)) = k
    <3>1. k \in Ends(k) /\ \A l \in Ends(k) : l \in Int /\ k <= l
      BY <2>2
    <3> HIDE DEF Ends
    <3> QED BY <3>1 DEF Least
  <2>3. \A k \in 0..n : g[k] = IF F(k) THEN g[k + 1] ELSE k
    <3>1. \A k \in 0..n : g[k] = Least(Ends(k))
      OBVIOUS
    <3> HIDE DEF g, Ends
    <3> QED BY <2>1, <2>2, <3>1
  <2>4. g = [k \in 0..n |-> g[k]]
    OBVIOUS
  <2>5. g = [k \in 0..n |-> IF F(k) THEN g[k + 1] ELSE k]
    <3> HIDE DEF g
    <3> QED BY <2>3, <2>4
  <2> QED BY <1>1, <2>5
<1>4. P(it)
  <2> HIDE DEF P
  <2> QED BY <1>3
<1>5. \A k \in 0..n : it[k] = IF F(k) THEN it[k + 1] ELSE k
  <2> HIDE DEF P, it, F
  <2>1. it = [k \in 0..n |-> IF F(k) THEN it[k + 1] ELSE k]
    BY <1>1, <1>4
  <2> QED BY <2>1
<1>6. it[0] = n <=> \A k \in 0..(n - 1) : F(k)
  <2> HIDE DEF P, it, F
  <2>1. it[n] = n
    BY <1>2, <1>5
  <2>2. ASSUME \A k \in 0..(n - 1) : F(k) PROVE it[0] = n
    <3>1. \A k \in 0..(n - 1) : it[k] = it[k + 1]
      BY <1>5, <2>2
    <3> QED BY <2>1, <3>1, Steady
  <2>3. ASSUME NEW k \in 0..(n - 1), ~F(k) PROVE it[0] # n
    <3> DEFINE Misfits == {j \in 0..(n - 1) : ~F(j)}
    <3>1. PICK j \in Misfits : \A l \in Misfits : j <= l
      <4>1. Misfits \in SUBSET (0..n) /\ Misfits # {}
        BY <2>3
      <4> HIDE DEF Misfits
      <4> QED BY <4>1, FirstExists
    <3>2. j \in 0..(n - 1) /\ ~F(j) /\ \A l \in 0..(j - 1) : F(l)
      BY <3>1
    <3>3. \A l \in 0..(j - 1) : it[l] = it[l + 1]
      BY <1>5, <3>2
    <3>4. it[0] = it[j]
      BY <3>2, <3>3, Steady
    <3>5. it[j] = j
      BY <1>5, <3>2
    <3> QED BY <3>2, <3>4, <3>5
  <2> QED BY <2>2, <2>3
<1>7. Exercise!Matched(str, sub, begin) = it[0]
  BY DEF Exercise!Matched
<1> HIDE DEF it, P, F
<1> QED BY <1>6, <1>7 DEF F
(* Where all letters of substr match.                                      *)
Hits(str, sub) ==
  {k \in 1..Len(str) : Exercise!Matched(str, sub, k) = Len(sub)}

(* The outer loop ends at the first hit, or with NULL.                     *)
LEMMA FoundIs ==
  ASSUME NEW str, Len(str) \in 0..TEXT, NEW sub
  PROVE  LET found == Exercise!find_substring(str, sub) IN
         IF Hits(str, sub) = {} THEN found = Exercise!Null
         ELSE found \in Hits(str, sub) /\ \A k \in Hits(str, sub) : found <= k
<1> USE TextsAssumption
<1> DEFINE n == Len(str)
           H == Hits(str, sub)
           M(begin) == Exercise!Matched(str, sub, begin)
           P(from) ==
             from = [begin \in 1..(TEXT + 1) |->
                      CASE begin > Len(str) -> Exercise!Null
                        [] begin <= Len(str) /\ M(begin) = Len(sub) -> begin
                        [] OTHER -> from[begin + 1]]
           it == CHOOSE from : P(from)
<1>0. /\ n \in Nat /\ n <= TEXT /\ Exercise!Null = 0
      /\ H \subseteq 1..n /\ H \subseteq 0..n
      /\ TEXT \in Nat /\ \A h \in H : h \in Nat /\ h <= n
  BY DEF Exercise!Null, Hits
<1>1. \A from : P(from) <=>
        from = [k \in 1..(TEXT + 1) |->
                 IF k > n THEN 0 ELSE IF k \in H THEN k ELSE from[k + 1]]
  <2>1. ASSUME NEW from, NEW k \in 1..(TEXT + 1)
        PROVE  (CASE k > n -> 0
                  [] k <= n /\ M(k) = Len(sub) -> k
                  [] OTHER -> from[k + 1])
                 = IF k > n THEN 0 ELSE IF k \in H THEN k ELSE from[k + 1]
    <3>1. CASE k > n
      BY <1>0, <3>1
    <3>2. CASE k <= n /\ k \in H
      BY <1>0, <3>2 DEF Hits
    <3>3. CASE k <= n /\ k \notin H
      BY <1>0, <3>3 DEF Hits
    <3> QED BY <1>0, <3>1, <3>2, <3>3
  <2> HIDE DEF M, H
  <2> QED BY <1>0, <2>1
<1>2. \E from : P(from)
  <2> DEFINE Rest(k) == {h \in H : k <= h}
             g == [k \in 1..(TEXT + 1) |->
                    IF Rest(k) = {} THEN 0 ELSE Least(Rest(k))]
  <2> HIDE DEF P, H, n
  <2>1. ASSUME NEW k \in 1..(TEXT + 1), k > n
        PROVE  Rest(k) = {}
    <3>1. ASSUME NEW h \in H, k <= h PROVE FALSE
      BY <1>0, <2>1, <3>1
    <3> QED BY <3>1
  <2>2. ASSUME NEW k \in 1..(TEXT + 1), k <= n, k \in H
        PROVE  Rest(k) # {} /\ Least(Rest(k)) = k
    <3>1. k \in Rest(k) /\ \A l \in Rest(k) : l \in Int /\ k <= l
      BY <1>0, <2>2
    <3> HIDE DEF Rest
    <3> QED BY <3>1 DEF Least
  <2>3. ASSUME NEW k \in 1..(TEXT + 1), k <= n, k \notin H
        PROVE  Rest(k) = Rest(k + 1) /\ k + 1 \in 1..(TEXT + 1)
    <3>1. \A h \in H : k <= h <=> k + 1 <= h
      BY <1>0, <2>3
    <3>2. k + 1 \in 1..(TEXT + 1)
      BY <1>0, <2>3
    <3> QED BY <3>1, <3>2
  <2>4. \A k \in 1..(TEXT + 1) : g[k] =
          IF k > n THEN 0 ELSE IF k \in H THEN k ELSE g[k + 1]
    <3>1. \A k \in 1..(TEXT + 1) :
            g[k] = IF Rest(k) = {} THEN 0 ELSE Least(Rest(k))
      OBVIOUS
    <3> HIDE DEF g, Rest
    <3> QED BY <1>0, <2>1, <2>2, <2>3, <3>1
  <2>5. g = [k \in 1..(TEXT + 1) |-> g[k]]
    OBVIOUS
  <2>6. g = [k \in 1..(TEXT + 1) |->
              IF k > n THEN 0 ELSE IF k \in H THEN k ELSE g[k + 1]]
    <3> HIDE DEF g
    <3> QED BY <2>4, <2>5
  <2> QED BY <1>1, <2>6
<1>3. P(it)
  <2> HIDE DEF P
  <2> QED BY <1>2
<1>4. \A k \in 1..(TEXT + 1) :
        it[k] = IF k > n THEN 0 ELSE IF k \in H THEN k ELSE it[k + 1]
  <2> HIDE DEF P, it, H
  <2>1. it = [k \in 1..(TEXT + 1) |->
               IF k > n THEN 0 ELSE IF k \in H THEN k ELSE it[k + 1]]
    BY <1>1, <1>3
  <2> QED BY <2>1
<1>5. IF H = {} THEN it[1] = 0 ELSE it[1] \in H /\ \A k \in H : it[1] <= k
  <2> HIDE DEF P, it, H, n
  <2>1. CASE H = {}
    <3>1. \A k \in 1..n : it[k] = it[k + 1]
      BY <1>0, <1>4, <2>1
    <3>2. it[1] = it[n + 1]
      BY <1>0, <3>1, Steady
    <3>3. it[n + 1] = 0
      BY <1>0, <1>4
    <3> QED BY <2>1, <3>2, <3>3
  <2>2. CASE H # {}
    <3>1. PICK j \in H : \A l \in H : j <= l
      BY <1>0, <2>2, FirstExists
    <3>2. j \in 1..n /\ \A l \in 1..(j - 1) : l \notin H
      BY <1>0, <3>1
    <3>3. \A l \in 1..(j - 1) : it[l] = it[l + 1]
      BY <1>0, <1>4, <3>2
    <3>4. it[1] = it[j]
      BY <3>2, <3>3, Steady
    <3>5. it[j] = j
      BY <1>0, <1>4, <3>1, <3>2
    <3> QED BY <2>2, <3>1, <3>4, <3>5
  <2> QED BY <2>1, <2>2
<1>6. Exercise!find_substring(str, sub) = it[1]
  BY DEF Exercise!find_substring
<1> HIDE DEF it, P, H
<1> QED BY <1>0, <1>5, <1>6 DEF H

(* A hit is where the text goes on with substr.                            *)
LEMMA HitsAre ==
  ASSUME NEW str \in Seq(Letters), NEW sub \in Seq(Letters)
  PROVE  Hits(str, sub) =
           {k \in 1..Len(str) :
              /\ k + Len(sub) - 1 <= Len(str)
              /\ SubSeq(str, k, k + Len(sub) - 1) = sub}
<1>1. Len(str) \in Nat /\ Len(sub) \in Nat
  OBVIOUS
<1>2. ASSUME NEW k \in 1..Len(str)
      PROVE  (\A m \in 0..(Len(sub) - 1) : Fits(str, sub, k, m)) <=>
               /\ k + Len(sub) - 1 <= Len(str)
               /\ SubSeq(str, k, k + Len(sub) - 1) = sub
  <2>1. ASSUME \A m \in 0..(Len(sub) - 1) : Fits(str, sub, k, m)
        PROVE  k + Len(sub) - 1 <= Len(str)
    <3>1. CASE Len(sub) = 0
      BY <1>1, <3>1
    <3>2. CASE Len(sub) # 0
      <4>1. Len(sub) - 1 \in 0..(Len(sub) - 1)
        BY <1>1, <3>2
      <4>2. k + (Len(sub) - 1) <= Len(str)
        BY <2>1, <4>1 DEF Fits
      <4> QED BY <1>1, <4>2
    <3> QED BY <3>1, <3>2
  <2>2. ASSUME k + Len(sub) - 1 <= Len(str)
        PROVE  (\A m \in 0..(Len(sub) - 1) : Fits(str, sub, k, m)) <=>
                 SubSeq(str, k, k + Len(sub) - 1) = sub
    <3> DEFINE t == SubSeq(str, k, k + Len(sub) - 1)
    <3>1. /\ t \in Seq(Letters) /\ Len(t) = Len(sub)
          /\ \A l \in 1..Len(sub) : t[l] = str[k + l - 1]
      BY <1>1, <2>2
    <3>2. t = sub <=> \A l \in 1..Len(sub) : t[l] = sub[l]
      <4> HIDE DEF t
      <4> QED BY <3>1, SeqEqual
    <3>3. (\A m \in 0..(Len(sub) - 1) : Fits(str, sub, k, m)) <=>
            \A l \in 1..Len(sub) : str[k + l - 1] = sub[l]
      <4>1. ASSUME \A m \in 0..(Len(sub) - 1) : Fits(str, sub, k, m),
                   NEW l \in 1..Len(sub)
            PROVE  str[k + l - 1] = sub[l]
        <5>1. Fits(str, sub, k, l - 1)
          BY <1>1, <4>1
        <5>2. k + (l - 1) = k + l - 1 /\ (l - 1) + 1 = l
          BY <1>1, <4>1
        <5> QED BY <5>1, <5>2 DEF Fits
      <4>2. ASSUME \A l \in 1..Len(sub) : str[k + l - 1] = sub[l],
                   NEW m \in 0..(Len(sub) - 1)
            PROVE  Fits(str, sub, k, m)
        <5>1. str[k + (m + 1) - 1] = sub[m + 1]
          BY <1>1, <4>2
        <5>2. k + (m + 1) - 1 = k + m
          BY <1>1, <4>2
        <5> QED BY <1>1, <2>2, <4>2, <5>1, <5>2 DEF Fits
      <4> QED BY <4>1, <4>2
    <3> HIDE DEF t
    <3> QED BY <3>1, <3>2, <3>3 DEF t
  <2> QED BY <2>1, <2>2
<1> QED BY <1>1, <1>2, MatchedIs DEF Hits

(* The program has searched one of its texts for another.                  *)
Searched ==
  \E str, sub \in Exercise!Texts :
    input = <<str, sub>> /\ output = Exercise!find_substring(str, sub)

LEMMA SearchedRight == Searched => Exercise!OccurrenceRight
<1> SUFFICES ASSUME NEW str \in Exercise!Texts, NEW sub \in Exercise!Texts,
                    input = <<str, sub>>,
                    output = Exercise!find_substring(str, sub)
             PROVE  Exercise!OccurrenceRight
  BY DEF Searched
<1>1. /\ str \in Seq(Letters) /\ Len(str) \in 0..TEXT
      /\ sub \in Seq(Letters)
  <2>1. PICK n \in 0..TEXT : str \in [1..n -> Letters]
    BY DEF Exercise!Texts
  <2>2. PICK m \in 0..TEXT : sub \in [1..m -> Letters]
    BY DEF Exercise!Texts
  <2>3. n \in Nat /\ m \in Nat
    BY TextsAssumption
  <2> QED BY <2>1, <2>2, <2>3, SeqDef
<1>2. input[1] = str /\ input[2] = sub
  OBVIOUS
<1> DEFINE At == {k \in 1..Len(str) :
                    k + Len(sub) - 1 <= Len(str) /\
                    SubSeq(str, k, k + Len(sub) - 1) = sub}
<1>3. IF At = {} THEN output = Exercise!Null
      ELSE output \in At /\ \A k \in At : output <= k
  <2>1. At = Hits(str, sub)
    BY <1>1, HitsAre
  <2> HIDE DEF At
  <2> QED BY <1>1, <2>1, FoundIs
<1>4. Exercise!OccurrenceRight <=>
        IF At = {} THEN output = Exercise!Null
        ELSE output \in At /\ \A k \in At : output <= k
  BY <1>2, Zenon DEF Exercise!OccurrenceRight
<1> QED BY <1>3, <1>4

-----------------------------------------------------------------------------
(* The reversal of an array: after the swaps in a set T of rounds, what is *)
(* at both ends of each of them has changed places.                        *)

Highest(T) == CHOOSE x \in T : \A y \in T : x >= y

LEMMA TopIsIn ==
  ASSUME NEW n \in Nat, NEW T \in SUBSET (1..n), T # {}
  PROVE  Highest(T) \in T /\ \A y \in T : Highest(T) >= y
<1> DEFINE U == {n - x : x \in T}
<1>1. U \in SUBSET (0..n) /\ U # {}
  <2>1. \A x \in T : x \in 1..n /\ n - x \in 0..n
    OBVIOUS
  <2> QED BY <2>1
<1>2. PICK l \in U : \A m \in U : l <= m
  <2> HIDE DEF U
  <2> QED BY <1>1, FirstExists
<1>3. PICK x \in T : l = n - x
  OBVIOUS
<1>4. \A y \in T : x >= y
  <2>1. \A y \in T : n - y \in U
    OBVIOUS
  <2>2. \A y \in T : n - x <= n - y
    BY <1>2, <1>3, <2>1
  <2> QED BY <2>2
<1> QED BY <1>4 DEF Highest

SwappedIn(arr, T) ==
  [j \in 1..Len(arr) |->
     IF j \in T \/ Len(arr) + 1 - j \in T THEN arr[Len(arr) + 1 - j]
                                        ELSE arr[j]]

SwapRound(arr, prev, r) ==
  [prev EXCEPT ![Len(arr) - r] = prev[r + 1], ![r + 1] = prev[Len(arr) - r]]

LEMMA RoundSwaps ==
  ASSUME NEW S, NEW arr \in Seq(S),
         NEW T \in SUBSET (1..(Len(arr) \div 2)), NEW x \in T
  PROVE  SwapRound(arr, SwappedIn(arr, T \ {x}), x - 1) = SwappedIn(arr, T)
<1> DEFINE n == Len(arr)
           prev == SwappedIn(arr, T \ {x})
           next == SwapRound(arr, prev, x - 1)
<1>1. PICK half \in Nat : half = n \div 2 /\ 2 * half <= n
  <2>1. n \in Nat
    OBVIOUS
  <2> QED BY <2>1
<1>2. n \in Nat /\ x \in 1..half /\ T \subseteq 1..half
  BY <1>1
<1>3. /\ x \in 1..n /\ n + 1 - x \in 1..n /\ x < n + 1 - x
      /\ n - (x - 1) = n + 1 - x /\ (x - 1) + 1 = x
      /\ n + 1 - (n + 1 - x) = x
      /\ n + 1 - x \notin T
  BY <1>1, <1>2
<1>4. prev[x] = arr[x] /\ prev[n + 1 - x] = arr[n + 1 - x]
  BY <1>3 DEF SwappedIn
<1>5. next = [prev EXCEPT ![n + 1 - x] = arr[x], ![x] = arr[n + 1 - x]]
  <2> HIDE DEF n, prev
  <2> QED BY <1>3, <1>4 DEF SwapRound, n
<1>6. ASSUME NEW j \in 1..n
      PROVE  next[j] = SwappedIn(arr, T)[j]
  <2>1. CASE j = x
    BY <1>3, <1>5, <2>1 DEF SwappedIn
  <2>2. CASE j = n + 1 - x
    BY <1>3, <1>5, <2>2 DEF SwappedIn
  <2>3. CASE j # x /\ j # n + 1 - x
    <3>1. next[j] = prev[j]
      BY <1>3, <1>5, <2>3 DEF SwappedIn
    <3>2. /\ j \in T <=> j \in T \ {x}
          /\ n + 1 - j \in T <=> n + 1 - j \in T \ {x}
      BY <1>2, <2>3
    <3> QED BY <3>1, <3>2 DEF SwappedIn
  <2> QED BY <2>1, <2>2, <2>3
<1>7. next = [j \in 1..n |-> next[j]]
  BY <1>5 DEF SwappedIn
<1>8. SwappedIn(arr, T) = [j \in 1..n |-> SwappedIn(arr, T)[j]]
  BY DEF SwappedIn
<1> HIDE DEF next
<1>9. next = SwappedIn(arr, T)
  <2> HIDE DEF n
  <2> QED BY <1>6, <1>7, <1>8
<1> QED BY <1>9 DEF next

(* The loop of arrays/task2.c is a fold whose rounds may come in any       *)
(* order; when all have been, the array is reversed.                       *)
LEMMA SwappedReverses ==
  ASSUME NEW S, NEW arr \in Seq(S)
  PROVE  Exercise!Swapped(arr) = Exercise!Reverse(arr)
<1> DEFINE n == Len(arr)
           D == 1..(n \div 2)
           rounds == [k \in 1..(n \div 2) |-> k - 1]
           Body(it, T) ==
             IF T = {} THEN arr
             ELSE LET x == CHOOSE x \in T : \A y \in T : x >= y IN
                  [it[T \ {x}] EXCEPT
                     ![n - rounds[x]] = it[T \ {x}][rounds[x] + 1],
                     ![rounds[x] + 1] = it[T \ {x}][n - rounds[x]]]
           P(it) == it = [T \in SUBSET (DOMAIN rounds) |-> Body(it, T)]
           last == CHOOSE it : P(it)
<1>1. n \in Nat /\ n \div 2 \in Nat
  <2>1. n \in Nat
    OBVIOUS
  <2> QED BY <2>1
<1>2. \A T \in SUBSET D : T # {} => Highest(T) \in T
  BY <1>1, TopIsIn
<1>3. \A it : P(it) <=>
        it = [T \in SUBSET D |->
               IF T = {} THEN arr
               ELSE SwapRound(arr, it[T \ {Highest(T)}], Highest(T) - 1)]
  <2>1. DOMAIN rounds = D
    OBVIOUS
  <2>2. \A x \in D : rounds[x] = x - 1
    OBVIOUS
  <2>3. ASSUME NEW it, NEW T \in SUBSET D
        PROVE  Body(it, T) =
                 IF T = {} THEN arr
                 ELSE SwapRound(arr, it[T \ {Highest(T)}], Highest(T) - 1)
    <3>1. CASE T = {}
      BY <3>1
    <3>2. CASE T # {}
      <4>1. rounds[Highest(T)] = Highest(T) - 1
        BY <1>2, <2>2, <3>2
      <4> HIDE DEF D, rounds
      <4> QED BY <3>2, <4>1 DEF Highest, SwapRound
    <3> QED BY <3>1, <3>2
  <2> HIDE DEF D, rounds, Body
  <2> QED BY <2>1, <2>3
<1> DEFINE g == [T \in SUBSET D |-> SwappedIn(arr, T)]
<1>4. P(g)
  <2>1. ASSUME NEW T \in SUBSET D
        PROVE  g[T] = IF T = {} THEN arr
                      ELSE SwapRound(arr, g[T \ {Highest(T)}], Highest(T) - 1)
    <3>1. CASE T = {}
      <4>1. SwappedIn(arr, {}) = arr
        BY DEF SwappedIn
      <4> QED BY <3>1, <4>1
    <3>2. CASE T # {}
      <4>1. Highest(T) \in T /\ T \ {Highest(T)} \in SUBSET D
        BY <1>2, <3>2
      <4>2. /\ g[T] = SwappedIn(arr, T)
            /\ g[T \ {Highest(T)}] = SwappedIn(arr, T \ {Highest(T)})
        BY <4>1
      <4>3. SwapRound(arr, SwappedIn(arr, T \ {Highest(T)}), Highest(T) - 1)
              = SwappedIn(arr, T)
        BY <4>1, RoundSwaps
      <4> HIDE DEF g, D
      <4> QED BY <3>2, <4>2, <4>3
    <3> QED BY <3>1, <3>2
  <2>2. g = [T \in SUBSET D |-> g[T]]
    OBVIOUS
  <2>3. g = [T \in SUBSET D |->
               IF T = {} THEN arr
               ELSE SwapRound(arr, g[T \ {Highest(T)}], Highest(T) - 1)]
    <3> HIDE DEF g, D
    <3> QED BY <2>1, <2>2
  <2> HIDE DEF P, g
  <2> QED BY <1>3, <2>3
<1>5. \A T \in SUBSET D :
        last[T] = IF T = {} THEN arr
                  ELSE SwapRound(arr, last[T \ {Highest(T)}], Highest(T) - 1)
  <2>1. P(last)
    <3> HIDE DEF P, g
    <3> QED BY <1>4
  <2> HIDE DEF P, last, D
  <2>2. last = [T \in SUBSET D |->
                  IF T = {} THEN arr
                  ELSE SwapRound(arr, last[T \ {Highest(T)}], Highest(T) - 1)]
    BY <1>3, <2>1
  <2> QED BY <2>2
<1>6. last[D] = SwappedIn(arr, D)
  <2> HIDE DEF last
  <2> DEFINE Bad == {T \in SUBSET D : last[T] # SwappedIn(arr, T)}
  <2>1. ASSUME Bad # {} PROVE FALSE
    <3>1. PICK T \in Bad : \A U \in Bad : U \subseteq T => U = T
      <4>1. IsFiniteSet(D) /\ Bad \in SUBSET (SUBSET D)
        BY <1>1, FS_Interval
      <4> HIDE DEF Bad, D
      <4> QED BY <2>1, <4>1, SmallestSubset
    <3>2. T \in SUBSET D /\ last[T] # SwappedIn(arr, T)
      OBVIOUS
    <3>3. CASE T = {}
      <4>1. SwappedIn(arr, {}) = arr
        BY DEF SwappedIn
      <4> QED BY <1>5, <3>2, <3>3, <4>1
    <3>4. CASE T # {}
      <4>1. Highest(T) \in T /\ T \ {Highest(T)} \in SUBSET D
        BY <1>2, <3>2, <3>4
      <4>2. T \ {Highest(T)} \notin Bad
        BY <3>1, <4>1
      <4>3. last[T \ {Highest(T)}] = SwappedIn(arr, T \ {Highest(T)})
        BY <4>1, <4>2
      <4> HIDE DEF Bad
      <4>4. last[T] = SwapRound(arr, SwappedIn(arr, T \ {Highest(T)}),
                            Highest(T) - 1)
        BY <1>5, <3>2, <3>4, <4>3
      <4> QED BY <3>2, <4>1, <4>4, RoundSwaps
    <3> QED BY <3>3, <3>4
  <2>2. D \in SUBSET D
    OBVIOUS
  <2> HIDE DEF D
  <2> QED BY <2>1, <2>2
<1>7. Exercise!Swapped(arr) = last[DOMAIN rounds]
  BY DEF Exercise!Swapped, Exercise!FoldLeft, Exercise!MapThenFoldSet,
    Exercise!Max
<1>8. DOMAIN rounds = D
  OBVIOUS
<1>9. SwappedIn(arr, D) = Exercise!Reverse(arr)
  <2>1. ASSUME NEW j \in 1..n
        PROVE  SwappedIn(arr, D)[j] = arr[(n - j) + 1]
    <3>1. n \in Nat /\ (n - j) + 1 = n + 1 - j
      BY <1>1
    <3>2. j \in D \/ n + 1 - j \in D \/ n + 1 - j = j
      BY <1>1
    <3> HIDE DEF D
    <3> QED BY <3>1, <3>2 DEF SwappedIn
  <2>2. SwappedIn(arr, D) = [j \in 1..n |-> SwappedIn(arr, D)[j]]
    BY DEF SwappedIn
  <2> HIDE DEF D
  <2>3. SwappedIn(arr, D) = [j \in 1..n |-> arr[(n - j) + 1]]
    BY <2>1, <2>2
  <2> QED BY <2>3 DEF Exercise!Reverse
<1> HIDE DEF last, rounds, D
<1> QED BY <1>6, <1>7, <1>8, <1>9
-----------------------------------------------------------------------------
(* Loops.  A recursive function exists when every step goes back to a lower*)
(* rank; the fold over a sequence recurs over the sets of its positions.   *)
Unfolds(f, X, Z, prev, base, step) ==
  \A x \in X : f[x] = IF x \in Z THEN base ELSE step[<<f[prev[x]], x>>]

LEMMA RecursionExists ==
  ASSUME NEW n \in Nat, NEW X, NEW Z, NEW rank \in [X -> 0..n],
         NEW prev, \A x \in X \ Z : prev[x] \in X /\ rank[prev[x]] < rank[x],
         NEW V, NEW base \in V, NEW step \in [V \X X -> V]
  PROVE  \E f \in [X -> V] : Unfolds(f, X, Z, prev, base, step)
<1> DEFINE Upto(r) == {x \in X : rank[x] <= r}
           Good(r) == \E f \in [Upto(r) -> V] :
                        Unfolds(f, Upto(r), Z, prev, base, step)
           Bad == {r \in 0..n : ~ Good(r)}
<1> HIDE DEF Good
<1>1. ASSUME Bad # {} PROVE FALSE
  <2>1. PICK r \in Bad : \A s \in Bad : r <= s
    <3>1. Bad \in SUBSET (0..n)
      OBVIOUS
    <3> HIDE DEF Bad
    <3> QED BY <1>1, <3>1, FirstExists
  <2>2. r \in 0..n /\ ~ Good(r)
    OBVIOUS
  <2>3. \E g : /\ \A x \in X : rank[x] < r => g[x] \in V
               /\ \A x \in X : rank[x] < r =>
                    g[x] = IF x \in Z THEN base ELSE step[<<g[prev[x]], x>>]
    <3>1. CASE r = 0
      <4>1. \A x \in X : ~ (rank[x] < r)
        BY <3>1
      <4> QED BY <4>1
    <3>2. CASE r # 0
      <4>1. r - 1 \in 0..n /\ r - 1 \notin Bad
        BY <2>1, <2>2, <3>2
      <4>2. Good(r - 1)
        BY <4>1
      <4>3. PICK g \in [Upto(r - 1) -> V] :
                   Unfolds(g, Upto(r - 1), Z, prev, base, step)
        BY <4>2 DEF Good
      <4>4. \A x \in X : rank[x] < r => x \in Upto(r - 1)
        BY <2>2
      <4> HIDE DEF Upto
      <4> QED BY <4>3, <4>4 DEF Unfolds
    <3> QED BY <3>1, <3>2
  <2>4. PICK g : /\ \A x \in X : rank[x] < r => g[x] \in V
                 /\ \A x \in X : rank[x] < r =>
                      g[x] = IF x \in Z THEN base ELSE step[<<g[prev[x]], x>>]
    BY <2>3
  <2> DEFINE f == [x \in Upto(r) |->
                     IF rank[x] < r THEN g[x]
                     ELSE IF x \in Z THEN base ELSE step[<<g[prev[x]], x>>]]
  <2>5. ASSUME NEW x \in Upto(r), x \notin Z
        PROVE  /\ prev[x] \in Upto(r) /\ rank[prev[x]] < r
               /\ f[prev[x]] = g[prev[x]] /\ g[prev[x]] \in V
    <3>1. /\ prev[x] \in X /\ rank[prev[x]] < rank[x] /\ rank[x] <= r
          /\ rank[x] \in 0..n /\ rank[prev[x]] \in 0..n
      BY <2>5
    <3>2. rank[prev[x]] < r
      BY <2>2, <3>1
    <3> QED BY <2>4, <3>1, <3>2
  <2>6. f \in [Upto(r) -> V]
    <3>1. ASSUME NEW x \in Upto(r) PROVE f[x] \in V
      <4>1. CASE rank[x] < r \/ x \in Z
        BY <2>4, <4>1
      <4>2. CASE ~ (rank[x] < r) /\ x \notin Z
        BY <2>5, <4>2
      <4> QED BY <4>1, <4>2
    <3>2. f = [x \in Upto(r) |-> f[x]]
      OBVIOUS
    <3> HIDE DEF f
    <3> QED BY <3>1, <3>2
  <2>7. Unfolds(f, Upto(r), Z, prev, base, step)
    <3>1. ASSUME NEW x \in Upto(r)
          PROVE  f[x] = IF x \in Z THEN base ELSE step[<<f[prev[x]], x>>]
      <4>1. CASE x \in Z
        BY <2>4, <4>1
      <4>2. CASE x \notin Z
        <5>1. f[prev[x]] = g[prev[x]]
          BY <2>5, <4>2
        <5>2. f[x] = step[<<g[prev[x]], x>>]
          BY <2>4, <4>2
        <5> HIDE DEF f
        <5> QED BY <4>2, <5>1, <5>2
      <4> QED BY <4>1, <4>2
    <3> HIDE DEF f
    <3> QED BY <3>1 DEF Unfolds
  <2> HIDE DEF f, Upto
  <2> QED BY <2>2, <2>6, <2>7 DEF Good
<1>2. Good(n)
  <2>1. n \in 0..n
    OBVIOUS
  <2> QED BY <1>1, <2>1
<1>3. Upto(n) = X
  OBVIOUS
<1> HIDE DEF Upto
<1> QED BY <1>2, <1>3 DEF Good

(* A fold recurs over sets of positions, by their highest one.             *)
FoldsBy(f, n, base, step) ==
  \A T \in SUBSET (1..n) :
    f[T] = IF T = {} THEN base ELSE step[<<f[T \ {Highest(T)}], Highest(T)>>]

LEMMA FoldExists ==
  ASSUME NEW n \in Nat, NEW V, NEW base \in V, NEW step \in [V \X (1..n) -> V]
  PROVE  \E f \in [SUBSET (1..n) -> V] : FoldsBy(f, n, base, step)
<1> DEFINE D == 1..n
           X == SUBSET D
           Z == {{}}
           rank == [T \in X |-> IF T = {} THEN 0 ELSE Highest(T)]
           prev == [T \in X |-> T \ {Highest(T)}]
           take == [p \in V \X X |-> IF p[2] = {} THEN base
                                     ELSE step[<<p[1], Highest(p[2])>>]]
<1>1. \A T \in X : T # {} => /\ Highest(T) \in T /\ Highest(T) \in D
                             /\ Highest(T) \in 1..n
                             /\ \A y \in T : Highest(T) >= y
  BY TopIsIn
<1>2. rank \in [X -> 0..n]
  <2>1. \A T \in X : (IF T = {} THEN 0 ELSE Highest(T)) \in 0..n
    BY <1>1
  <2> QED BY <2>1
<1>3. ASSUME NEW T \in X \ Z
      PROVE  prev[T] \in X /\ rank[prev[T]] < rank[T]
  <2>1. T # {} /\ T \in X
    OBVIOUS
  <2> DEFINE U == T \ {Highest(T)}
  <2>2. prev[T] = U /\ U \in X /\ U \subseteq T /\ Highest(T) \notin U
    BY <2>1
  <2>3. rank[T] = Highest(T) /\ rank[U] = IF U = {} THEN 0 ELSE Highest(U)
    BY <2>1, <2>2
  <2>4. Highest(T) \in 1..n /\ \A y \in T : Highest(T) >= y
    BY <1>1, <2>1
  <2>5. CASE U = {}
    BY <2>2, <2>3, <2>4, <2>5
  <2>6. CASE U # {}
    <3>1. Highest(U) \in U /\ Highest(U) \in 1..n
      BY <1>1, <2>2, <2>6
    <3>2. Highest(U) # Highest(T) /\ Highest(T) >= Highest(U)
      BY <2>2, <2>4, <3>1
    <3>3. Highest(U) < Highest(T)
      <4> HIDE DEF U
      <4> QED BY <2>4, <3>1, <3>2
    <3> HIDE DEF U, rank, prev, X, Z
    <3> QED BY <2>2, <2>3, <2>6, <3>3
  <2> QED BY <2>5, <2>6
<1>4. take \in [V \X X -> V]
  <2>1. ASSUME NEW p \in V \X X
        PROVE  (IF p[2] = {} THEN base ELSE step[<<p[1], Highest(p[2])>>]) \in V
    <3>1. p[1] \in V /\ p[2] \in X
      OBVIOUS
    <3>2. CASE p[2] # {}
      <4>1. <<p[1], Highest(p[2])>> \in V \X D
        BY <1>1, <3>1, <3>2
      <4> QED BY <3>2, <4>1
    <3> QED BY <3>2
  <2> QED BY <2>1
<1>5. PICK f \in [X -> V] : Unfolds(f, X, Z, prev, base, take)
  <2> HIDE DEF X, Z, rank, prev, take
  <2> QED BY <1>2, <1>3, <1>4, RecursionExists
<1>6. ASSUME NEW T \in X
      PROVE  f[T] = IF T = {} THEN base
                    ELSE step[<<f[T \ {Highest(T)}], Highest(T)>>]
  <2>1. f[T] = IF T \in Z THEN base ELSE take[<<f[prev[T]], T>>]
    BY <1>5 DEF Unfolds
  <2>2. CASE T = {}
    BY <2>1, <2>2
  <2>3. CASE T # {}
    <3>1. prev[T] = T \ {Highest(T)} /\ prev[T] \in X
      OBVIOUS
    <3>2. f[prev[T]] \in V
      BY <3>1
    <3>3. take[<<f[prev[T]], T>>] = step[<<f[prev[T]], Highest(T)>>]
      <4> DEFINE p == <<f[prev[T]], T>>
      <4>1. p \in V \X X /\ p[1] = f[prev[T]] /\ p[2] = T
        BY <3>2
      <4> HIDE DEF p
      <4> QED BY <2>3, <4>1
    <3> HIDE DEF take, prev
    <3> QED BY <2>1, <2>3, <3>1, <3>3
  <2> QED BY <2>2, <2>3
<1> QED BY <1>5, <1>6 DEF FoldsBy

LEMMA HighestOf ==
  ASSUME NEW k \in Nat, k >= 1
  PROVE  Highest(1..k) = k /\ (1..k) \ {k} = 1..(k - 1) /\ 1..k # {}
<1>1. k \in 1..k /\ 1..k \in SUBSET (1..k)
  OBVIOUS
<1>2. Highest(1..k) \in 1..k /\ \A y \in 1..k : Highest(1..k) >= y
  BY <1>1, TopIsIn
<1> QED BY <1>1, <1>2

-----------------------------------------------------------------------------
(* Powers of two, up to the highest one the programs use.                  *)
Most == 4 * BYTE + HALF
Pow(k) == 2^k

LEMMA PowFacts ==
  /\ Pow(0) = 1 /\ Most \in Nat
  /\ \A k \in 0..Most : Pow(k) \in Nat /\ Pow(k + 1) = 2 * Pow(k)
BY BytesAssumption, PowersAssumption DEF Pow, Most

LEMMA PowAdds ==
  ASSUME NEW j \in Nat, NEW k \in Nat, j + k <= Most
  PROVE  Pow(j + k) = Pow(j) * Pow(k)
<1> DEFINE Bad == {m \in 0..k : Pow(j + m) # Pow(j) * Pow(m)}
<1>1. ASSUME Bad # {} PROVE FALSE
  <2>1. PICK m \in Bad : \A l \in Bad : m <= l
    <3>1. Bad \in SUBSET (0..k)
      OBVIOUS
    <3> HIDE DEF Bad
    <3> QED BY <1>1, <3>1, FirstExists
  <2>2. m \in 0..k /\ Pow(j + m) # Pow(j) * Pow(m)
    OBVIOUS
  <2>3. j \in 0..Most /\ Pow(j) \in Nat /\ j + 0 = j
    BY PowFacts
  <2>4. m # 0
    BY <2>2, <2>3, PowFacts
  <2>5. m - 1 \in 0..k /\ m - 1 \notin Bad
    BY <2>1, <2>2, <2>4
  <2>6. Pow(j + (m - 1)) = Pow(j) * Pow(m - 1)
    BY <2>5
  <2>7. /\ m - 1 \in 0..Most /\ j + (m - 1) \in 0..Most
        /\ (m - 1) + 1 = m /\ (j + (m - 1)) + 1 = j + m
    BY <2>2, <2>4, PowFacts
  <2>8. Pow(m) = 2 * Pow(m - 1) /\ Pow(m - 1) \in Nat
        /\ Pow(j + m) = 2 * Pow(j + (m - 1))
    BY <2>7, PowFacts
  <2>9. Pow(j) * (2 * Pow(m - 1)) = 2 * (Pow(j) * Pow(m - 1))
    BY <2>3, <2>8
  <2> QED BY <2>2, <2>6, <2>8, <2>9
<1>2. k \in 0..k
  OBVIOUS
<1> QED BY <1>1, <1>2

LEMMA PowPositive ==
  ASSUME NEW k \in 0..Most
  PROVE  Pow(k) >= 1 /\ (k >= 1 => Pow(k) >= 2)
<1> DEFINE Bad == {m \in 0..k : ~ (Pow(m) >= 1)}
<1>0. k \in Nat /\ Most \in Nat
  BY PowFacts
<1>1. ASSUME Bad # {} PROVE FALSE
  <2>1. PICK m \in Bad : \A l \in Bad : m <= l
    <3>1. Bad \in SUBSET (0..k)
      OBVIOUS
    <3> HIDE DEF Bad
    <3> QED BY <1>0, <1>1, <3>1, FirstExists
  <2>2. m \in 0..k /\ ~ (Pow(m) >= 1)
    OBVIOUS
  <2>3. m # 0
    BY <2>2, PowFacts
  <2>4. m - 1 \in 0..k /\ m - 1 \notin Bad
    BY <2>1, <2>2, <2>3
  <2>5. Pow(m - 1) >= 1 /\ m - 1 \in 0..Most /\ (m - 1) + 1 = m
    BY <1>0, <2>4, <2>2
  <2>6. Pow(m) = 2 * Pow(m - 1) /\ Pow(m - 1) \in Nat
    BY <2>5, PowFacts
  <2> QED BY <2>2, <2>5, <2>6
<1>2. \A m \in 0..k : Pow(m) >= 1
  BY <1>1
<1>3. ASSUME k >= 1 PROVE Pow(k) >= 2
  <2>1. k - 1 \in 0..k /\ k - 1 \in 0..Most /\ (k - 1) + 1 = k
    BY <1>0, <1>3
  <2>2. Pow(k) = 2 * Pow(k - 1) /\ Pow(k - 1) \in Nat /\ Pow(k - 1) >= 1
    BY <1>2, <2>1, PowFacts
  <2> QED BY <2>2
<1>4. k \in 0..k
  BY <1>0
<1> QED BY <1>2, <1>3, <1>4

-----------------------------------------------------------------------------
(* The checksum.  Adding the carries to the lower half keeps the remainder *)
(* of a number modulo W - 1, where W is the size of a half; a number other *)
(* than 0 never becomes 0.  Sums does not depend on the order of its       *)
(* elements, so it is also the sum of a loop.                              *)

LEMMA SumsSplit ==
  ASSUME NEW S, IsFiniteSet(S), NEW f \in [S -> Int], NEW g, Sums(g, f, S),
         NEW V \in SUBSET S, NEW v \in V
  PROVE  g[V] = f[v] + g[V \ {v}]
<1> DEFINE Bad == {T \in SUBSET S : \E x \in T : g[T] # f[x] + g[T \ {x}]}
<1> SUFFICES ASSUME Bad # {} PROVE FALSE
  OBVIOUS
<1>1. PICK T \in Bad : \A U \in Bad : U \subseteq T => U = T
  <2>1. Bad \in SUBSET (SUBSET S)
    OBVIOUS
  <2> HIDE DEF Bad
  <2> QED BY <2>1, SmallestSubset
<1>2. PICK x \in T : g[T] # f[x] + g[T \ {x}]
  OBVIOUS
<1> DEFINE y == Any(T)
<1>3. y \in T /\ T \in SUBSET S
  BY AnyIsIn
<1>4. g[T] = f[y] + g[T \ {y}]
  BY <1>3 DEF Sums, Recurs
<1> HIDE DEF y
<1>5. x # y
  BY <1>2, <1>4
<1>6. T \ {y} \notin Bad /\ T \ {x} \notin Bad
  BY <1>1, <1>3
<1>7. T \ {y} \in SUBSET S /\ T \ {x} \in SUBSET S
  BY <1>3
<1>8. x \in T \ {y} /\ y \in T \ {x}
  BY <1>3, <1>5
<1>9. g[T \ {y}] = f[x] + g[(T \ {y}) \ {x}]
  BY <1>6, <1>7, <1>8
<1>10. g[T \ {x}] = f[y] + g[(T \ {x}) \ {y}]
  BY <1>6, <1>7, <1>8
<1>11. (T \ {x}) \ {y} = (T \ {y}) \ {x}
  OBVIOUS
<1>12. f[x] \in Int /\ f[y] \in Int /\ g[(T \ {y}) \ {x}] \in Int
  BY <1>3 DEF Sums
<1> DEFINE rest == g[(T \ {y}) \ {x}]
<1> HIDE DEF Bad
<1>13. g[T] = f[y] + (f[x] + rest)
  BY <1>4, <1>9
<1>14. g[T \ {x}] = f[y] + rest
  BY <1>10, <1>11
<1>15. f[y] + (f[x] + rest) = f[x] + (f[y] + rest)
  <2> HIDE DEF rest
  <2>1. f[x] \in Int /\ f[y] \in Int /\ rest \in Int
    BY <1>12 DEF rest
  <2> QED BY <2>1
<1> HIDE DEF rest
<1> QED BY <1>2, <1>13, <1>14, <1>15, Zenon

LEMMA SumsAtLeast ==
  ASSUME NEW S, IsFiniteSet(S), NEW f \in [S -> Nat], NEW g, Sums(g, f, S),
         NEW e \in S
  PROVE  g[S] \in Nat /\ f[e] <= g[S]
<1> DEFINE Bad == {T \in SUBSET S : g[T] \notin Nat}
<1>0. f \in [S -> Int]
  OBVIOUS
<1>1. ASSUME Bad # {} PROVE FALSE
  <2>1. PICK T \in Bad : \A U \in Bad : U \subseteq T => U = T
    <3>1. Bad \in SUBSET (SUBSET S)
      OBVIOUS
    <3> HIDE DEF Bad
    <3> QED BY <1>1, <3>1, SmallestSubset
  <2>2. T # {}
    <3>1. g[T] \notin Nat /\ g[{}] = 0
      BY DEF Sums, Recurs
    <3>2. 0 \in Nat
      OBVIOUS
    <3> QED BY <3>1, <3>2, Zenon
  <2>3. Any(T) \in T /\ Any(T) \in S
    BY <2>2, AnyIsIn
  <2>4. g[T] = f[Any(T)] + g[T \ {Any(T)}]
    BY <2>2 DEF Sums, Recurs
  <2>5. T \ {Any(T)} \notin Bad /\ T \ {Any(T)} \in SUBSET S
    BY <2>1, <2>3
  <2>6. g[T \ {Any(T)}] \in Nat /\ f[Any(T)] \in Nat
    BY <2>3, <2>5
  <2> QED BY <2>4, <2>6
<1>2. S \in SUBSET S /\ S \ {e} \in SUBSET S
  OBVIOUS
<1>3. g[S] \in Nat /\ g[S \ {e}] \in Nat /\ f[e] \in Nat
  BY <1>1, <1>2
<1>4. g[S] = f[e] + g[S \ {e}]
  BY <1>0, <1>2, SumsSplit
<1> QED BY <1>3, <1>4

LEMMA FoldIsSum ==
  ASSUME NEW D, IsFiniteSet(D),
         \A T \in SUBSET D : T # {} => Highest(T) \in T,
         NEW w \in [D -> Int], NEW g, Sums(g, w, D)
  PROVE  Exercise!FoldLeft(+, 0, w) = g[D]
<1> DEFINE Body(it, T) ==
             IF T = {} THEN 0
             ELSE LET x == CHOOSE x \in T : \A y \in T : x >= y IN
                  it[T \ {x}] + w[x]
           P(it) == it = [T \in SUBSET (DOMAIN w) |-> Body(it, T)]
           last == CHOOSE it : P(it)
<1>1. DOMAIN w = D
  OBVIOUS
<1>2. \A T \in SUBSET D : T # {} => Highest(T) \in T
  OBVIOUS
<1>3. \A it, T : Body(it, T) = IF T = {} THEN 0
                             ELSE it[T \ {Highest(T)}] + w[Highest(T)]
  BY DEF Highest
<1>4. ASSUME NEW T \in SUBSET D
      PROVE  g[T] = IF T = {} THEN 0 ELSE g[T \ {Highest(T)}] + w[Highest(T)]
  <2>1. CASE T = {}
    BY <2>1 DEF Sums, Recurs
  <2>2. CASE T # {}
    <3>1. Highest(T) \in T
      BY <1>2, <2>2
    <3>2. g[T] = w[Highest(T)] + g[T \ {Highest(T)}]
      BY <3>1, SumsSplit
    <3>3. w[Highest(T)] \in Int /\ g[T \ {Highest(T)}] \in Int
      BY <3>1 DEF Sums
    <3>4. w[Highest(T)] + g[T \ {Highest(T)}]
            = g[T \ {Highest(T)}] + w[Highest(T)]
      BY <3>3
    <3> QED BY <2>2, <3>2, <3>4, Zenon
  <2> QED BY <2>1, <2>2
<1>5. P(g)
  <2>1. g = [T \in SUBSET D |-> g[T]]
    BY DEF Sums
  <2>2. \A T \in SUBSET D : g[T] = Body(g, T)
    BY <1>3, <1>4, ZenonT(60)
  <2> HIDE DEF Body
  <2> QED BY <1>1, <2>1, <2>2
<1>6. P(last)
  <2> HIDE DEF P
  <2> QED BY <1>5
<1>7. \A T \in SUBSET D : last[T] = Body(last, T)
  <2> HIDE DEF Body, last
  <2> QED BY <1>1, <1>6
<1>8. last[D] = g[D]
  <2> HIDE DEF P, last, Body
  <2> DEFINE Bad == {T \in SUBSET D : last[T] # g[T]}
  <2>1. ASSUME Bad # {} PROVE FALSE
    <3>1. PICK T \in Bad : \A U \in Bad : U \subseteq T => U = T
      <4>1. Bad \in SUBSET (SUBSET D)
        OBVIOUS
      <4> HIDE DEF Bad
      <4> QED BY <2>1, <4>1, SmallestSubset
    <3>2. T \in SUBSET D /\ last[T] # g[T]
      OBVIOUS
    <3>3. T # {} /\ Highest(T) \in T
      BY <1>2, <1>3, <1>4, <1>7, <3>2
    <3>4. T \ {Highest(T)} \in SUBSET D /\ T \ {Highest(T)} \notin Bad
      BY <3>1, <3>3
    <3>5. last[T \ {Highest(T)}] = g[T \ {Highest(T)}]
      BY <3>4
    <3> HIDE DEF Bad
    <3>6. last[T] = last[T \ {Highest(T)}] + w[Highest(T)]
      BY <1>3, <1>7, <3>2, <3>3
    <3>7. g[T] = g[T \ {Highest(T)}] + w[Highest(T)]
      BY <1>4, <3>2, <3>3
    <3> QED BY <3>2, <3>5, <3>6, <3>7, Zenon
  <2>2. D \in SUBSET D
    OBVIOUS
  <2> QED BY <2>1, <2>2
<1>9. Exercise!FoldLeft(+, 0, w) = last[DOMAIN w]
  BY DEF Exercise!FoldLeft, Exercise!MapThenFoldSet, Exercise!Max
<1> HIDE DEF last, P, Body
<1> QED BY <1>1, <1>8, <1>9
(* What remains of a number when carries are added until none is left: its *)
(* remainder modulo W - 1, but W - 1 instead of 0 for a number above 0.    *)
W == 2^HALF
Carried(c, v) ==
  /\ v \in 0..(W - 1) /\ (v = 0 <=> c = 0)
  /\ \E k \in Nat : c = v + k * (W - 1)

LEMMA WIs == W \in Nat /\ W >= 2 /\ W - 1 \in Nat
<1>1. HALF \in 0..Most /\ HALF >= 1
  BY BytesAssumption DEF Most
<1>2. Pow(HALF) \in Nat /\ Pow(HALF) >= 2
  BY <1>1, PowFacts, PowPositive
<1> QED BY <1>2 DEF W, Pow

LEMMA OneMultiple ==
  ASSUME NEW M \in Nat, M >= 1, NEW k \in Int, k * M >= 0, k * M <= M
  PROVE  k * M = 0 \/ k * M = M
OBVIOUS

LEMMA Multiples ==
  ASSUME NEW M \in Nat, NEW k \in Int, NEW l \in Int
  PROVE  /\ k * M \in Int /\ l * M \in Int /\ (k - l) * M = k * M - l * M
         /\ (k + l) * M = k * M + l * M
OBVIOUS

LEMMA CarriedUnique ==
  ASSUME NEW c \in Nat, NEW v, NEW u, Carried(c, v), Carried(c, u)
  PROVE  v = u
<1> DEFINE M == W - 1
<1>1. M \in Nat /\ M >= 1
  BY WIs
<1>2. /\ v \in 0..M /\ u \in 0..M /\ (v = 0 <=> c = 0) /\ (u = 0 <=> c = 0)
      /\ \E k \in Nat : c = v + k * M
      /\ \E l \in Nat : c = u + l * M
  BY DEF Carried
<1> HIDE DEF M
<1>3. PICK k \in Nat, l \in Nat : c = v + k * M /\ c = u + l * M
  BY <1>2
<1>4. CASE u <= v
  <2>1. /\ k * M \in Int /\ l * M \in Int /\ (l - k) * M = l * M - k * M
        /\ l - k \in Int
    BY <1>1, Multiples
  <2>2. (l - k) * M = v - u
    BY <1>2, <1>1, <1>3, <2>1
  <2>3. v - u >= 0 /\ v - u <= M
    BY <1>1, <1>2, <1>4
  <2>4. v - u = 0 \/ v - u = M
    BY <1>1, <2>1, <2>2, <2>3, OneMultiple
  <2> QED BY <1>1, <1>2, <2>4
<1>5. CASE v <= u
  <2>1. /\ k * M \in Int /\ l * M \in Int /\ (k - l) * M = k * M - l * M
        /\ k - l \in Int
    BY <1>1, Multiples
  <2>2. (k - l) * M = u - v
    BY <1>2, <1>1, <1>3, <2>1
  <2>3. u - v >= 0 /\ u - v <= M
    BY <1>1, <1>2, <1>5
  <2>4. u - v = 0 \/ u - v = M
    BY <1>1, <2>1, <2>2, <2>3, OneMultiple
  <2> QED BY <1>1, <1>2, <2>4
<1> QED BY <1>1, <1>2, <1>4, <1>5

LEMMA CarriedSmall ==
  ASSUME NEW c \in Nat, c < W
  PROVE  Carried(c, c)
<1>1. c \in 0..(W - 1) /\ c = c + 0 * (W - 1)
  BY WIs
<1> QED BY <1>1 DEF Carried

LEMMA CarryOnce ==
  ASSUME NEW c \in Nat, c \div W # 0
  PROVE  LET d == (c % W) + (c \div W) IN
         /\ d \in 0..(c - 1)
         /\ \A v : Carried(d, v) => Carried(c, v)
<1> DEFINE q == c \div W
           r == c % W
           M == W - 1
<1>1. q \in Nat /\ r \in Nat /\ r < W /\ c = W * q + r /\ q >= 1
  BY WIs
<1>2. M \in Nat /\ M >= 1 /\ W = M + 1
  BY WIs
<1> HIDE DEF q, r, M
<1>3. /\ q * M \in Nat /\ q * M >= 1 /\ W * q = q * M + q
  BY <1>1, <1>2
<1>4. c = (r + q) + q * M
  BY <1>1, <1>3
<1>5. r + q \in 0..(c - 1) /\ r + q # 0 /\ c # 0
  BY <1>1, <1>3, <1>4
<1>6. ASSUME NEW v, Carried(r + q, v) PROVE Carried(c, v)
  <2>1. /\ v \in 0..M /\ v # 0
        /\ \E k \in Nat : r + q = v + k * M
    BY <1>5, <1>6 DEF Carried, M
  <2>2. PICK k \in Nat : r + q = v + k * M
    BY <2>1
  <2>3. k * M \in Int /\ (k + q) * M = k * M + q * M /\ k + q \in Nat
    BY <1>1, <1>2, Multiples
  <2>4. c = v + (k + q) * M
    BY <1>2, <1>3, <1>4, <2>1, <2>2, <2>3
  <2> QED BY <1>5, <2>1, <2>3, <2>4 DEF Carried, M
<1> QED BY <1>5, <1>6 DEF q, r

LEMMA CarriedExists ==
  ASSUME NEW c \in Nat
  PROVE  \E v : Carried(c, v)
<1> DEFINE Bad == {d \in 0..c : ~ \E v : Carried(d, v)}
<1>1. ASSUME Bad # {} PROVE FALSE
  <2>1. PICK d \in Bad : \A e \in Bad : d <= e
    <3>1. Bad \in SUBSET (0..c)
      OBVIOUS
    <3> HIDE DEF Bad
    <3> QED BY <1>1, <3>1, FirstExists
  <2>2. d \in 0..c /\ ~ \E v : Carried(d, v)
    OBVIOUS
  <2>3. d \in Nat
    BY <2>2
  <2>4. CASE d \div W = 0
    <3>1. d < W
      BY <2>3, <2>4, WIs
    <3> QED BY <2>2, <2>3, <3>1, CarriedSmall
  <2>5. CASE d \div W # 0
    <3> DEFINE e == (d % W) + (d \div W)
    <3>1. e \in 0..(d - 1) /\ \A v : Carried(e, v) => Carried(d, v)
      BY <2>3, <2>5, CarryOnce
    <3> HIDE DEF e
    <3>2. e \in 0..c /\ e \notin Bad
      BY <2>1, <2>2, <3>1
    <3> QED BY <2>2, <3>1, <3>2
  <2> QED BY <2>4, <2>5
<1> QED BY <1>1

LEMMA ChecksumIs ==
  ASSUME NEW D, IsFiniteSet(D),
         \A T \in SUBSET D : T # {} => Highest(T) \in T,
         NEW w \in [D -> Int], NEW g, Sums(g, w, D), g[D] \in Nat
  PROVE  \E v : Carried(g[D], v) /\ Exercise!checksum(w) = W - 1 - v
<1> DEFINE sum == Exercise!FoldLeft(+, 0, w)
           Body(it, c) ==
             IF c \div 2^HALF = 0 THEN c
             ELSE it[(c % 2^HALF) + (c \div 2^HALF)]
           P(it) == it = [c \in 0..sum |-> Body(it, c)]
           last == CHOOSE it : P(it)
           f == [c \in 0..sum |-> CHOOSE v : Carried(c, v)]
<1>1. sum = g[D] /\ sum \in Nat
  BY FoldIsSum
<1>2. Exercise!checksum(w) = W - 1 - last[sum]
  BY DEF Exercise!checksum, W
<1>3. \A it, c : Body(it, c) = IF c \div W = 0 THEN c
                            ELSE it[(c % W) + (c \div W)]
  BY DEF W
<1> HIDE DEF sum, Body
<1>4. P(f)
  <2>1. ASSUME NEW c \in 0..sum PROVE f[c] = Body(f, c)
    <3>1. c \in Nat /\ Carried(c, f[c])
      BY <1>1, CarriedExists
    <3>2. CASE c \div W = 0
      <4>1. c < W
        BY <3>1, <3>2, WIs
      <4> QED BY <1>3, <3>1, <3>2, <4>1, CarriedSmall, CarriedUnique
    <3>3. CASE c \div W # 0
      <4> DEFINE d == (c % W) + (c \div W)
      <4>1. d \in 0..(c - 1) /\ \A v : Carried(d, v) => Carried(c, v)
        BY <3>1, <3>3, CarryOnce
      <4>2. Body(f, c) = f[d]
        BY <1>3, <3>3
      <4> HIDE DEF d
      <4>3. d \in Nat /\ d \in 0..sum
        BY <1>1, <3>1, <4>1
      <4>4. Carried(d, f[d])
        BY <4>3, CarriedExists
      <4> HIDE DEF f
      <4> QED BY <3>1, <4>1, <4>2, <4>4, CarriedUnique
    <3> QED BY <3>2, <3>3
  <2>2. f = [c \in 0..sum |-> f[c]]
    OBVIOUS
  <2> HIDE DEF f
  <2> QED BY <2>1, <2>2
<1> HIDE DEF f
<1>5. P(last)
  <2> HIDE DEF P
  <2> QED BY <1>4
<1>6. \A c \in 0..sum : last[c] = Body(last, c)
  <2> HIDE DEF last
  <2> QED BY <1>5
<1> HIDE DEF last, P
<1>7. Carried(sum, last[sum])
  <2> DEFINE Bad == {c \in 0..sum : ~ Carried(c, last[c])}
  <2>1. ASSUME Bad # {} PROVE FALSE
    <3>1. PICK c \in Bad : \A d \in Bad : c <= d
      <4>1. Bad \in SUBSET (0..sum)
        OBVIOUS
      <4> HIDE DEF Bad
      <4> QED BY <1>1, <2>1, <4>1, FirstExists
    <3>2. c \in 0..sum /\ ~ Carried(c, last[c]) /\ c \in Nat
      BY <1>1
    <3>3. CASE c \div W = 0
      <4>1. c < W
        BY <3>2, <3>3, WIs
      <4>2. last[c] = c
        BY <1>3, <1>6, <3>2, <3>3
      <4> QED BY <3>2, <4>1, <4>2, CarriedSmall
    <3>4. CASE c \div W # 0
      <4> DEFINE d == (c % W) + (c \div W)
      <4>1. d \in 0..(c - 1) /\ \A v : Carried(d, v) => Carried(c, v)
        BY <3>2, <3>4, CarryOnce
      <4>2. last[c] = last[d]
        BY <1>3, <1>6, <3>2, <3>4
      <4> HIDE DEF d
      <4>3. d \in 0..sum /\ d \notin Bad
        BY <1>1, <3>1, <3>2, <4>1
      <4> QED BY <3>2, <4>1, <4>2, <4>3
    <3> QED BY <3>3, <3>4
  <2>2. sum \in 0..sum
    BY <1>1
  <2> QED BY <2>1, <2>2
<1> QED BY <1>1, <1>2, <1>7
(* The header: what is added to the sum when check is replaced makes up    *)
(* exactly what is missing to a multiple of W - 1, unless what was in      *)
(* check before counts.                                                    *)
LEMMA MissingPart ==
  ASSUME NEW total \in Nat, NEW old \in 0..(W - 1), old < total,
         NEW v, Carried(total, v),
         NEW u, Carried((total - old) + (W - 1 - v), u)
  PROVE  W - 1 - u = 0 <=> old \in {0, W - 1}
<1> DEFINE M == W - 1
           t == (total - old) + (M - v)
<1>1. M \in Nat /\ M >= 1 /\ old \in 0..M
  BY WIs
<1>2. v \in 0..M /\ v # 0 /\ \E k \in Nat : total = v + k * M
  BY DEF Carried
<1>3. t \in Nat /\ t # 0
  BY <1>1, <1>2
<1>4. u \in 0..M /\ u # 0 /\ \E l \in Nat : t = u + l * M
  BY <1>3 DEF Carried
<1> HIDE DEF M
<1>5. PICK k \in Nat, l \in Nat : total = v + k * M /\ t = u + l * M
  BY <1>2, <1>4
<1>6. /\ k * M \in Int /\ l * M \in Int /\ (k - l) * M = k * M - l * M
      /\ k - l \in Int
  BY <1>1, Multiples
<1>7. u + old = (k - l) * M + M
  BY <1>1, <1>2, <1>4, <1>5, <1>6
<1>8. ASSUME u = M PROVE old \in {0, M}
  <2>1. old = (k - l) * M
    BY <1>1, <1>6, <1>7, <1>8
  <2>2. (k - l) * M >= 0 /\ (k - l) * M <= M
    BY <1>1, <2>1
  <2> QED BY <1>1, <1>6, <2>1, <2>2, OneMultiple
<1>9. ASSUME old \in {0, M} PROVE u = M
  <2> DEFINE n == IF old = 0 THEN k - l + 1 ELSE k - l
  <2>1. n \in Int /\ n * M = u
    <3>1. CASE old = 0
      <4>1. (k - l + 1) * M = (k - l) * M + M
        BY <1>1, <1>6
      <4> QED BY <1>1, <1>4, <1>6, <1>7, <3>1, <4>1
    <3>2. CASE old # 0
      BY <1>1, <1>4, <1>6, <1>7, <1>9, <3>2
    <3> QED BY <3>1, <3>2
  <2> HIDE DEF n
  <2>2. n * M >= 0 /\ n * M <= M
    BY <1>1, <1>4, <2>1
  <2> QED BY <1>1, <1>4, <2>1, <2>2, OneMultiple
<1>10. M - u = 0 <=> u = M
  BY <1>1, <1>4
<1> QED BY <1>8, <1>9, <1>10 DEF M

LEMMA ChecksumFits ==
  ASSUME NEW D, IsFiniteSet(D),
         \A T \in SUBSET D : T # {} => Highest(T) \in T,
         NEW w \in [D -> Exercise!Shorts], NEW e \in D, NEW k \in D, k # e,
         w[k] # 0,
         NEW R, NEW out \in [D -> R], out[e] = Exercise!checksum(w),
         \A x \in D \ {e} : out[x] = w[x]
  PROVE  Exercise!checksum(out) = 0 <=> w[e] \in {0, W - 1}
<1> DEFINE zero == [w EXCEPT ![e] = 0]
           c == Exercise!checksum(w)
<1>1. Exercise!Shorts = 0..(W - 1)
  BY DEF Exercise!Shorts, W
<1>2. /\ w \in [D -> Nat] /\ w \in [D -> Int] /\ w[e] \in 0..(W - 1)
      /\ w[k] \in Nat
  BY <1>1, WIs
<1>3. /\ zero \in [D -> Nat] /\ zero \in [D -> Int]
      /\ zero[e] = 0 /\ zero[k] = w[k]
      /\ \A x \in D \ {e} : zero[x] = w[x]
  BY <1>2
<1> HIDE DEF zero, c
<1>4. PICK g : Sums(g, w, D)
  BY <1>2, SumsExist
<1>5. PICK h : Sums(h, zero, D)
  BY <1>3, SumsExist
<1>6. g[D] \in Nat /\ h[D] \in Nat /\ h[D] >= 1
  <2>1. g[D] \in Nat
    BY <1>2, <1>4, SumsAtLeast
  <2>2. h[D] \in Nat /\ zero[k] <= h[D]
    BY <1>3, <1>5, SumsAtLeast
  <2> QED BY <1>2, <1>3, <2>1, <2>2
<1>7. h[D] = g[D] - w[e]
  <2> DEFINE d == 0 - w[e]
  <2>1. d \in Int /\ zero[e] = w[e] + d
    BY <1>2, <1>3
  <2> HIDE DEF d
  <2>2. h[D] = g[D] + d
    BY <1>2, <1>3, <1>4, <1>5, <2>1, SumsChange
  <2> QED BY <1>2, <1>6, <2>2 DEF d
<1>8. PICK v : Carried(g[D], v) /\ c = W - 1 - v
  BY <1>2, <1>4, <1>6, ChecksumIs DEF c
<1>9. v \in 0..(W - 1) /\ c \in 0..(W - 1) /\ c \in Nat
  BY <1>8, WIs DEF Carried
<1>10. /\ out \in [D -> Nat] /\ out \in [D -> Int] /\ out[e] = c
       /\ \A x \in D \ {e} : out[x] = w[x]
  <2>1. out[e] = c /\ \A x \in D \ {e} : out[x] = w[x] /\ w[x] \in Nat
    BY <1>2 DEF c
  <2>2. \A x \in D : out[x] \in Nat
    BY <1>9, <2>1
  <2> QED BY <2>1, <2>2
<1>11. PICK m : Sums(m, out, D)
  BY <1>10, SumsExist
<1>12. m[D] = h[D] + c
  <2>1. out[e] = zero[e] + c
    BY <1>3, <1>9, <1>10
  <2>2. \A x \in D \ {e} : out[x] = zero[x]
    BY <1>3, <1>10
  <2> QED BY <1>3, <1>5, <1>9, <1>10, <1>11, <2>1, <2>2, SumsChange
<1>13. m[D] \in Nat
  BY <1>6, <1>9, <1>12
<1>14. PICK u : Carried(m[D], u) /\ Exercise!checksum(out) = W - 1 - u
  BY <1>10, <1>11, <1>13, ChecksumIs
<1>15. m[D] = (g[D] - w[e]) + (W - 1 - v) /\ w[e] < g[D]
  BY <1>2, <1>6, <1>7, <1>8, <1>12
<1> QED BY <1>2, <1>6, <1>8, <1>14, <1>15, MissingPart

-----------------------------------------------------------------------------
(* Division, and numbers of four digits to a base B.                       *)
LEMMA Divides ==
  ASSUME NEW m \in Nat, m >= 1, NEW q \in Nat, NEW r \in 0..(m - 1)
  PROVE  (m * q + r) \div m = q /\ (m * q + r) % m = r
<1> DEFINE n == m * q + r
           p == n \div m
           s == n % m
<1>1. n \in Nat /\ n = m * q + r
  OBVIOUS
<1>2. p \in Nat /\ s \in 0..(m - 1) /\ n = m * p + s
  <2> HIDE DEF n
  <2> QED BY <1>1
<1> HIDE DEF p, s, n
<1>3. m * q + r = m * p + s
  BY <1>1, <1>2
<1>4. CASE p < q
  <2>1. PICK d \in Nat : q = p + 1 + d
    <3>1. q - p - 1 \in Nat /\ q = p + 1 + (q - p - 1)
      BY <1>2, <1>4
    <3> QED BY <3>1
  <2>2. m * q = m * p + m + m * d /\ m * d \in Nat
    BY <1>2, <2>1
  <2> QED BY <1>2, <1>3, <2>2
<1>5. CASE q < p
  <2>1. PICK d \in Nat : p = q + 1 + d
    <3>1. p - q - 1 \in Nat /\ p = q + 1 + (p - q - 1)
      BY <1>2, <1>5
    <3> QED BY <3>1
  <2>2. m * p = m * q + m + m * d /\ m * d \in Nat
    BY <1>2, <2>1
  <2> QED BY <1>2, <1>3, <2>2
<1>6. CASE p = q
  BY <1>2, <1>3, <1>6 DEF p, s, n
<1> QED BY <1>2, <1>4, <1>5, <1>6

LEMMA DividesTwice ==
  ASSUME NEW n \in Nat, NEW k \in Nat, k >= 1, NEW l \in Nat, l >= 1
  PROVE  n \div (k * l) = (n \div k) \div l
<1> DEFINE q == n \div k
           r == n % k
           t == q \div l
           u == q % l
<1>1. q \in Nat /\ r \in 0..(k - 1) /\ n = k * q + r
  OBVIOUS
<1>2. t \in Nat /\ u \in 0..(l - 1) /\ q = l * t + u
  <2> HIDE DEF q
  <2> QED BY <1>1
<1> HIDE DEF q, r, t, u
<1>3. k * l \in Nat /\ k * l >= 1
  OBVIOUS
<1>4. k * u \in Nat /\ k * u <= k * (l - 1) /\ k * (l - 1) = k * l - k
  BY <1>2
<1>5. k * u + r \in 0..(k * l - 1)
  BY <1>1, <1>3, <1>4
<1>6. n = (k * l) * t + (k * u + r)
  BY <1>1, <1>2
<1>7. ((k * l) * t + (k * u + r)) \div (k * l) = t
  <2> DEFINE m == k * l
             s == k * u + r
  <2>1. m \in Nat /\ m >= 1 /\ s \in 0..(m - 1)
    BY <1>3, <1>5
  <2> HIDE DEF m, s
  <2>2. (m * t + s) \div m = t
    BY <1>2, <2>1, Divides
  <2> QED BY <2>2 DEF m, s
<1> QED BY <1>6, <1>7 DEF q, t

Composed(d, e, f, g, R) == d + R * (e + R * (f + R * g))

LEMMA Cancels ==
  ASSUME NEW R \in Nat, NEW k \in Nat, NEW l \in Nat, R * k < R * l
  PROVE  k < l
<1>1. ASSUME l <= k PROVE FALSE
  <2>1. PICK d \in Nat : k = l + d
    <3>1. k - l \in Nat /\ k = l + (k - l)
      BY <1>1
    <3> QED BY <3>1
  <2>2. R * k = R * l + R * d /\ R * d \in Nat /\ R * l \in Nat
    BY <2>1
  <2> QED BY <2>2
<1> QED BY <1>1

LEMMA DigitsOf ==
  ASSUME NEW R \in Nat, R >= 1, NEW n \in Nat
  PROVE  /\ n % R \in 0..(R - 1) /\ (n \div R) % R \in 0..(R - 1)
         /\ (n \div (R * R)) % R \in 0..(R - 1)
         /\ n < R * (R * (R * R)) =>
              /\ (n \div (R * (R * R))) % R \in 0..(R - 1)
              /\ n = Composed(n % R, (n \div R) % R, (n \div (R * R)) % R,
                              (n \div (R * (R * R))) % R, R)
<1> DEFINE q == n \div R
           r == q \div R
           s == r \div R
<1>1. q \in Nat /\ n = (n % R) + R * q /\ n % R \in 0..(R - 1)
  OBVIOUS
<1>2. r \in Nat /\ q = (q % R) + R * r /\ q % R \in 0..(R - 1)
  <2> HIDE DEF q
  <2> QED BY <1>1
<1>3. s \in Nat /\ r = (r % R) + R * s /\ r % R \in 0..(R - 1)
  <2> HIDE DEF r
  <2> QED BY <1>2
<1>4. n \div (R * R) = r
  BY DividesTwice
<1>5. R * R \in Nat /\ R * R >= 1
  OBVIOUS
<1>6. n \div (R * (R * R)) = s
  <2> DEFINE C == R * R
  <2>1. R * C = C * R /\ n \div (C * R) = (n \div C) \div R
    <3> HIDE DEF C
    <3>1. C \in Nat /\ C >= 1
      BY <1>5 DEF C
    <3> QED BY <3>1, DividesTwice
  <2> QED BY <1>4, <2>1
<1>7. ASSUME n < R * (R * (R * R))
      PROVE  s \in 0..(R - 1) /\ s % R = s
  <2> HIDE DEF q, r, s
  <2>1. R * q < R * (R * (R * R))
    <3> DEFINE C == R * (R * R)
    <3>1. C \in Nat /\ n < R * C
      BY <1>7
    <3> HIDE DEF C
    <3>2. R * q < R * C
      BY <1>1, <3>1
    <3> QED BY <3>2 DEF C
  <2>2. q < R * (R * R)
    <3> DEFINE C == R * (R * R)
    <3>1. C \in Nat /\ R * q < R * C
      BY <2>1
    <3> HIDE DEF C
    <3>2. q < C
      BY <1>1, <3>1, Cancels
    <3> QED BY <3>2 DEF C
  <2>3. r < R * R
    <3> DEFINE C == R * R
    <3>1. C \in Nat /\ R * r < R * C
      BY <1>2, <2>2
    <3> HIDE DEF C
    <3>2. r < C
      BY <1>2, <3>1, Cancels
    <3> QED BY <3>2 DEF C
  <2>4. R * s < R * R
    BY <1>3, <2>3
  <2>5. s < R
    BY <1>3, <2>4, Cancels
  <2>6. s = R * 0 + s /\ s \in 0..(R - 1) /\ 0 \in Nat
    BY <1>3, <2>5
  <2>7. (R * 0 + s) % R = s
    BY <2>6, Divides
  <2> QED BY <2>6, <2>7
<1>8. (n % R) + R * ((q % R) + R * ((r % R) + R * s)) = n
  BY <1>1, <1>2, <1>3
<1> HIDE DEF q, r, s
<1>9. ASSUME n < R * (R * (R * R))
      PROVE  n = Composed(n % R, q % R, r % R, s % R, R)
  BY <1>7, <1>8, <1>9 DEF Composed
<1>10. q = n \div R
  BY DEF q
<1> QED BY <1>1, <1>2, <1>3, <1>4, <1>6, <1>7, <1>9, <1>10, Zenon

LEMMA SquareCounts ==
  ASSUME NEW R \in Nat, R >= 1 PROVE R * R \in Nat /\ R * R >= 1
OBVIOUS

LEMMA ComposedOf ==
  ASSUME NEW R \in Nat, R >= 1, NEW d \in 0..(R - 1), NEW e \in 0..(R - 1),
         NEW f \in 0..(R - 1), NEW g \in 0..(R - 1)
  PROVE  LET n == Composed(d, e, f, g, R) IN
         /\ n \in Nat /\ n % R = d /\ (n \div R) % R = e
         /\ (n \div (R * R)) % R = f /\ (n \div (R * (R * R))) % R = g
<1> DEFINE s == g
           r == R * s + f
           q == R * r + e
           n == R * q + d
<1>1. r \in Nat /\ q \in Nat /\ n \in Nat /\ s \in Nat
  OBVIOUS
<1>2. s % R = g
  <2>1. g = R * 0 + g /\ 0 \in Nat
    OBVIOUS
  <2>2. (R * 0 + g) % R = g
    BY <2>1, Divides
  <2> QED BY <2>1, <2>2
<1>3. r \div R = s /\ r % R = f
  BY <1>1, Divides
<1>4. q \div R = r /\ q % R = e
  <2> HIDE DEF r
  <2> QED BY <1>1, Divides
<1>5. n \div R = q /\ n % R = d
  <2> HIDE DEF q
  <2> QED BY <1>1, Divides
<1>6. n = Composed(d, e, f, g, R)
  BY DEF Composed
<1> HIDE DEF n, q, r, s
<1>7. n \div (R * R) = r
  BY <1>1, <1>4, <1>5, DividesTwice
<1>8. n \div (R * (R * R)) = s
  <2> DEFINE C == R * R
  <2>1. R * C = C * R /\ n \div (C * R) = (n \div C) \div R
    <3>1. C \in Nat /\ C >= 1
      BY SquareCounts, Zenon
    <3> HIDE DEF C
    <3>2. n \div (C * R) = (n \div C) \div R
      BY <1>1, <3>1, DividesTwice, ZenonT(60)
    <3>3. R * C = C * R
      BY <3>1
    <3> QED BY <3>2, <3>3
  <2> QED BY <1>3, <1>7, <2>1
<1>9. /\ n \in Nat /\ n % R = d /\ (n \div R) % R = e
      /\ (n \div (R * R)) % R = f /\ (n \div (R * (R * R))) % R = g
  BY <1>1, <1>2, <1>3, <1>4, <1>5, <1>7, <1>8
<1> QED BY <1>6, <1>9

-----------------------------------------------------------------------------
(* The third byte: a number is four digits to this base.                   *)
Base == Pow(BYTE)

LEMMA BaseIs ==
  /\ Base \in Nat /\ Base >= 1
  /\ Pow(0 * BYTE) = 1 /\ Pow(1 * BYTE) = Base
  /\ Pow(2 * BYTE) = Base * Base /\ Pow(3 * BYTE) = Base * (Base * Base)
  /\ Pow(4 * BYTE) = Base * (Base * (Base * Base))
<1>1. /\ 0 * BYTE = 0 /\ 1 * BYTE = BYTE /\ 2 * BYTE = BYTE + BYTE
      /\ 3 * BYTE = BYTE + 2 * BYTE /\ 4 * BYTE = BYTE + 3 * BYTE
      /\ BYTE \in 0..Most /\ BYTE \in Nat /\ 2 * BYTE \in Nat
      /\ 3 * BYTE \in Nat
      /\ BYTE + BYTE <= Most /\ BYTE + 2 * BYTE <= Most
      /\ BYTE + 3 * BYTE <= Most
  BY BytesAssumption DEF Most
<1>2. Base \in Nat /\ Base >= 1
  BY <1>1, PowFacts, PowPositive DEF Base
<1>3. Pow(BYTE + BYTE) = Base * Base
  BY <1>1, PowAdds DEF Base
<1>4. Pow(BYTE + 2 * BYTE) = Base * Pow(2 * BYTE)
  BY <1>1, PowAdds DEF Base
<1>5. Pow(BYTE + 3 * BYTE) = Base * Pow(3 * BYTE)
  BY <1>1, PowAdds DEF Base
<1>6. Pow(0 * BYTE) = 1 /\ Pow(1 * BYTE) = Base
  BY <1>1, PowFacts DEF Base
<1> QED BY <1>1, <1>2, <1>3, <1>4, <1>5, <1>6, Zenon

NewByte(n, byte) ==
  Composed(n % Base, (n \div Base) % Base, byte,
           (n \div (Base * (Base * Base))) % Base, Base)

LEMMA ByBitsIs ==
  ASSUME NEW n \in Exercise!Ints, NEW byte \in Exercise!Bytes
  PROVE  Exercise!ByBits(n, byte) = NewByte(n, byte)
<1> DEFINE d == n % Base
           e == (n \div Base) % Base
           f == (n \div (Base * Base)) % Base
           g == (n \div (Base * (Base * Base))) % Base
           C == Base * Base
<1>1. n \in Nat /\ n < Base * (Base * (Base * Base)) /\ byte \in 0..(Base - 1)
  BY BaseIs DEF Exercise!Ints, Exercise!Bytes, Exercise!Bits, Pow, Base
<1>2. /\ d \in 0..(Base - 1) /\ e \in 0..(Base - 1) /\ f \in 0..(Base - 1)
      /\ g \in 0..(Base - 1) /\ n = Composed(d, e, f, g, Base)
  BY <1>1, BaseIs, DigitsOf
<1>3. Exercise!ByBits(n, byte) = n - f * C + byte * C
  BY BaseIs DEF Exercise!ByBits, Pow, Base
<1> HIDE DEF d, e, f, g
<1>4. C \in Nat /\ Base \in Nat
  BY BaseIs
<1>5. \A h \in Nat : Composed(d, e, h, g, Base)
                     = (d + Base * e) + h * C + (C * (Base * g))
  BY <1>2, <1>4 DEF Composed
<1>6. f * C \in Nat /\ byte * C \in Nat /\ C * (Base * g) \in Nat
  BY <1>1, <1>2, <1>4
<1>7. n - f * C + byte * C = Composed(d, e, byte, g, Base)
  <2> DEFINE u == d + Base * e
             v == C * (Base * g)
             fc == f * C
             bc == byte * C
  <2>1. u \in Nat /\ v \in Nat /\ fc \in Nat /\ bc \in Nat
    BY <1>2, <1>4, <1>6
  <2>2. n = u + fc + v /\ Composed(d, e, byte, g, Base) = u + bc + v
    BY <1>1, <1>2, <1>5
  <2> HIDE DEF u, v, fc, bc
  <2>3. n - fc + bc = Composed(d, e, byte, g, Base)
    BY <2>1, <2>2
  <2> QED BY <2>3 DEF fc, bc
<1> QED BY <1>3, <1>7 DEF NewByte, d, e, g

LEMMA ByPointerIs ==
  ASSUME NEW n \in Exercise!Ints, NEW byte \in Exercise!Bytes
  PROVE  Exercise!ByPointer(n, byte) = NewByte(n, byte)
<1> DEFINE memory == [k \in 0..3 |-> (n \div 2^(k * BYTE)) % 2^BYTE]
           bytes == [memory EXCEPT ![2] = byte]
           places == <<0, 1, 2, 3>>
           w(k) == bytes[k] * 2^(k * BYTE)
           Body(it, T) ==
             IF T = {} THEN 0
             ELSE LET x == CHOOSE x \in T : \A y \in T : x >= y IN
                  it[T \ {x}] + w(places[x])
           P(it) == it = [T \in SUBSET (DOMAIN places) |-> Body(it, T)]
           last == CHOOSE it : P(it)
<1>1. n \in Nat /\ n < Base * (Base * (Base * Base)) /\ byte \in 0..(Base - 1)
  BY BaseIs DEF Exercise!Ints, Exercise!Bytes, Exercise!Bits, Pow, Base
<1>2. /\ w(0) = (n % Base) * 1
      /\ w(1) = ((n \div Base) % Base) * Base
      /\ w(2) = byte * (Base * Base)
      /\ w(3) = ((n \div (Base * (Base * Base))) % Base)
                  * (Base * (Base * Base))
  <2>1. /\ bytes[0] = (n \div Pow(0 * BYTE)) % Base
        /\ bytes[1] = (n \div Pow(1 * BYTE)) % Base
        /\ bytes[2] = byte
        /\ bytes[3] = (n \div Pow(3 * BYTE)) % Base
    BY DEF Pow, Base
  <2>2. n \div 1 = n
    BY <1>1
  <2> HIDE DEF bytes
  <2>3. \A k : w(k) = bytes[k] * Pow(k * BYTE)
    BY DEF Pow
  <2> HIDE DEF w
  <2> QED BY <2>1, <2>2, <2>3, BaseIs
<1>3. \A k \in 0..3 : w(k) \in Int
  <2>1. /\ n % Base \in Int /\ (n \div Base) % Base \in Int
        /\ (n \div (Base * (Base * Base))) % Base \in Int
    BY <1>1, BaseIs, DigitsOf
  <2> HIDE DEF w
  <2>2. w(0) \in Int /\ w(1) \in Int /\ w(2) \in Int /\ w(3) \in Int
    BY <1>1, <1>2, <2>1, BaseIs
  <2> QED BY <2>2
<1>4. Exercise!ByPointer(n, byte) = last[DOMAIN places]
  BY DEF Exercise!ByPointer, Exercise!FoldLeft, Exercise!MapThenFoldSet,
    Exercise!Max
<1>5. DOMAIN places = 1..4 /\ \A x \in 1..4 : places[x] = x - 1
  OBVIOUS
<1> HIDE DEF w, places
<1>6. \A it, T : Body(it, T) = IF T = {} THEN 0
                            ELSE it[T \ {Highest(T)}] + w(places[Highest(T)])
  BY DEF Highest
<1> HIDE DEF Body
<1>7. \E it : P(it)
  <2> DEFINE D == 1..4
             step == [p \in Int \X D |-> p[1] + w(p[2] - 1)]
  <2>1. step \in [Int \X D -> Int]
    <3>1. \A p \in Int \X D : p[1] \in Int /\ p[2] - 1 \in 0..3
      OBVIOUS
    <3>2. \A p \in Int \X D : p[1] + w(p[2] - 1) \in Int
      BY <1>3, <3>1
    <3> QED BY <3>2
  <2>2. PICK f \in [SUBSET D -> Int] : FoldsBy(f, 4, 0, step)
    <3>1. 4 \in Nat /\ 0 \in Int
      OBVIOUS
    <3> HIDE DEF step
    <3> QED BY <2>1, <3>1, FoldExists
  <2>3. ASSUME NEW T \in SUBSET D PROVE f[T] = Body(f, T)
    <3>1. CASE T = {}
      <4>1. {} \in SUBSET (1..4)
        OBVIOUS
      <4> HIDE DEF step, D
      <4>2. f[{}] = 0
        BY <2>2, <4>1 DEF FoldsBy
      <4> QED BY <1>6, <3>1, <4>2
    <3>2. CASE T # {}
      <4>1. Highest(T) \in D
        BY <3>2, TopIsIn
      <4>2. f[T] = step[<<f[T \ {Highest(T)}], Highest(T)>>]
        BY <2>2, <3>2 DEF FoldsBy
      <4>3. f[T \ {Highest(T)}] \in Int
        OBVIOUS
      <4>4. step[<<f[T \ {Highest(T)}], Highest(T)>>]
              = f[T \ {Highest(T)}] + w(Highest(T) - 1)
        BY <4>1, <4>3
      <4>5. places[Highest(T)] = Highest(T) - 1
        BY <1>5, <4>1
      <4> HIDE DEF step, D
      <4> QED BY <1>6, <3>2, <4>2, <4>4, <4>5
    <3> QED BY <3>1, <3>2
  <2>4. f = [T \in SUBSET D |-> f[T]]
    OBVIOUS
  <2> HIDE DEF D
  <2>5. f = [T \in SUBSET D |-> Body(f, T)]
    BY <2>3, <2>4
  <2> QED BY <1>5, <2>5 DEF D
<1>8. P(last)
  <2> HIDE DEF P
  <2> QED BY <1>7
<1>9. \A T \in SUBSET (1..4) : last[T] = Body(last, T)
  <2> HIDE DEF last
  <2> QED BY <1>5, <1>8
<1> HIDE DEF last, P
<1>10. ASSUME NEW k \in 1..4
       PROVE  last[1..k] = last[1..(k - 1)] + w(k - 1)
  <2>1. Highest(1..k) = k /\ (1..k) \ {k} = 1..(k - 1) /\ 1..k # {}
    BY HighestOf
  <2>2. 1..k \in SUBSET (1..4) /\ places[k] = k - 1
    BY <1>5
  <2> QED BY <1>6, <1>9, <2>1, <2>2
<1>11. last[1..0] = 0
  <2>1. 1..0 = {} /\ 1..0 \in SUBSET (1..4)
    OBVIOUS
  <2> QED BY <1>6, <1>9, <2>1
<1>12. last[1..4] = ((w(0) + w(1)) + w(2)) + w(3)
  <2>1. /\ last[1..1] = last[1..0] + w(0) /\ last[1..2] = last[1..1] + w(1)
        /\ last[1..3] = last[1..2] + w(2) /\ last[1..4] = last[1..3] + w(3)
    <3>1. /\ last[1..1] = last[1..(1 - 1)] + w(1 - 1)
          /\ last[1..2] = last[1..(2 - 1)] + w(2 - 1)
          /\ last[1..3] = last[1..(3 - 1)] + w(3 - 1)
          /\ last[1..4] = last[1..(4 - 1)] + w(4 - 1)
      BY <1>10
    <3>2. 1 - 1 = 0 /\ 2 - 1 = 1 /\ 3 - 1 = 2 /\ 4 - 1 = 3
      OBVIOUS
    <3> QED BY <3>1, <3>2
  <2>2. w(0) \in Int /\ w(1) \in Int /\ w(2) \in Int /\ w(3) \in Int
    BY <1>3
  <2> QED BY <1>11, <2>1, <2>2
<1>13. ((w(0) + w(1)) + w(2)) + w(3) = NewByte(n, byte)
  <2> DEFINE d == n % Base
             e == (n \div Base) % Base
             g == (n \div (Base * (Base * Base))) % Base
  <2>1. d \in Nat /\ e \in Nat /\ g \in Nat /\ byte \in Nat /\ Base \in Nat
    BY <1>1, BaseIs, DigitsOf
  <2>2. /\ w(0) = d * 1 /\ w(1) = e * Base /\ w(2) = byte * (Base * Base)
        /\ w(3) = g * (Base * (Base * Base))
    BY <1>2
  <2>3. NewByte(n, byte) = d + Base * (e + Base * (byte + Base * g))
    BY DEF NewByte, Composed
  <2> HIDE DEF d, e, g
  <2> QED BY <2>1, <2>2, <2>3
<1> QED BY <1>4, <1>5, <1>12, <1>13

LEMMA ThirdByteIs ==
  ASSUME NEW n \in Exercise!Ints, NEW byte \in Exercise!Bytes
  PROVE  \A k \in 0..3 :
           (NewByte(n, byte) \div 2^(k * BYTE)) % 2^BYTE =
             IF k = 2 THEN byte ELSE (n \div 2^(k * BYTE)) % 2^BYTE
<1> DEFINE d == n % Base
           e == (n \div Base) % Base
           g == (n \div (Base * (Base * Base))) % Base
           m == Composed(d, e, byte, g, Base)
<1>1. n \in Nat /\ n < Base * (Base * (Base * Base)) /\ byte \in 0..(Base - 1)
  BY BaseIs DEF Exercise!Ints, Exercise!Bytes, Exercise!Bits, Pow, Base
<1>2. /\ d \in 0..(Base - 1) /\ e \in 0..(Base - 1) /\ g \in 0..(Base - 1)
  BY <1>1, BaseIs, DigitsOf
<1> HIDE DEF d, e, g
<1>3. /\ m \in Nat /\ m % Base = d /\ (m \div Base) % Base = e
      /\ (m \div (Base * Base)) % Base = byte
      /\ (m \div (Base * (Base * Base))) % Base = g
  <2>1. Base \in Nat /\ Base >= 1
    BY BaseIs
  <2> QED BY <1>1, <1>2, <2>1, ComposedOf
<1>4. m = NewByte(n, byte)
  BY DEF NewByte, d, e, g
<1> HIDE DEF m
<1>5. m \div 1 = m /\ n \div 1 = n
  BY <1>1, <1>3
<1>6. /\ (m \div Pow(0 * BYTE)) % Base = d /\ (n \div Pow(0 * BYTE)) % Base = d
      /\ (m \div Pow(1 * BYTE)) % Base = e /\ (n \div Pow(1 * BYTE)) % Base = e
      /\ (m \div Pow(2 * BYTE)) % Base = byte
      /\ (m \div Pow(3 * BYTE)) % Base = g /\ (n \div Pow(3 * BYTE)) % Base = g
  <2>1. /\ (n \div Pow(0 * BYTE)) % Base = d
        /\ (n \div Pow(1 * BYTE)) % Base = e
        /\ (n \div Pow(3 * BYTE)) % Base = g
    BY <1>5, BaseIs DEF d, e, g
  <2>2. /\ (m \div Pow(0 * BYTE)) % Base = d
        /\ (m \div Pow(1 * BYTE)) % Base = e
        /\ (m \div Pow(2 * BYTE)) % Base = byte
        /\ (m \div Pow(3 * BYTE)) % Base = g
    BY <1>3, <1>5, BaseIs
  <2> QED BY <2>1, <2>2
<1>7. \A k \in 0..3 : (m \div Pow(k * BYTE)) % Base =
                        IF k = 2 THEN byte ELSE (n \div Pow(k * BYTE)) % Base
  <2> SUFFICES ASSUME NEW k \in 0..3
               PROVE  (m \div Pow(k * BYTE)) % Base =
                        IF k = 2 THEN byte ELSE (n \div Pow(k * BYTE)) % Base
    OBVIOUS
  <2>1. k = 0 \/ k = 1 \/ k = 2 \/ k = 3
    OBVIOUS
  <2> QED BY <1>6, <2>1
<1> QED BY <1>4, <1>7 DEF Pow, Base

-----------------------------------------------------------------------------
(* The digits of a number, and its ones.                                   *)
LEMMA Division ==
  ASSUME NEW n \in Nat, NEW m \in Nat, m >= 1
  PROVE  /\ n \div m \in Nat /\ n % m \in 0..(m - 1)
         /\ n = m * (n \div m) + (n % m)
OBVIOUS

LEMMA AtLeastOnce ==
  ASSUME NEW m \in Nat, m >= 1, NEW k \in Nat
  PROVE  k <= m * k
<1>1. m - 1 \in Nat /\ (m - 1) * k \in Nat /\ m * k = k + (m - 1) * k
  OBVIOUS
<1> QED BY <1>1

(* What is left of a number without its lowest k digits.                   *)
Rest(n, k) == n \div 2^k
Bits == Exercise!Bits

LEMMA BitsIs == Bits \in Nat /\ Bits >= 1 /\ Bits = 4 * BYTE /\ Bits <= Most
BY BytesAssumption DEF Bits, Exercise!Bits, Most

LEMMA RestIs ==
  ASSUME NEW n \in Exercise!Ints
  PROVE  /\ n \in Nat /\ Rest(n, 0) = n /\ Rest(n, Bits) = 0
         /\ \A k \in 0..Bits :
              Rest(n, k) \in Nat /\ Rest(n, k) \in Exercise!Ints
         /\ \A k \in 0..(Bits - 1) :
              /\ Rest(n, k + 1) = Rest(n, k) \div 2
              /\ Rest(n, k) = 2 * Rest(n, k + 1) + (Rest(n, k) % 2)
              /\ Rest(n, k) % 2 \in {0, 1}
<1>1. n \in Nat /\ n < Pow(Bits) /\ Pow(Bits) \in Nat /\ Pow(Bits) >= 1
  BY BitsIs, PowFacts, PowPositive DEF Exercise!Ints, Bits, Pow
<1>2. Rest(n, 0) = n
  <2>1. Pow(0) = 1 /\ n \div 1 = n
    BY <1>1, PowFacts
  <2> QED BY <2>1 DEF Rest, Pow
<1>3. Rest(n, Bits) = 0
  <2> DEFINE m == Pow(Bits)
  <2>1. m \in Nat /\ m >= 1 /\ n \in 0..(m - 1) /\ m * 0 + n = n
    BY <1>1
  <2> HIDE DEF m
  <2>2. (m * 0 + n) \div m = 0
    BY <2>1, Divides
  <2> QED BY <2>1, <2>2 DEF Rest, Pow, m
<1>4. ASSUME NEW k \in 0..Bits
      PROVE  Rest(n, k) \in Nat /\ Rest(n, k) <= n
  <2> DEFINE m == Pow(k)
  <2>1. m \in Nat /\ m >= 1
    BY BitsIs, PowFacts, PowPositive
  <2>2. n \div m \in Nat /\ n \div m <= n
    <3> HIDE DEF m
    <3>1. n = m * (n \div m) + (n % m) /\ n \div m \in Nat /\ n % m \in Nat
      BY <1>1, <2>1, Division
    <3>2. n \div m <= m * (n \div m)
      BY <2>1, <3>1, AtLeastOnce
    <3>3. m * (n \div m) \in Nat
      BY <2>1, <3>1
    <3> QED BY <1>1, <3>1, <3>2, <3>3
  <2> QED BY <2>2 DEF Rest, Pow
<1>5. ASSUME NEW k \in 0..(Bits - 1)
      PROVE  /\ Rest(n, k + 1) = Rest(n, k) \div 2
             /\ Rest(n, k) = 2 * Rest(n, k + 1) + (Rest(n, k) % 2)
             /\ Rest(n, k) % 2 \in {0, 1}
  <2>1. k \in 0..Most /\ k \in 0..Bits
    BY BitsIs, PowFacts
  <2>2. Pow(k) \in Nat /\ Pow(k) >= 1 /\ Pow(k + 1) = Pow(k) * 2
    BY <2>1, PowFacts, PowPositive
  <2>3. n \div (Pow(k) * 2) = (n \div Pow(k)) \div 2
    BY <1>1, <2>2, DividesTwice
  <2>4. Rest(n, k + 1) = Rest(n, k) \div 2
    BY <2>2, <2>3 DEF Rest, Pow
  <2>5. Rest(n, k) \in Nat
    BY <1>4, <2>1
  <2>6. /\ Rest(n, k) % 2 \in 0..1
        /\ Rest(n, k) = 2 * (Rest(n, k) \div 2) + (Rest(n, k) % 2)
    BY <2>5, Division
  <2> QED BY <2>4, <2>6
<1>6. \A m \in Nat : m <= n => m \in Exercise!Ints
  BY <1>1 DEF Exercise!Ints, Bits, Pow
<1> QED BY <1>1, <1>2, <1>3, <1>4, <1>5, <1>6

(* One round of the loop of print_binary(), and where it starts.           *)
PrintBit(n, s, e) ==
  LET bit == Rest(n, e) % 2
      leading == s.leading_zero /\ bit = 0 IN
  [leading_zero |-> leading, out |-> IF leading THEN s.out
                                     ELSE Append(s.out, bit)]
NothingPrinted == [leading_zero |-> TRUE, out |-> <<>>]

LEMMA PrintUnrolls ==
  ASSUME NEW n \in Exercise!Ints
  PROVE  \E h : /\ h[0] = NothingPrinted
                /\ \A k \in 1..Bits : h[k] = PrintBit(n, h[k - 1], Bits - k)
                /\ Exercise!print_binary(n) =
                     IF h[Bits].leading_zero THEN <<0>> ELSE h[Bits].out
<1> DEFINE places == [k \in 1..Bits |-> Bits - k]
           Body(it, T) ==
             IF T = {} THEN NothingPrinted
             ELSE PrintBit(n, it[T \ {Highest(T)}], places[Highest(T)])
           P(it) == it = [T \in SUBSET (DOMAIN places) |-> Body(it, T)]
           last == CHOOSE it : P(it)
           D == 1..Bits
<1>1. Exercise!print_binary(n) =
        LET end == last[DOMAIN places]
        IN  IF end.leading_zero THEN <<0>> ELSE end.out
  BY DEF Exercise!print_binary, Exercise!FoldLeft, Exercise!MapThenFoldSet,
    Exercise!Max, Highest, PrintBit, NothingPrinted, Rest, Bits
<1>2. DOMAIN places = D /\ \A x \in D : places[x] = Bits - x
  OBVIOUS
<1> HIDE DEF places
<1>3. \E it : P(it)
  <2> DEFINE V == [leading_zero : BOOLEAN, out : Seq({0, 1})]
             step == [p \in V \X D |-> PrintBit(n, p[1], Bits - p[2])]
  <2>1. ASSUME NEW s \in V, NEW x \in D
        PROVE  PrintBit(n, s, Bits - x) \in V
    <3>1. Bits - x \in 0..(Bits - 1)
      BY BitsIs
    <3>2. Rest(n, Bits - x) % 2 \in {0, 1}
      BY <3>1, RestIs
    <3>3. s.out \in Seq({0, 1}) /\ s.leading_zero \in BOOLEAN
      OBVIOUS
    <3>4. Append(s.out, Rest(n, Bits - x) % 2) \in Seq({0, 1})
      BY <3>2, <3>3
    <3> QED BY <3>3, <3>4 DEF PrintBit
  <2>2. step \in [V \X D -> V]
    <3>1. \A p \in V \X D : p[1] \in V /\ p[2] \in D
      OBVIOUS
    <3> HIDE DEF V, D
    <3> QED BY <2>1, <3>1
  <2>3. NothingPrinted \in V
    BY DEF NothingPrinted
  <2>4. PICK f \in [SUBSET D -> V] : FoldsBy(f, Bits, NothingPrinted, step)
    <3> HIDE DEF V, step
    <3> QED BY <2>2, <2>3, BitsIs, FoldExists
  <2>5. ASSUME NEW T \in SUBSET D PROVE f[T] = Body(f, T)
    <3>1. f[T] = IF T = {} THEN NothingPrinted
                 ELSE step[<<f[T \ {Highest(T)}], Highest(T)>>]
      <4> HIDE DEF V, step
      <4> QED BY <2>4 DEF FoldsBy
    <3>2. CASE T # {}
      <4>1. Highest(T) \in D /\ places[Highest(T)] = Bits - Highest(T)
        BY <1>2, <3>2, BitsIs, TopIsIn
      <4>2. f[T \ {Highest(T)}] \in V
        OBVIOUS
      <4>3. step[<<f[T \ {Highest(T)}], Highest(T)>>] =
              PrintBit(n, f[T \ {Highest(T)}], Bits - Highest(T))
        <5> HIDE DEF V, D
        <5> QED BY <4>1, <4>2
      <4> HIDE DEF step, V, D
      <4> QED BY <3>1, <3>2, <4>1, <4>3
    <3> HIDE DEF step, V, D
    <3> QED BY <3>1, <3>2
  <2>6. f = [T \in SUBSET D |-> f[T]]
    OBVIOUS
  <2> HIDE DEF D, Body
  <2> QED BY <1>2, <2>5, <2>6
<1>4. P(last)
  <2> HIDE DEF P
  <2> QED BY <1>3
<1>5. \A T \in SUBSET D : last[T] = Body(last, T)
  <2> HIDE DEF last, D, Body
  <2> QED BY <1>2, <1>4
<1> HIDE DEF last, P
<1> DEFINE h == [k \in 0..Bits |-> last[1..k]]
<1>6. ASSUME NEW k \in 1..Bits
      PROVE  h[k] = PrintBit(n, h[k - 1], Bits - k)
  <2>1. Highest(1..k) = k /\ (1..k) \ {k} = 1..(k - 1) /\ 1..k # {}
    BY HighestOf
  <2>2. 1..k \in SUBSET D /\ places[k] = Bits - k
    BY <1>2, BitsIs
  <2>3. h[k] = last[1..k] /\ h[k - 1] = last[1..(k - 1)]
    BY BitsIs
  <2> HIDE DEF D, h
  <2> QED BY <1>5, <2>1, <2>2, <2>3
<1>7. h[0] = NothingPrinted
  <2>1. 1..0 = {} /\ 1..0 \in SUBSET D /\ h[0] = last[1..0]
    BY BitsIs
  <2> HIDE DEF D, h
  <2> QED BY <1>5, <2>1
<1>8. h[Bits] = last[DOMAIN places]
  BY <1>2, BitsIs
<1> HIDE DEF h
<1> QED BY <1>1, <1>6, <1>7, <1>8

(* The digits of a number, at least one of them.                           *)
DigitsAre(digits, n) ==
  /\ digits \in Seq({0, 1}) /\ Len(digits) \in 1..Bits
  /\ Rest(n, Len(digits)) = 0
  /\ \A j \in 1..Len(digits) : digits[j] = Rest(n, Len(digits) - j) % 2

(* What the loop has printed after k rounds: the digits of n without the   *)
(* ones the other rounds are for.                                          *)
PrintedTo(n, s, k) ==
  /\ s.leading_zero = (Rest(n, Bits - k) = 0)
  /\ s.leading_zero => s.out = <<>>
  /\ ~ s.leading_zero =>
       /\ s.out \in Seq({0, 1}) /\ Len(s.out) \in 1..k /\ s.out[1] = 1
       /\ Rest(n, Bits - k + Len(s.out)) = 0
       /\ \A j \in 1..Len(s.out) :
            s.out[j] = Rest(n, Bits - k + Len(s.out) - j) % 2

LEMMA PrintedNext ==
  ASSUME NEW n \in Exercise!Ints, NEW k \in 1..Bits, NEW s,
         PrintedTo(n, s, k - 1)
  PROVE  PrintedTo(n, PrintBit(n, s, Bits - k), k)
<1> DEFINE e == Bits - k
           bit == Rest(n, e) % 2
           leading == s.leading_zero /\ bit = 0
           t == PrintBit(n, s, e)
<1>1. /\ e \in 0..(Bits - 1) /\ Bits - (k - 1) = e + 1 /\ e \in Int
      /\ k \in Nat
  BY BitsIs
<1>2. /\ Rest(n, e) = 2 * Rest(n, e + 1) + bit /\ bit \in {0, 1}
      /\ Rest(n, e + 1) \in Nat
  <2>1. e + 1 \in 0..Bits
    BY <1>1, BitsIs
  <2> QED BY <1>1, <2>1, RestIs DEF bit
<1>3. /\ t.leading_zero = leading
      /\ t.out = IF leading THEN s.out ELSE Append(s.out, bit)
  BY DEF PrintBit
<1> HIDE DEF t, bit, e
<1>4. t.leading_zero = (Rest(n, e) = 0)
  <2>1. s.leading_zero = (Rest(n, e + 1) = 0)
    BY <1>1 DEF PrintedTo
  <2>2. Rest(n, e) = 0 <=> Rest(n, e + 1) = 0 /\ bit = 0
    <3> HIDE DEF Rest
    <3> QED BY <1>2
  <2>3. (Rest(n, e) = 0) = (Rest(n, e + 1) = 0 /\ bit = 0)
    BY <2>2
  <2> QED BY <1>3, <2>1, <2>3, Zenon
<1>5. CASE leading
  <2>1. t.leading_zero /\ t.out = <<>>
    BY <1>3, <1>5 DEF PrintedTo
  <2> QED BY <1>4, <2>1 DEF PrintedTo, t, e
<1>6. CASE ~ leading /\ s.leading_zero
  <2>1. s.out = <<>> /\ bit = 1 /\ Rest(n, e + 1) = 0
    BY <1>1, <1>2, <1>6 DEF PrintedTo
  <2>2. ~ t.leading_zero /\ t.out = <<1>>
    <3>1. ~ t.leading_zero /\ t.out = Append(s.out, bit)
      BY <1>3, <1>6, Zenon
    <3> QED BY <2>1, <3>1
  <2>3. t.out \in Seq({0, 1}) /\ Len(t.out) = 1 /\ t.out[1] = 1
    BY <2>2
  <2>4. e + 1 - 1 = e /\ 1 \in 1..k
    BY <1>1
  <2>5. \A j \in 1..1 : t.out[j] = Rest(n, e + 1 - j) % 2
    BY <2>1, <2>3, <2>4 DEF bit
  <2> QED BY <1>4, <2>1, <2>2, <2>3, <2>4, <2>5 DEF PrintedTo, t, e
<1>7. CASE ~ s.leading_zero
  <2> DEFINE l == Len(s.out)
  <2>1. /\ s.out \in Seq({0, 1}) /\ l \in 1..(k - 1) /\ s.out[1] = 1
        /\ Rest(n, e + 1 + l) = 0
        /\ \A j \in 1..l : s.out[j] = Rest(n, e + 1 + l - j) % 2
    BY <1>1, <1>7 DEF PrintedTo
  <2>2. ~ t.leading_zero /\ t.out = Append(s.out, bit)
    BY <1>3, <1>7
  <2>3. t.out \in Seq({0, 1}) /\ Len(t.out) = l + 1 /\ t.out[1] = 1
    BY <1>2, <2>1, <2>2
  <2>4. \A j \in 1..(l + 1) : t.out[j] = IF j = l + 1 THEN bit ELSE s.out[j]
    BY <1>2, <2>1, <2>2
  <2> HIDE DEF l
  <2>5. /\ l \in Nat /\ e + 1 + l = e + (l + 1) /\ e + (l + 1) - (l + 1) = e
        /\ l + 1 \in 1..k
    BY <1>1, <2>1
  <2>6. ASSUME NEW j \in 1..(l + 1)
        PROVE  t.out[j] = Rest(n, e + (l + 1) - j) % 2
    <3>1. CASE j = l + 1
      BY <2>4, <2>5, <3>1 DEF bit
    <3>2. CASE j # l + 1
      <4>1. j \in 1..l /\ e + 1 + l - j = e + (l + 1) - j
        BY <1>1, <2>5, <3>2
      <4>2. t.out[j] = s.out[j]
        BY <2>4, <3>2
      <4> QED BY <2>1, <4>1, <4>2
    <3> QED BY <3>1, <3>2
  <2> QED BY <1>4, <2>1, <2>2, <2>3, <2>5, <2>6 DEF PrintedTo, t, e
<1> QED BY <1>5, <1>6, <1>7

LEMMA PrintedAre ==
  ASSUME NEW n \in Exercise!Ints
  PROVE  LET digits == Exercise!print_binary(n) IN
         DigitsAre(digits, n) /\ (digits[1] = 1 \/ digits = <<0>>)
<1>1. PICK h : /\ h[0] = NothingPrinted
               /\ \A k \in 1..Bits : h[k] = PrintBit(n, h[k - 1], Bits - k)
               /\ Exercise!print_binary(n) =
                    IF h[Bits].leading_zero THEN <<0>> ELSE h[Bits].out
  BY PrintUnrolls
<1> DEFINE Bad == {k \in 0..Bits : ~ PrintedTo(n, h[k], k)}
<1>2. ASSUME Bad # {} PROVE FALSE
  <2>1. PICK k \in Bad : \A l \in Bad : k <= l
    <3>1. Bad \in SUBSET (0..Bits)
      OBVIOUS
    <3> HIDE DEF Bad
    <3> QED BY <1>2, <3>1, BitsIs, FirstExists
  <2>2. k \in 0..Bits /\ ~ PrintedTo(n, h[k], k)
    OBVIOUS
  <2>3. CASE k = 0
    <3>1. Rest(n, Bits - 0) = 0 /\ h[0].leading_zero = TRUE /\ h[0].out = <<>>
      BY <1>1, BitsIs, RestIs DEF NothingPrinted
    <3>2. PrintedTo(n, h[0], 0)
      BY <3>1 DEF PrintedTo
    <3> QED BY <2>2, <2>3, <3>2
  <2>4. CASE k # 0
    <3>1. k \in 1..Bits /\ k - 1 \in 0..Bits /\ k - 1 \notin Bad
      BY <2>1, <2>2, <2>4, BitsIs
    <3>2. PrintedTo(n, h[k - 1], k - 1)
      BY <3>1
    <3> QED BY <1>1, <2>2, <3>1, <3>2, PrintedNext
  <2> QED BY <2>3, <2>4
<1>3. PrintedTo(n, h[Bits], Bits)
  <2>1. Bits \in 0..Bits
    BY BitsIs
  <2> QED BY <1>2, <2>1
<1>4. Bits - Bits = 0 /\ Bits \in Nat
  BY BitsIs
<1>5. CASE h[Bits].leading_zero
  <2>1. Exercise!print_binary(n) = <<0>>
    BY <1>1, <1>5
  <2>2. Rest(n, 0) = 0
    <3>1. h[Bits].leading_zero = (Rest(n, Bits - Bits) = 0)
      BY <1>3 DEF PrintedTo
    <3> QED BY <1>4, <1>5, <3>1
  <2>3. Rest(n, 1) = 0 /\ Rest(n, 0) % 2 = 0
    <3>1. 0 \in 0..(Bits - 1) /\ 0 + 1 = 1
      BY BitsIs
    <3>2. Rest(n, 1) = Rest(n, 0) \div 2
      BY <3>1, RestIs
    <3> HIDE DEF Rest
    <3> QED BY <2>2, <3>2
  <2>4. 1 - 1 = 0 /\ 1 \in 1..Bits
    BY BitsIs
  <2>5. DigitsAre(<<0>>, n)
    <3>1. /\ <<0>> \in Seq({0, 1}) /\ Len(<<0>>) = 1
          /\ \A j \in 1..1 : j = 1 /\ <<0>>[j] = 0
      OBVIOUS
    <3> QED BY <2>3, <2>4, <3>1 DEF DigitsAre
  <2> QED BY <2>1, <2>5
<1>6. CASE ~ h[Bits].leading_zero
  <2> DEFINE out == h[Bits].out
  <2>1. Exercise!print_binary(n) = out
    BY <1>1, <1>6
  <2>2. /\ out \in Seq({0, 1}) /\ Len(out) \in 1..Bits /\ out[1] = 1
        /\ Rest(n, Bits - Bits + Len(out)) = 0
        /\ \A j \in 1..Len(out) :
             out[j] = Rest(n, Bits - Bits + Len(out) - j) % 2
    BY <1>3, <1>6 DEF PrintedTo
  <2> HIDE DEF out
  <2>3. Bits - Bits + Len(out) = Len(out)
    BY <1>4, <2>2
  <2>4. /\ Rest(n, Len(out)) = 0
        /\ \A j \in 1..Len(out) : out[j] = Rest(n, Len(out) - j) % 2
    <3>1. \A j \in 1..Len(out) : Bits - Bits + Len(out) - j = Len(out) - j
      BY <1>4, <2>2
    <3> QED BY <2>2, <2>3, <3>1
  <2>5. DigitsAre(out, n)
    BY <2>2, <2>4 DEF DigitsAre
  <2> QED BY <2>1, <2>2, <2>5
<1> QED BY <1>5, <1>6

(* Reading the digits from the left.                                       *)
LEMMA ValueUnrolls ==
  ASSUME NEW digits \in Seq({0, 1})
  PROVE  \E h : /\ h[0] = 0
                /\ \A k \in 1..Len(digits) : h[k] = 2 * h[k - 1] + digits[k]
                /\ Exercise!Value(digits) = h[Len(digits)]
<1> DEFINE Body(it, T) ==
             IF T = {} THEN 0
             ELSE 2 * it[T \ {Highest(T)}] + digits[Highest(T)]
           P(it) == it = [T \in SUBSET (DOMAIN digits) |-> Body(it, T)]
           last == CHOOSE it : P(it)
           l == Len(digits)
           D == 1..l
<1>1. Exercise!Value(digits) = last[DOMAIN digits]
  BY DEF Exercise!Value, Exercise!FoldLeft, Exercise!MapThenFoldSet,
    Exercise!Max, Highest
<1>2. DOMAIN digits = D /\ l \in Nat /\ \A x \in D : digits[x] \in Int
  OBVIOUS
<1> HIDE DEF l
<1>3. \E it : P(it)
  <2> DEFINE step == [p \in Int \X D |-> 2 * p[1] + digits[p[2]]]
  <2>1. step \in [Int \X D -> Int]
    <3>1. \A p \in Int \X D : p[1] \in Int /\ p[2] \in D
      OBVIOUS
    <3>2. \A p \in Int \X D : 2 * p[1] + digits[p[2]] \in Int
      BY <1>2, <3>1
    <3> QED BY <3>2
  <2>2. PICK f \in [SUBSET D -> Int] : FoldsBy(f, l, 0, step)
    <3>1. 0 \in Int
      OBVIOUS
    <3> HIDE DEF step
    <3> QED BY <1>2, <2>1, <3>1, FoldExists
  <2>3. ASSUME NEW T \in SUBSET D PROVE f[T] = Body(f, T)
    <3>1. f[T] = IF T = {} THEN 0
                 ELSE step[<<f[T \ {Highest(T)}], Highest(T)>>]
      <4> HIDE DEF step
      <4> QED BY <2>2 DEF FoldsBy
    <3>2. CASE T # {}
      <4>1. Highest(T) \in D
        BY <1>2, <3>2, TopIsIn
      <4>2. f[T \ {Highest(T)}] \in Int
        OBVIOUS
      <4>3. step[<<f[T \ {Highest(T)}], Highest(T)>>] =
              2 * f[T \ {Highest(T)}] + digits[Highest(T)]
        <5> HIDE DEF D
        <5> QED BY <4>1, <4>2
      <4> HIDE DEF step, D
      <4> QED BY <3>1, <3>2, <4>3
    <3> HIDE DEF step, D
    <3> QED BY <3>1, <3>2
  <2>4. f = [T \in SUBSET D |-> f[T]]
    OBVIOUS
  <2> HIDE DEF D, Body
  <2> QED BY <1>2, <2>3, <2>4
<1>4. P(last)
  <2> HIDE DEF P
  <2> QED BY <1>3
<1>5. \A T \in SUBSET D : last[T] = Body(last, T)
  <2> HIDE DEF last, D, Body
  <2> QED BY <1>2, <1>4
<1> HIDE DEF last, P
<1> DEFINE h == [k \in 0..l |-> last[1..k]]
<1>6. ASSUME NEW k \in 1..l
      PROVE  h[k] = 2 * h[k - 1] + digits[k]
  <2>1. Highest(1..k) = k /\ (1..k) \ {k} = 1..(k - 1) /\ 1..k # {}
    BY HighestOf
  <2>2. 1..k \in SUBSET D
    BY <1>2
  <2>3. h[k] = last[1..k] /\ h[k - 1] = last[1..(k - 1)]
    BY <1>2
  <2> HIDE DEF D, h
  <2> QED BY <1>5, <2>1, <2>2, <2>3
<1>7. h[0] = 0
  <2>1. 1..0 = {} /\ 1..0 \in SUBSET D /\ h[0] = last[1..0]
    BY <1>2
  <2> HIDE DEF D, h
  <2> QED BY <1>5, <2>1
<1>8. h[l] = last[DOMAIN digits]
  BY <1>2
<1> HIDE DEF h
<1> QED BY <1>1, <1>6, <1>7, <1>8 DEF l

LEMMA ValueIs ==
  ASSUME NEW n \in Exercise!Ints, NEW digits, DigitsAre(digits, n)
  PROVE  Exercise!Value(digits) = n
<1> DEFINE l == Len(digits)
<1>1. /\ digits \in Seq({0, 1}) /\ l \in 1..Bits /\ Rest(n, l) = 0
      /\ \A j \in 1..l : digits[j] = Rest(n, l - j) % 2
  BY DEF DigitsAre
<1>2. PICK h : /\ h[0] = 0
               /\ \A k \in 1..l : h[k] = 2 * h[k - 1] + digits[k]
               /\ Exercise!Value(digits) = h[l]
  BY <1>1, ValueUnrolls
<1> HIDE DEF l
<1> DEFINE Bad == {k \in 0..l : h[k] # Rest(n, l - k)}
<1>3. ASSUME Bad # {} PROVE FALSE
  <2>1. PICK k \in Bad : \A j \in Bad : k <= j
    <3>1. Bad \in SUBSET (0..l) /\ l \in Nat
      BY <1>1
    <3> HIDE DEF Bad
    <3> QED BY <1>3, <3>1, FirstExists
  <2>2. k \in 0..l /\ h[k] # Rest(n, l - k)
    OBVIOUS
  <2>3. k # 0
    <3>1. l - 0 = l
      BY <1>1
    <3> QED BY <1>1, <1>2, <2>2, <3>1
  <2>4. /\ k \in 1..l /\ k - 1 \in 0..l /\ k - 1 \notin Bad
        /\ l - k \in 0..(Bits - 1) /\ l - (k - 1) = (l - k) + 1
    BY <1>1, <2>1, <2>2, <2>3, BitsIs
  <2>5. h[k - 1] = Rest(n, (l - k) + 1)
    BY <2>4
  <2>6. Rest(n, l - k) = 2 * Rest(n, (l - k) + 1) + (Rest(n, l - k) % 2)
    BY <2>4, RestIs
  <2> QED BY <1>1, <1>2, <2>2, <2>4, <2>5, <2>6
<1>4. l \in 0..l /\ l - l = 0
  BY <1>1
<1>5. h[l] = Rest(n, 0)
  BY <1>3, <1>4
<1> QED BY <1>2, <1>5, RestIs

(* The loop of count_ones().                                               *)
LEMMA CountUnrolls ==
  \E g : /\ g[0] = 0
         /\ \A m \in Exercise!Ints \ {0} : g[m] = (m % 2) + g[m \div 2]
         /\ \A m \in Exercise!Ints : g[m] \in Nat
         /\ \A m \in Exercise!Ints : Exercise!count_ones(m) = g[m]
<1> DEFINE X == Exercise!Ints
           Body(c, m) == IF m = 0 THEN 0 ELSE (m % 2) + c[m \div 2]
           P(c) == c = [m \in Exercise!Ints |-> Body(c, m)]
           ones == CHOOSE c : P(c)
           top == Pow(Bits) - 1
<1>1. \A m \in X : Exercise!count_ones(m) = ones[m]
  BY DEF Exercise!count_ones
<1>2. top \in Nat /\ X = 0..top
  <2>1. Pow(Bits) \in Nat /\ Pow(Bits) >= 1
    BY BitsIs, PowFacts, PowPositive
  <2> QED BY <2>1 DEF Exercise!Ints, Pow, Bits
<1> HIDE DEF top
<1>3. PICK f \in [X -> Nat] :
           \A m \in X : f[m] = IF m = 0 THEN 0 ELSE (m % 2) + f[m \div 2]
  <2> DEFINE Z == {0}
             rank == [m \in X |-> m]
             prev == [m \in X |-> m \div 2]
             step == [p \in Nat \X X |-> (p[2] % 2) + p[1]]
  <2>1. rank \in [X -> 0..top]
    BY <1>2
  <2>2. \A m \in X \ Z : prev[m] \in X /\ rank[prev[m]] < rank[m]
    <3>1. \A m \in 0..top : m # 0 => m \div 2 \in 0..top /\ m \div 2 < m
      BY <1>2
    <3> QED BY <1>2, <3>1
  <2>3. step \in [Nat \X X -> Nat]
    <3>1. \A p \in Nat \X X : p[1] \in Nat /\ p[2] \in Nat
      BY <1>2
    <3>2. \A p \in Nat \X X : (p[2] % 2) + p[1] \in Nat
      BY <3>1
    <3> QED BY <3>2
  <2>4. PICK f \in [X -> Nat] : Unfolds(f, X, Z, prev, 0, step)
    <3>1. 0 \in Nat
      OBVIOUS
    <3> HIDE DEF X, Z, rank, prev, step
    <3> QED BY <1>2, <2>1, <2>2, <2>3, <3>1, RecursionExists
  <2>5. ASSUME NEW m \in X
        PROVE  f[m] = IF m = 0 THEN 0 ELSE (m % 2) + f[m \div 2]
    <3>1. f[m] = IF m \in Z THEN 0 ELSE step[<<f[prev[m]], m>>]
      BY <2>4 DEF Unfolds
    <3>2. CASE m # 0
      <4>1. prev[m] = m \div 2 /\ prev[m] \in X
        BY <2>2, <3>2
      <4>2. f[prev[m]] \in Nat
        BY <4>1
      <4>3. step[<<f[prev[m]], m>>] = (m % 2) + f[prev[m]]
        BY <4>2
      <4> HIDE DEF step, prev
      <4> QED BY <3>1, <3>2, <4>1, <4>3
    <3> QED BY <3>1, <3>2
  <2> QED BY <2>5
<1>4. P(ones)
  <2>1. P(f)
    <3>1. f = [m \in X |-> f[m]]
      OBVIOUS
    <3> HIDE DEF X
    <3> QED BY <1>3, <3>1 DEF X
  <2> HIDE DEF P
  <2> QED BY <2>1
<1>5. \A m \in X : ones[m] = Body(ones, m)
  <2> HIDE DEF ones
  <2> QED BY <1>4
<1> HIDE DEF ones, P
<1>6. 0 \in X
  BY <1>2
<1>7. ASSUME NEW m \in X PROVE ones[m] \in Nat
  <2> DEFINE Bad == {k \in 0..top : ones[k] \notin Nat}
  <2>1. ASSUME Bad # {} PROVE FALSE
    <3>1. PICK k \in Bad : \A j \in Bad : k <= j
      <4>1. Bad \in SUBSET (0..top)
        OBVIOUS
      <4> HIDE DEF Bad
      <4> QED BY <1>2, <2>1, <4>1, FirstExists
    <3>2. k \in 0..top /\ ones[k] \notin Nat /\ k \in X
      BY <1>2
    <3>3. ones[k] = IF k = 0 THEN 0 ELSE (k % 2) + ones[k \div 2]
      BY <1>5, <3>2
    <3>4. k # 0
      BY <3>2, <3>3
    <3>5. k \div 2 \in 0..top /\ k \div 2 < k /\ k % 2 \in Nat
      BY <1>2, <3>2, <3>4
    <3>6. k \div 2 \notin Bad
      BY <3>1, <3>2, <3>5
    <3>7. ones[k \div 2] \in Nat
      BY <3>5, <3>6
    <3> QED BY <3>2, <3>3, <3>4, <3>5, <3>7
  <2> QED BY <1>2, <2>1
<1> QED BY <1>1, <1>5, <1>6, <1>7

LEMMA CountIs ==
  ASSUME NEW n \in Exercise!Ints, NEW digits, DigitsAre(digits, n)
  PROVE  Exercise!count_ones(n)
           = Cardinality({k \in 1..Len(digits) : digits[k] = 1})
<1> DEFINE l == Len(digits)
           Ones(k) == {j \in 1..k : digits[j] = 1}
<1>1. /\ digits \in Seq({0, 1}) /\ l \in 1..Bits /\ Rest(n, l) = 0
      /\ \A j \in 1..l : digits[j] = Rest(n, l - j) % 2
  BY DEF DigitsAre
<1>2. PICK g : /\ g[0] = 0
               /\ \A m \in Exercise!Ints \ {0} : g[m] = (m % 2) + g[m \div 2]
               /\ \A m \in Exercise!Ints : g[m] \in Nat
               /\ \A m \in Exercise!Ints : Exercise!count_ones(m) = g[m]
  BY CountUnrolls
<1> HIDE DEF l
<1> DEFINE Bad == {k \in 0..l : g[Rest(n, l - k)] # Cardinality(Ones(k))}
<1>3. ASSUME Bad # {} PROVE FALSE
  <2>1. PICK k \in Bad : \A j \in Bad : k <= j
    <3>1. Bad \in SUBSET (0..l) /\ l \in Nat
      BY <1>1
    <3> HIDE DEF Bad
    <3> QED BY <1>3, <3>1, FirstExists
  <2>2. k \in 0..l /\ g[Rest(n, l - k)] # Cardinality(Ones(k))
    OBVIOUS
  <2>3. k # 0
    <3>1. l - 0 = l /\ Ones(0) = {}
      BY <1>1
    <3>2. Cardinality({}) = 0
      BY FS_EmptySet
    <3> HIDE DEF Ones
    <3> QED BY <1>1, <1>2, <2>2, <3>1, <3>2
  <2> DEFINE m == Rest(n, l - k)
             r == Rest(n, (l - k) + 1)
  <2>4. /\ k \in 1..l /\ k - 1 \in 0..l /\ k - 1 \notin Bad
        /\ l - k \in 0..(Bits - 1) /\ l - (k - 1) = (l - k) + 1
        /\ l - k \in 0..Bits
    BY <1>1, <2>1, <2>2, <2>3, BitsIs
  <2>5. g[r] = Cardinality(Ones(k - 1))
    BY <2>4
  <2>6. /\ r = m \div 2 /\ m % 2 = digits[k] /\ m \in Exercise!Ints
        /\ m = 2 * r + (m % 2) /\ m \in Nat /\ r \in Nat
        /\ m % 2 \in {0, 1} /\ r \in Exercise!Ints
    <3>1. (l - k) + 1 \in 0..Bits
      BY <2>4, BitsIs
    <3> QED BY <1>1, <2>4, <3>1, RestIs
  <2> HIDE DEF m, r, Bad
  <2>7. g[m] = (m % 2) + g[r]
    <3>1. CASE m = 0
      <4>1. r = 0 /\ m % 2 = 0
        BY <2>6, <3>1
      <4> QED BY <1>2, <3>1, <4>1
    <3>2. CASE m # 0
      BY <1>2, <2>6, <3>2
    <3> QED BY <3>1, <3>2
  <2>8. IsFiniteSet(Ones(k - 1)) /\ k \notin Ones(k - 1)
    <3>1. IsFiniteSet(1..(k - 1)) /\ k \notin 1..(k - 1)
      BY <2>4, FS_Interval
    <3>2. Ones(k - 1) \in SUBSET (1..(k - 1))
      OBVIOUS
    <3> HIDE DEF Ones
    <3> QED BY <3>1, <3>2, FS_Subset
  <2>9. Cardinality(Ones(k)) = Cardinality(Ones(k - 1)) + (m % 2)
    <3>0. Cardinality(Ones(k - 1)) \in Nat
      BY <2>8, FS_CardinalityType
    <3>1. CASE digits[k] = 1
      <4>1. Ones(k) = Ones(k - 1) \cup {k}
        BY <2>4, <3>1
      <4>2. Cardinality(Ones(k - 1) \cup {k}) = Cardinality(Ones(k - 1)) + 1
        <5> HIDE DEF Ones
        <5> QED BY <2>8, FS_AddElement
      <4> HIDE DEF Ones
      <4> QED BY <2>6, <3>1, <4>1, <4>2
    <3>2. CASE digits[k] # 1
      <4>1. Ones(k) = Ones(k - 1)
        BY <2>4, <3>2
      <4> HIDE DEF Ones
      <4> QED BY <2>6, <3>0, <3>2, <4>1
    <3> QED BY <3>1, <3>2
  <2>10. g[m] = Cardinality(Ones(k))
    <3>1. g[r] \in Nat
      BY <1>2, <2>6
    <3> HIDE DEF Ones
    <3> QED BY <2>5, <2>6, <2>7, <2>9, <3>1
  <2> QED BY <2>2, <2>10 DEF m
<1>4. l \in 0..l /\ l - l = 0
  BY <1>1
<1>5. g[Rest(n, 0)] = Cardinality(Ones(l))
  BY <1>3, <1>4
<1>6. g[n] = Cardinality(Ones(l)) /\ Exercise!count_ones(n) = g[n]
  BY <1>2, <1>5, RestIs
<1> QED BY <1>6 DEF l

(* What print_binary() and count_ones() leave of a number.                 *)
Counted ==
  \E n \in Exercise!Ints :
    /\ input = n
    /\ output = <<Exercise!print_binary(n), Exercise!count_ones(n)>>

LEMMA CountedRight == Counted => Exercise!DigitsRight
<1> SUFFICES ASSUME NEW n \in Exercise!Ints, input = n,
                    output = <<Exercise!print_binary(n),
                               Exercise!count_ones(n)>>
             PROVE  Exercise!DigitsRight
  BY DEF Counted
<1> DEFINE digits == Exercise!print_binary(n)
<1>1. output[1] = digits /\ output[2] = Exercise!count_ones(n)
  OBVIOUS
<1>2. DigitsAre(digits, n) /\ (digits[1] = 1 \/ digits = <<0>>)
  BY PrintedAre
<1> HIDE DEF digits
<1>3. Exercise!Value(digits) = n
  BY <1>2, ValueIs
<1>4. Exercise!count_ones(n)
        = Cardinality({k \in 1..Len(digits) : digits[k] = 1})
  BY <1>2, CountIs
<1> DEFINE Ones == {k \in 1..Len(output[1]) : output[1][k] = 1}
<1>0. Exercise!Cardinality(Ones) = Cardinality(Ones)
  BY DEF Exercise!Cardinality, Cardinality, Exercise!IsFiniteSet,
    IsFiniteSet
<1>5. /\ Exercise!Value(output[1]) = input
      /\ output[1][1] = 1 \/ output[1] = <<0>>
      /\ output[2] = Cardinality(Ones)
  BY <1>1, <1>2, <1>3, <1>4, Zenon
<1> QED BY <1>0, <1>5 DEF Exercise!DigitsRight

Replaced ==
  \E n \in Exercise!Ints, byte \in Exercise!Bytes :
    /\ input = <<n, byte>>
    /\ output = <<Exercise!ByBits(n, byte), Exercise!ByPointer(n, byte)>>

LEMMA ReplacedRight == Replaced => Exercise!ThirdByteRight
<1> SUFFICES ASSUME NEW n \in Exercise!Ints, NEW byte \in Exercise!Bytes,
                    input = <<n, byte>>,
                    output = <<Exercise!ByBits(n, byte),
                               Exercise!ByPointer(n, byte)>>
             PROVE  Exercise!ThirdByteRight
  BY DEF Replaced
<1>1. output[1] = NewByte(n, byte) /\ output[2] = NewByte(n, byte)
  BY ByBitsIs, ByPointerIs
<1>2. input[1] = n /\ input[2] = byte
  OBVIOUS
<1> QED BY <1>1, <1>2, ThirdByteIs DEF Exercise!ThirdByteRight

-----------------------------------------------------------------------------
(* The triangle: every pass fills a cell and its mirror image.             *)
Cells(N) == (0..(N - 1)) \X (0..(N - 1))
Place(N, k) == <<(k - 1) \div N, (k - 1) % N>>
Mirrored(N, c) == <<N - c[2] - 1, N - c[1] - 1>>
Pass(N, m, p) ==
  IF p[2] <= N - 1 - p[1] THEN [m EXCEPT ![p] = 0, ![Mirrored(N, p)] = 1]
  ELSE m

(* The matrix after the passes in T.                                       *)
FilledBy(N, T) ==
  [c \in Cells(N) |->
     IF c[1] + c[2] < N - 1
       THEN IF \E k \in T : Place(N, k) = c THEN 0 ELSE 2
       ELSE IF \E k \in T : Place(N, k) = Mirrored(N, c) THEN 1 ELSE 2]

LEMMA PlaceIsCell ==
  ASSUME NEW N \in Nat \ {0}, NEW k \in 1..(N * N)
  PROVE  Place(N, k) \in Cells(N)
<1>1. k - 1 \in Nat /\ N \in Nat /\ N >= 1 /\ k - 1 < N * N
  OBVIOUS
<1> DEFINE row == (k - 1) \div N
<1>2. row \in Nat /\ (k - 1) % N \in 0..(N - 1) /\ N * row <= k - 1
  <2> DEFINE m == k - 1
  <2>1. /\ m \div N \in Nat /\ m % N \in 0..(N - 1)
        /\ m = N * (m \div N) + (m % N)
    <3>1. m \in Nat
      BY <1>1
    <3> HIDE DEF m
    <3> QED BY <1>1, <3>1, Division
  <2>2. N * row \in Nat
    BY <2>1
  <2> HIDE DEF m, row
  <2>3. m = N * row + (m % N)
    BY <2>1 DEF row, m
  <2> QED BY <2>1, <2>2, <2>3 DEF row, m
<1> HIDE DEF row
<1>3. N * row < N * N
  BY <1>1, <1>2
<1>4. row < N
  BY <1>1, <1>2, <1>3, Cancels
<1>5. row \in 0..(N - 1)
  BY <1>2, <1>4
<1> QED BY <1>2, <1>5 DEF Place, Cells, row

LEMMA EveryPlace ==
  ASSUME NEW N \in Nat \ {0}, NEW c \in Cells(N)
  PROVE  \E k \in 1..(N * N) : Place(N, k) = c
<1>1. PICK row \in 0..(N - 1), j \in 0..(N - 1) : c = <<row, j>>
  BY DEF Cells
<1> DEFINE k == (N * row + j) + 1
<1>2. N \in Nat /\ N >= 1 /\ row \in Nat /\ j \in 0..(N - 1)
  OBVIOUS
<1>3. k - 1 = N * row + j /\ k \in Nat /\ N * row \in Nat
  BY <1>2
<1>4. (k - 1) \div N = row /\ (k - 1) % N = j
  <2> HIDE DEF k
  <2>1. (N * row + j) \div N = row /\ (N * row + j) % N = j
    BY <1>2, Divides
  <2> QED BY <1>3, <2>1
<1>5. k \in 1..(N * N)
  <2>1. PICK d \in Nat : N = row + 1 + d
    <3>1. N - 1 - row \in Nat /\ N = row + 1 + (N - 1 - row)
      BY <1>2
    <3> QED BY <3>1
  <2>2. N * N = N * row + N + N * d /\ N * d \in Nat
    BY <1>2, <2>1
  <2>3. N * N \in Nat
    OBVIOUS
  <2> QED BY <1>2, <1>3, <2>2, <2>3
<1> QED BY <1>1, <1>4, <1>5 DEF Place

LEMMA MirrorTwice ==
  ASSUME NEW N \in Nat \ {0}, NEW c \in Cells(N)
  PROVE  /\ c[1] \in 0..(N - 1) /\ c[2] \in 0..(N - 1) /\ c = <<c[1], c[2]>>
         /\ Mirrored(N, c) \in Cells(N) /\ Mirrored(N, Mirrored(N, c)) = c
         /\ Mirrored(N, c)[1] + Mirrored(N, c)[2] = 2 * N - 2 - (c[1] + c[2])
<1>1. c[1] \in 0..(N - 1) /\ c[2] \in 0..(N - 1) /\ c = <<c[1], c[2]>>
  BY DEF Cells
<1>2. PICK row \in 0..(N - 1), j \in 0..(N - 1) : c = <<row, j>>
  BY <1>1
<1>3. Mirrored(N, c) = <<N - j - 1, N - row - 1>>
  BY <1>2 DEF Mirrored
<1>4. N - j - 1 \in 0..(N - 1) /\ N - row - 1 \in 0..(N - 1)
  OBVIOUS
<1>5. N - (N - j - 1) - 1 = j /\ N - (N - row - 1) - 1 = row
  OBVIOUS
<1>6. Mirrored(N, Mirrored(N, c)) = <<row, j>>
  BY <1>3, <1>5 DEF Mirrored
<1>7. (N - j - 1) + (N - row - 1) = 2 * N - 2 - (row + j)
  OBVIOUS
<1> QED BY <1>1, <1>2, <1>3, <1>4, <1>6, <1>7 DEF Cells

LEMMA PassFills ==
  ASSUME NEW N \in Nat \ {0}, NEW T \in SUBSET (1..(N * N)), NEW x \in T
  PROVE  Pass(N, FilledBy(N, T \ {x}), Place(N, x)) = FilledBy(N, T)
<1> DEFINE p == Place(N, x)
           q == Mirrored(N, p)
           prev == FilledBy(N, T \ {x})
           next == Pass(N, prev, p)
           full == FilledBy(N, T)
           Taken(U, c) == \E k \in U : Place(N, k) = c
           V(U, c) == IF c[1] + c[2] < N - 1
                        THEN IF Taken(U, c) THEN 0 ELSE 2
                        ELSE IF Taken(U, Mirrored(N, c)) THEN 1 ELSE 2
<1>1. /\ p \in Cells(N) /\ q \in Cells(N) /\ Mirrored(N, q) = p
      /\ p[1] \in 0..(N - 1) /\ p[2] \in 0..(N - 1)
      /\ q[1] \in 0..(N - 1) /\ q[2] \in 0..(N - 1)
      /\ q[1] + q[2] = 2 * N - 2 - (p[1] + p[2])
  <2>1. p \in Cells(N)
    BY PlaceIsCell
  <2> HIDE DEF p
  <2>2. q \in Cells(N)
    BY <2>1, MirrorTwice
  <2> QED BY <2>1, <2>2, MirrorTwice
<1>2. \A c \in Cells(N) : Taken(T, c) <=> (Taken(T \ {x}, c) \/ c = p)
  OBVIOUS
<1>3. /\ \A c \in Cells(N) : prev[c] = V(T \ {x}, c) /\ full[c] = V(T, c)
      /\ DOMAIN prev = Cells(N) /\ DOMAIN full = Cells(N)
      /\ full = [c \in Cells(N) |-> full[c]]
  BY DEF FilledBy
<1>4. /\ DOMAIN next = Cells(N) /\ next = [c \in Cells(N) |-> next[c]]
      /\ p[2] <= N - 1 - p[1] =>
           \A c \in Cells(N) :
             next[c] = IF c = q THEN 1 ELSE IF c = p THEN 0 ELSE prev[c]
      /\ ~ (p[2] <= N - 1 - p[1]) => \A c \in Cells(N) : next[c] = prev[c]
  <2>1. prev = [c \in Cells(N) |-> prev[c]]
    BY DEF FilledBy
  <2> HIDE DEF p, prev
  <2> QED BY <1>1, <1>3, <2>1 DEF Pass
<1> HIDE DEF next, prev, full, p, q, Taken
<1>5. ASSUME NEW c \in Cells(N) PROVE next[c] = full[c]
  <2> DEFINE m == Mirrored(N, c)
  <2>1. /\ c[1] \in 0..(N - 1) /\ c[2] \in 0..(N - 1)
        /\ m \in Cells(N) /\ Mirrored(N, m) = c
        /\ m[1] + m[2] = 2 * N - 2 - (c[1] + c[2])
    BY MirrorTwice
  <2>2. m = p <=> c = q
    BY <1>1, <2>1 DEF q
  <2>3. /\ Taken(T, c) <=> (Taken(T \ {x}, c) \/ c = p)
        /\ Taken(T, m) <=> (Taken(T \ {x}, m) \/ m = p)
    BY <1>2, <2>1
  <2>4. /\ prev[c] = V(T \ {x}, c) /\ full[c] = V(T, c)
    BY <1>3
  <2> HIDE DEF m
  <2>5. CASE c[1] + c[2] < N - 1
    <3>1. full[c] = IF Taken(T, c) THEN 0 ELSE 2
      BY <2>4, <2>5
    <3>2. prev[c] = IF Taken(T \ {x}, c) THEN 0 ELSE 2
      BY <2>4, <2>5
    <3>3. c = p => p[2] <= N - 1 - p[1]
      BY <1>1, <2>1, <2>5
    <3>4. p[2] <= N - 1 - p[1] => c # q
      BY <1>1, <2>1, <2>5
    <3>5. next[c] = IF c = p THEN 0 ELSE prev[c]
      BY <1>4, <3>3, <3>4
    <3> QED BY <2>3, <3>1, <3>2, <3>5
  <2>6. CASE ~ (c[1] + c[2] < N - 1)
    <3>1. full[c] = IF Taken(T, m) THEN 1 ELSE 2
      BY <2>4, <2>6 DEF m
    <3>2. prev[c] = IF Taken(T \ {x}, m) THEN 1 ELSE 2
      BY <2>4, <2>6 DEF m
    <3>3. c = q => p[2] <= N - 1 - p[1]
      BY <1>1, <2>1, <2>6
    <3>4. p[2] <= N - 1 - p[1] /\ c = p => c = q
      <4> SUFFICES ASSUME p[2] <= N - 1 - p[1], c = p PROVE p = q
        OBVIOUS
      <4>1. p[1] + p[2] = N - 1
        BY <1>1, <2>6
      <4>2. N - p[2] - 1 = p[1] /\ N - p[1] - 1 = p[2]
        BY <1>1, <4>1
      <4>3. p = <<p[1], p[2]>>
        BY <1>1, MirrorTwice
      <4> QED BY <4>2, <4>3 DEF q, Mirrored
    <3>5. next[c] = IF c = q THEN 1 ELSE prev[c]
      BY <1>4, <3>3, <3>4
    <3> QED BY <2>2, <2>3, <3>1, <3>2, <3>5
  <2> QED BY <2>5, <2>6
<1>6. next = full
  BY <1>3, <1>4, <1>5
<1> QED BY <1>6 DEF next, full, p, prev

LEMMA TriangleIs ==
  ASSUME NEW N \in Nat \ {0}
  PROVE  Exercise!Triangle(N) = FilledBy(N, 1..(N * N))
<1> DEFINE n == N * N
           D == 1..n
           passes == [k \in 1..n |-> Place(N, k)]
           blank == [c \in Cells(N) |-> 2]
           Body(it, T) ==
             IF T = {} THEN blank
             ELSE Pass(N, it[T \ {Highest(T)}], passes[Highest(T)])
           P(it) == it = [T \in SUBSET (DOMAIN passes) |-> Body(it, T)]
           last == CHOOSE it : P(it)
           f == [T \in SUBSET D |-> FilledBy(N, T)]
<1>1. Exercise!Triangle(N) = last[DOMAIN passes]
  BY DEF Exercise!Triangle, Exercise!FoldLeft, Exercise!MapThenFoldSet,
    Exercise!Max, Highest, Pass, Mirrored, Place, Cells
<1>2. n \in Nat /\ DOMAIN passes = D /\ \A x \in D : passes[x] = Place(N, x)
  OBVIOUS
<1> HIDE DEF n
<1>3. ASSUME NEW T \in SUBSET D
      PROVE  T # {} => Highest(T) \in T /\ Highest(T) \in D
  BY <1>2, TopIsIn
<1>4. ASSUME NEW T \in SUBSET D, T # {}
      PROVE  Pass(N, FilledBy(N, T \ {Highest(T)}), passes[Highest(T)])
               = FilledBy(N, T)
  <2>1. Highest(T) \in T /\ Highest(T) \in D
    BY <1>3, <1>4
  <2>2. T \in SUBSET (1..(N * N))
    BY DEF n
  <2>3. passes[Highest(T)] = Place(N, Highest(T))
    BY <1>2, <2>1
  <2> QED BY <2>1, <2>2, <2>3, PassFills
<1>5. FilledBy(N, {}) = blank
  BY DEF FilledBy
<1> HIDE DEF passes, D, blank
<1>6. P(f)
  <2>1. ASSUME NEW T \in SUBSET D PROVE f[T] = Body(f, T)
    <3>1. CASE T = {}
      BY <1>5, <3>1
    <3>2. CASE T # {}
      <4>1. T \ {Highest(T)} \in SUBSET D
        OBVIOUS
      <4> QED BY <1>4, <3>2, <4>1
    <3> QED BY <3>1, <3>2
  <2>2. f = [T \in SUBSET D |-> f[T]]
    OBVIOUS
  <2> HIDE DEF f, Body
  <2> QED BY <1>2, <2>1, <2>2
<1>7. P(last)
  <2> HIDE DEF P, f
  <2> QED BY <1>6
<1>8. \A T \in SUBSET D : last[T] = Body(last, T)
  <2> HIDE DEF last, Body
  <2> QED BY <1>2, <1>7
<1> HIDE DEF last, P
<1>9. last[D] = FilledBy(N, D)
  <2> DEFINE Bad == {T \in SUBSET D : last[T] # FilledBy(N, T)}
  <2>1. ASSUME Bad # {} PROVE FALSE
    <3>1. PICK T \in Bad : \A U \in Bad : U \subseteq T => U = T
      <4>1. IsFiniteSet(D) /\ Bad \in SUBSET (SUBSET D)
        BY <1>2, FS_Interval DEF D
      <4> HIDE DEF Bad
      <4> QED BY <2>1, <4>1, SmallestSubset
    <3>2. T \in SUBSET D /\ last[T] # FilledBy(N, T)
      OBVIOUS
    <3>3. CASE T = {}
      BY <1>5, <1>8, <3>2, <3>3
    <3>4. CASE T # {}
      <4>1. Highest(T) \in T /\ T \ {Highest(T)} \in SUBSET D
        BY <1>3, <3>2, <3>4
      <4>2. T \ {Highest(T)} \notin Bad
        BY <3>1, <4>1
      <4>3. last[T \ {Highest(T)}] = FilledBy(N, T \ {Highest(T)})
        BY <4>1, <4>2
      <4> HIDE DEF Bad
      <4> QED BY <1>4, <1>8, <3>2, <3>4, <4>3
    <3> QED BY <3>3, <3>4
  <2>2. D \in SUBSET D
    OBVIOUS
  <2> QED BY <2>1, <2>2
<1> QED BY <1>1, <1>2, <1>9 DEF D, n

TriangleFilled ==
  \E N \in 1..SIZE : input = N /\ output = Exercise!Triangle(N)

TriangleRight ==
  \A c \in DOMAIN output :
    output[c] = IF c[1] + c[2] >= input - 1 THEN 1 ELSE 0

LEMMA TriangleFilledRight == TriangleFilled => TriangleRight
<1> SUFFICES ASSUME NEW N \in 1..SIZE, input = N,
                    output = Exercise!Triangle(N)
             PROVE  TriangleRight
  BY DEF TriangleFilled
<1>1. N \in Nat \ {0}
  BY TextsAssumption
<1>2. output = FilledBy(N, 1..(N * N))
  BY <1>1, TriangleIs
<1>3. DOMAIN output = Cells(N)
  BY <1>2 DEF FilledBy
<1>4. ASSUME NEW c \in Cells(N)
      PROVE  output[c] = IF c[1] + c[2] >= N - 1 THEN 1 ELSE 0
  <2>1. c[1] \in Nat /\ c[2] \in Nat /\ Mirrored(N, c) \in Cells(N)
    BY <1>1, MirrorTwice
  <2>2. /\ \E k \in 1..(N * N) : Place(N, k) = c
        /\ \E k \in 1..(N * N) : Place(N, k) = Mirrored(N, c)
    BY <1>1, <2>1, EveryPlace
  <2>3. output[c] = IF c[1] + c[2] < N - 1 THEN 0 ELSE 1
    BY <1>2, <2>2 DEF FilledBy
  <2> QED BY <1>1, <2>1, <2>3
<1> QED BY <1>3, <1>4 DEF TriangleRight

-----------------------------------------------------------------------------
(* The spiral: the four loops of a ring, its cells, and the path.          *)
Points == Int \X Int

LEMMA UpIs ==
  ASSUME NEW low \in Int, NEW n \in Nat, NEW top, top = low + n - 1
  PROVE  /\ Exercise!Up(low, top) \in Seq(Int) /\ Len(Exercise!Up(low, top)) = n
         /\ \A j \in 1..n : Exercise!Up(low, top)[j] = low + j - 1
<1>1. (IF low <= top THEN top - low + 1 ELSE 0) = n
  OBVIOUS
<1>2. Exercise!Up(low, top) = [j \in 1..n |-> low + j - 1]
  BY <1>1 DEF Exercise!Up
<1> QED BY <1>1, <1>2

LEMMA DownIs ==
  ASSUME NEW top \in Int, NEW n \in Nat, NEW low, low = top + n - 1
  PROVE  /\ Exercise!Down(low, top) \in Seq(Int)
         /\ Len(Exercise!Down(low, top)) = n
         /\ \A j \in 1..n : Exercise!Down(low, top)[j] = low - j + 1
<1> DEFINE asc == Exercise!Up(top, low)
<1>1. asc \in Seq(Int) /\ Len(asc) = n /\ \A j \in 1..n : asc[j] = top + j - 1
  BY UpIs
<1>2. Exercise!Down(low, top) = [j \in 1..n |-> asc[(n - j) + 1]]
  BY <1>1 DEF Exercise!Down, Exercise!Reverse
<1>3. ASSUME NEW j \in 1..n PROVE asc[(n - j) + 1] = low - j + 1
  <2>1. (n - j) + 1 \in 1..n /\ top + ((n - j) + 1) - 1 = low - j + 1
    OBVIOUS
  <2> HIDE DEF asc
  <2> QED BY <1>1, <2>1
<1> HIDE DEF asc
<1>4. Exercise!Down(low, top) = [j \in 1..n |-> low - j + 1]
  BY <1>2, <1>3
<1> QED BY <1>4

LEMMA NoneUp ==
  ASSUME NEW low \in Int, NEW top \in Int, top < low
  PROVE  Exercise!Up(low, top) = <<>> /\ Exercise!Down(top, low) = <<>>
<1>1. Exercise!Up(low, top) = <<>>
  BY DEF Exercise!Up
<1> QED BY <1>1 DEF Exercise!Down, Exercise!Reverse

LEMMA RowIs ==
  ASSUME NEW e \in Int, NEW s \in Seq(Int)
  PROVE  /\ Exercise!Row(e, s) \in Seq(Points)
         /\ Len(Exercise!Row(e, s)) = Len(s)
         /\ \A j \in 1..Len(s) : Exercise!Row(e, s)[j] = <<e, s[j]>>
         /\ Exercise!Column(s, e) \in Seq(Points)
         /\ Len(Exercise!Column(s, e)) = Len(s)
         /\ \A j \in 1..Len(s) : Exercise!Column(s, e)[j] = <<s[j], e>>
<1>1. DOMAIN s = 1..Len(s) /\ Len(s) \in Nat
      /\ \A j \in 1..Len(s) : s[j] \in Int
  OBVIOUS
<1>2. /\ Exercise!Row(e, s) = [j \in 1..Len(s) |-> <<e, s[j]>>]
      /\ Exercise!Column(s, e) = [j \in 1..Len(s) |-> <<s[j], e>>]
  BY <1>1 DEF Exercise!Row, Exercise!Column
<1> QED BY <1>1, <1>2 DEF Points

LEMMA JoinedIs ==
  ASSUME NEW S, NEW s \in Seq(S), NEW t \in Seq(S), NEW k \in Nat, Len(s) = k,
         NEW n \in Nat, Len(t) = n - k
  PROVE  /\ s \o t \in Seq(S) /\ Len(s \o t) = n
         /\ \A j \in 1..n : (s \o t)[j] = IF j <= k THEN s[j] ELSE t[j - k]
<1>1. k + (n - k) = n
  OBVIOUS
<1> QED BY <1>1, ConcatProperties

(* The cell a ring fills in step j, when its sides have m + 1 cells and it *)
(* starts at <<k, k>>.                                                     *)
RingCell(k, m, j) ==
  IF j <= m + 1 THEN <<k, k + j - 1>>
  ELSE IF j <= 2 * m + 1 THEN <<k + j - m - 1, k + m>>
  ELSE IF j <= 3 * m + 1 THEN <<k + m, k + m - (j - 2 * m - 1)>>
  ELSE <<k + m - (j - 3 * m - 1), k>>
RingLength(m) == IF m = 0 THEN 1 ELSE 4 * m

LEMMA RingIs ==
  ASSUME NEW N \in Nat, NEW k \in Nat, NEW m \in Nat, m = N - 1 - 2 * k
  PROVE  /\ Exercise!Ring(N, k) \in Seq(Points)
         /\ Len(Exercise!Ring(N, k)) = RingLength(m)
         /\ \A j \in 1..RingLength(m) :
              Exercise!Ring(N, k)[j] = RingCell(k, m, j)
<1> DEFINE far == N - 1 - k
           r1 == Exercise!Row(k, Exercise!Up(k, far))
           r2 == Exercise!Column(Exercise!Up(k + 1, far), far)
           r3 == Exercise!Row(far, Exercise!Down(far - 1, k))
           r4 == Exercise!Column(Exercise!Down(far - 1, k + 1), k)
           l4 == IF m = 0 THEN 0 ELSE m - 1
<1>1. far = k + m /\ far \in Int
  OBVIOUS
<1>2. Exercise!Ring(N, k) = ((r1 \o r2) \o r3) \o r4
  BY DEF Exercise!Ring
<1> HIDE DEF far
<1>3. /\ r1 \in Seq(Points) /\ Len(r1) = m + 1
      /\ \A j \in 1..(m + 1) : r1[j] = <<k, k + j - 1>>
  <2> DEFINE s == Exercise!Up(k, far)
             l == m + 1
  <2>1. far = k + l - 1 /\ l \in Nat /\ k \in Int
    BY <1>1
  <2> HIDE DEF l
  <2>2. s \in Seq(Int) /\ Len(s) = l /\ \A j \in 1..l : s[j] = k + j - 1
    BY <2>1, UpIs
  <2> HIDE DEF s
  <2>3. /\ Exercise!Row(k, s) \in Seq(Points)
        /\ Len(Exercise!Row(k, s)) = Len(s)
        /\ \A j \in 1..Len(s) : Exercise!Row(k, s)[j] = <<k, s[j]>>
    BY <2>2, RowIs
  <2> QED BY <2>2, <2>3 DEF s, l
<1>4. /\ r2 \in Seq(Points) /\ Len(r2) = m
      /\ \A j \in 1..m : r2[j] = <<k + j, far>>
  <2> DEFINE o == k + 1
             s == Exercise!Up(o, far)
  <2>1. far = o + m - 1 /\ o \in Int
    BY <1>1
  <2> HIDE DEF o
  <2>2. /\ s \in Seq(Int) /\ Len(s) = m
        /\ \A j \in 1..m : s[j] = o + j - 1
    <3> HIDE DEF r1, r2, r3, r4, l4
    <3>1. m \in Nat
      OBVIOUS
    <3> QED BY ONLY <2>1, <3>1, UpIs
  <2> HIDE DEF s
  <2>3. \A j \in 1..m : s[j] = k + j
    BY <2>2 DEF o
  <2>4. /\ Exercise!Column(s, far) \in Seq(Points)
        /\ Len(Exercise!Column(s, far)) = Len(s)
        /\ \A j \in 1..Len(s) : Exercise!Column(s, far)[j] = <<s[j], far>>
    BY <1>1, <2>2, RowIs
  <2> QED BY <2>2, <2>3, <2>4 DEF s, o
<1>5. /\ r3 \in Seq(Points) /\ Len(r3) = m
      /\ \A j \in 1..m : r3[j] = <<far, far - j>>
  <2> DEFINE s == Exercise!Down(far - 1, k)
  <2>1. k \in Int /\ far - 1 = k + m - 1
    BY <1>1
  <2>2. /\ s \in Seq(Int) /\ Len(s) = m
        /\ \A j \in 1..m : s[j] = (far - 1) - j + 1
    BY <2>1, DownIs
  <2>3. \A j \in 1..m : s[j] = far - j
    BY <1>1, <2>2
  <2> HIDE DEF s
  <2>4. /\ Exercise!Row(far, s) \in Seq(Points)
        /\ Len(Exercise!Row(far, s)) = Len(s)
        /\ \A j \in 1..Len(s) : Exercise!Row(far, s)[j] = <<far, s[j]>>
    BY <1>1, <2>2, RowIs
  <2> QED BY <2>2, <2>3, <2>4 DEF s
<1>6. /\ r4 \in Seq(Points) /\ Len(r4) = l4
      /\ \A j \in 1..l4 : r4[j] = <<far - j, k>>
  <2> DEFINE s == Exercise!Down(far - 1, k + 1)
  <2>1. far - 1 \in Int /\ k + 1 \in Int
    BY <1>1
  <2>2. /\ s \in Seq(Int) /\ Len(s) = l4
        /\ \A j \in 1..l4 : s[j] = far - j
    <3>1. CASE m = 0
      <4>1. s = <<>>
        BY <1>1, <2>1, <3>1, NoneUp
      <4> HIDE DEF s
      <4> QED BY <3>1, <4>1
    <3>2. CASE m # 0
      <4>1. far - 1 = (k + 1) + l4 - 1 /\ l4 \in Nat
        BY <1>1, <3>2
      <4> HIDE DEF l4
      <4> DEFINE o == k + 1
                 top == far - 1
      <4>2. top = o + l4 - 1 /\ o \in Int /\ s = Exercise!Down(top, o)
        BY <2>1, <4>1
      <4> HIDE DEF s, o, top
      <4>3. /\ s \in Seq(Int) /\ Len(s) = l4
            /\ \A j \in 1..l4 : s[j] = top - j + 1
        BY <4>1, <4>2, DownIs, ZenonT(60)
      <4>4. \A j \in 1..l4 : s[j] = far - j
        BY <1>1, <4>1, <4>3 DEF top
      <4> QED BY <4>3, <4>4
    <3> QED BY <3>1, <3>2
  <2> HIDE DEF s, l4
  <2>3. /\ Exercise!Column(s, k) \in Seq(Points)
        /\ Len(Exercise!Column(s, k)) = Len(s)
        /\ \A j \in 1..Len(s) : Exercise!Column(s, k)[j] = <<s[j], k>>
    BY <2>2, RowIs
  <2> QED BY <2>2, <2>3 DEF s
<1> HIDE DEF r1, r2, r3, r4
<1> DEFINE u == r1 \o r2
           v == u \o r3
           w == v \o r4
           n1 == m + 1
           n2 == 2 * m + 1
           n3 == 3 * m + 1
           n4 == RingLength(m)
<1>7. /\ n1 \in Nat /\ n2 \in Nat /\ n3 \in Nat /\ n4 \in Nat
      /\ m = n2 - n1 /\ m = n3 - n2 /\ l4 = n4 - n3
  BY DEF RingLength
<1> HIDE DEF n1, n2, n3, n4, l4
<1>8. /\ u \in Seq(Points) /\ Len(u) = n2
      /\ \A j \in 1..n2 : u[j] = IF j <= n1 THEN r1[j] ELSE r2[j - n1]
  <2>1. Len(r1) = n1 /\ Len(r2) = n2 - n1
    BY <1>3, <1>4, <1>7 DEF n1
  <2>2. r1 \in Seq(Points) /\ r2 \in Seq(Points)
    BY <1>3, <1>4
  <2> QED BY <1>7, <2>1, <2>2, JoinedIs
<1> HIDE DEF u
<1>9. /\ v \in Seq(Points) /\ Len(v) = n3
      /\ \A j \in 1..n3 : v[j] = IF j <= n2 THEN u[j] ELSE r3[j - n2]
  BY <1>5, <1>7, <1>8, JoinedIs
<1> HIDE DEF v
<1>10. /\ w \in Seq(Points) /\ Len(w) = n4
       /\ \A j \in 1..n4 : w[j] = IF j <= n3 THEN v[j] ELSE r4[j - n3]
  BY <1>6, <1>7, <1>9, JoinedIs
<1> HIDE DEF w
<1>11. ASSUME NEW j \in 1..n4 PROVE w[j] = RingCell(k, m, j)
  <2>0. /\ j \in Nat /\ j >= 1 /\ j <= n4 /\ n1 <= n2 /\ n2 <= n3
        /\ n1 = m + 1 /\ n2 = 2 * m + 1 /\ n3 = 3 * m + 1
    BY <1>7 DEF n1, n2, n3
  <2>1. CASE j <= n1
    <3>1. w[j] = r1[j] /\ r1[j] = <<k, k + j - 1>>
      <4>1. w[j] = v[j] /\ v[j] = u[j] /\ u[j] = r1[j]
        BY <1>7, <1>8, <1>9, <1>10, <2>0, <2>1
      <4>2. j \in 1..(m + 1)
        BY <2>0, <2>1
      <4>3. r1[j] = <<k, k + j - 1>>
        BY <1>3, <4>2
      <4> QED BY <4>1, <4>3
    <3> QED BY <2>0, <2>1, <3>1 DEF RingCell
  <2>2. CASE ~ (j <= n1) /\ j <= n2
    <3>1. j - n1 \in 1..m /\ k + (j - n1) = k + j - m - 1
      BY <2>0, <2>2
    <3>2. w[j] = r2[j - n1]
      <4>1. j \in 1..n4 /\ j \in 1..n3 /\ j \in 1..n2 /\ j <= n3
        BY <1>7, <2>0, <2>2
      <4>2. w[j] = v[j] /\ v[j] = u[j]
        BY <1>9, <1>10, <2>2, <4>1
      <4>3. u[j] = r2[j - n1]
        BY <1>8, <2>2, <4>1
      <4> QED BY <4>2, <4>3
    <3>3. r2[j - n1] = <<k + (j - n1), far>>
      BY <1>4, <3>1
    <3> QED BY <1>1, <2>0, <2>2, <3>1, <3>2, <3>3 DEF RingCell
  <2>3. CASE ~ (j <= n2) /\ j <= n3
    <3>1. j - n2 \in 1..m /\ j - n2 = j - 2 * m - 1
      BY <2>0, <2>3
    <3>2. w[j] = r3[j - n2]
      BY <1>7, <1>9, <1>10, <2>0, <2>3
    <3>3. r3[j - n2] = <<far, far - (j - n2)>>
      BY <1>5, <3>1
    <3> QED BY <1>1, <2>0, <2>3, <3>1, <3>2, <3>3 DEF RingCell
  <2>4. CASE ~ (j <= n3)
    <3>1. j - n3 \in 1..l4 /\ j - n3 = j - 3 * m - 1
      BY <1>7, <2>0, <2>4
    <3>2. w[j] = r4[j - n3]
      BY <1>7, <1>10, <2>0, <2>4
    <3>3. r4[j - n3] = <<far - (j - n3), k>>
      BY <1>6, <3>1
    <3> QED BY <1>1, <2>0, <2>4, <3>1, <3>2, <3>3 DEF RingCell
  <2> QED BY <2>1, <2>2, <2>3, <2>4
<1>12. Exercise!Ring(N, k) = w
  BY <1>2 DEF u, v, w
<1> QED BY <1>10, <1>11, <1>12 DEF n4

(* How far a cell is from the border of the matrix, which is the number of *)
(* its ring.                                                               *)
Depth(N, c) == Exercise!Min({c[1], c[2], N - 1 - c[1], N - 1 - c[2]})
Gap(x, y) == IF x < y THEN y - x ELSE x - y
OneStep(c, d) == Gap(c[1], d[1]) + Gap(c[2], d[2]) = 1

LEMMA DepthIs ==
  ASSUME NEW N \in Int, NEW c \in Points
  PROVE  /\ Depth(N, c) \in Int
         /\ \A d \in Int :
              d = Depth(N, c) <=>
                /\ d <= c[1] /\ d <= c[2]
                /\ c[1] + d <= N - 1 /\ c[2] + d <= N - 1
                /\ \/ d = c[1] \/ d = c[2]
                   \/ c[1] + d = N - 1 \/ c[2] + d = N - 1
<1>1. PICK x \in Int, y \in Int : c[1] = x /\ c[2] = y
  BY DEF Points
<1> DEFINE S == {x, y, N - 1 - x, N - 1 - y}
           IsMin(d) == d \in S /\ \A e \in S : d <= e
<1>2. Depth(N, c) = CHOOSE d : IsMin(d)
  BY <1>1 DEF Depth, Exercise!Min
<1>3. \E d : IsMin(d)
  <2> DEFINE u == IF x <= y THEN x ELSE y
             v == IF N - 1 - x <= N - 1 - y THEN N - 1 - x ELSE N - 1 - y
             d == IF u <= v THEN u ELSE v
  <2>1. IsMin(d)
    OBVIOUS
  <2> QED BY <2>1
<1>4. IsMin(Depth(N, c))
  <2> HIDE DEF IsMin
  <2> QED BY <1>2, <1>3
<1>5. \A d, e : IsMin(d) /\ IsMin(e) => d = e
  OBVIOUS
<1>6. \A d \in Int :
        IsMin(d) <=> /\ d <= x /\ d <= y /\ x + d <= N - 1 /\ y + d <= N - 1
                     /\ d = x \/ d = y \/ x + d = N - 1 \/ y + d = N - 1
  OBVIOUS
<1>7. Depth(N, c) \in Int
  BY <1>4
<1> HIDE DEF IsMin
<1>8. \A d \in Int : d = Depth(N, c) <=> IsMin(d)
  BY <1>4, <1>5
<1> QED BY <1>1, <1>6, <1>7, <1>8

LEMMA RingCellIs ==
  ASSUME NEW k \in Nat, NEW m \in Nat, NEW N, N = m + 1 + 2 * k,
         NEW j \in 1..RingLength(m)
  PROVE  LET c == RingCell(k, m, j) IN
         c \in Cells(N) /\ c \in Points /\ Depth(N, c) = k
<1>1. N \in Int /\ j \in Nat /\ j >= 1 /\ j <= RingLength(m)
  BY DEF RingLength
<1> DEFINE c == RingCell(k, m, j)
<1>2. /\ c \in (0..(N - 1)) \X (0..(N - 1))
      /\ k <= c[1] /\ k <= c[2] /\ c[1] + k <= N - 1 /\ c[2] + k <= N - 1
      /\ k = c[1] \/ k = c[2] \/ c[1] + k = N - 1 \/ c[2] + k = N - 1
  BY <1>1 DEF RingCell, RingLength
<1> HIDE DEF c
<1>3. c \in Points
  BY <1>1, <1>2 DEF Points
<1>4. Depth(N, c) = k
  BY <1>1, <1>2, <1>3, DepthIs
<1> QED BY <1>2, <1>3, <1>4 DEF Cells, c

LEMMA RingCovers ==
  ASSUME NEW k \in Nat, NEW m \in Nat, NEW N, N = m + 1 + 2 * k,
         NEW c \in Cells(N), Depth(N, c) = k
  PROVE  \E j \in 1..RingLength(m) : RingCell(k, m, j) = c
<1>1. PICK x \in 0..(N - 1), y \in 0..(N - 1) : c = <<x, y>>
  BY DEF Cells
<1>2. /\ k <= x /\ k <= y /\ x + k <= N - 1 /\ y + k <= N - 1
      /\ k = x \/ k = y \/ x + k = N - 1 \/ y + k = N - 1
  <2>1. c \in Points /\ N \in Int
    BY <1>1 DEF Points
  <2>2. c[1] = x /\ c[2] = y /\ k \in Int
    BY <1>1
  <2> QED BY <2>1, <2>2, DepthIs
<1>3. /\ x >= k /\ x <= k + m /\ y >= k /\ y <= k + m
      /\ x = k \/ y = k \/ x = k + m \/ y = k + m
      /\ x \in Int /\ y \in Int
  BY <1>2
<1>4. CASE x = k
  <2> DEFINE j == y - k + 1
  <2>1. j \in 1..RingLength(m) /\ j <= m + 1 /\ k + j - 1 = y
    BY <1>3, <1>4 DEF RingLength
  <2> HIDE DEF j
  <2> QED BY <1>1, <1>4, <2>1 DEF RingCell
<1>5. CASE x # k /\ y = k + m
  <2> DEFINE j == x - k + m + 1
  <2>1. /\ j \in 1..RingLength(m) /\ ~ (j <= m + 1) /\ j <= 2 * m + 1
        /\ k + j - m - 1 = x
    BY <1>3, <1>5 DEF RingLength
  <2> HIDE DEF j
  <2> QED BY <1>1, <1>5, <2>1 DEF RingCell
<1>6. CASE x = k + m /\ x # k /\ y # k + m
  <2> DEFINE j == k + m - y + 2 * m + 1
  <2>1. /\ j \in 1..RingLength(m) /\ ~ (j <= m + 1) /\ ~ (j <= 2 * m + 1)
        /\ j <= 3 * m + 1 /\ k + m - (j - 2 * m - 1) = y
    BY <1>3, <1>6 DEF RingLength
  <2> HIDE DEF j
  <2> QED BY <1>1, <1>6, <2>1 DEF RingCell
<1>7. CASE y = k /\ x # k /\ x # k + m
  <2> DEFINE j == k + m - x + 3 * m + 1
  <2>1. /\ j \in 1..RingLength(m) /\ ~ (j <= m + 1) /\ ~ (j <= 2 * m + 1)
        /\ ~ (j <= 3 * m + 1) /\ k + m - (j - 3 * m - 1) = x
    BY <1>3, <1>7 DEF RingLength
  <2> HIDE DEF j
  <2> QED BY <1>1, <1>7, <2>1 DEF RingCell
<1> QED BY <1>3, <1>4, <1>5, <1>6, <1>7

LEMMA RingSteps ==
  ASSUME NEW k \in Nat, NEW m \in Nat, NEW j \in 1..(RingLength(m) - 1)
  PROVE  OneStep(RingCell(k, m, j), RingCell(k, m, j + 1))
<1>1. j \in Nat /\ j >= 1 /\ m >= 1 /\ j + 1 <= 4 * m
  BY DEF RingLength
<1> DEFINE c == RingCell(k, m, j)
           d == RingCell(k, m, j + 1)
<1>2. /\ c[1] \in Int /\ c[2] \in Int /\ d[1] \in Int /\ d[2] \in Int
      /\ \/ d[1] = c[1] /\ (d[2] = c[2] + 1 \/ c[2] = d[2] + 1)
         \/ d[2] = c[2] /\ (d[1] = c[1] + 1 \/ c[1] = d[1] + 1)
  BY <1>1 DEF RingCell
<1> HIDE DEF c, d
<1>3. Gap(c[1], d[1]) + Gap(c[2], d[2]) = 1
  BY <1>2 DEF Gap
<1> QED BY <1>3 DEF OneStep, c, d

LEMMA RingEnds ==
  ASSUME NEW k \in Nat, NEW m \in Nat
  PROVE  /\ RingLength(m) \in Nat /\ RingLength(m) >= 1
         /\ RingCell(k, m, 1) = <<k, k>>
         /\ m # 0 => RingCell(k, m, RingLength(m)) = <<k + 1, k>>
<1>1. RingLength(m) \in Nat /\ RingLength(m) >= 1
  BY DEF RingLength
<1>2. RingCell(k, m, 1) = <<k, k>>
  BY DEF RingCell
<1>3. ASSUME m # 0 PROVE RingCell(k, m, RingLength(m)) = <<k + 1, k>>
  <2>1. CASE m = 1
    <3>1. RingLength(m) = 4
      BY <2>1 DEF RingLength
    <3> QED BY <2>1, <3>1 DEF RingCell
  <2>2. CASE m # 1
    <3>1. RingLength(m) = 4 * m /\ m >= 2
      BY <1>3, <2>2 DEF RingLength
    <3>2. k + m - (4 * m - 3 * m - 1) = k + 1
      OBVIOUS
    <3>3. ~ (4 * m <= m + 1) /\ ~ (4 * m <= 2 * m + 1) /\ ~ (4 * m <= 3 * m + 1)
      BY <3>1
    <3> QED BY <3>1, <3>2, <3>3 DEF RingCell
  <2> QED BY <2>1, <2>2
<1> QED BY <1>1, <1>2, <1>3

LEMMA RingEmpty ==
  ASSUME NEW N \in Nat, NEW k \in Nat, N - 1 < 2 * k
  PROVE  Exercise!Ring(N, k) = <<>>
<1> DEFINE far == N - 1 - k
           none == <<>>
<1>1. far \in Int /\ k \in Int /\ far < k /\ k + 1 \in Int /\ far - 1 \in Int
      /\ far < k + 1 /\ far - 1 < k /\ far - 1 < k + 1
  OBVIOUS
<1>2. Exercise!Ring(N, k) =
        Exercise!Row(k, Exercise!Up(k, far))
          \o Exercise!Column(Exercise!Up(k + 1, far), far)
          \o Exercise!Row(far, Exercise!Down(far - 1, k))
          \o Exercise!Column(Exercise!Down(far - 1, k + 1), k)
  BY DEF Exercise!Ring
<1> HIDE DEF far
<1>3. /\ Exercise!Up(k, far) = none /\ Exercise!Up(k + 1, far) = none
      /\ Exercise!Down(far - 1, k) = none
      /\ Exercise!Down(far - 1, k + 1) = none
  BY <1>1, NoneUp
<1>4. \A e \in Int :
        Exercise!Row(e, none) = none /\ Exercise!Column(none, e) = none
  <2>1. ASSUME NEW e \in Int
        PROVE  Exercise!Row(e, none) = none /\ Exercise!Column(none, e) = none
    <3>1. none \in Seq(Int) /\ Len(none) = 0
      OBVIOUS
    <3>2. /\ Exercise!Row(e, none) \in Seq(Points)
          /\ Len(Exercise!Row(e, none)) = 0
          /\ Exercise!Column(none, e) \in Seq(Points)
          /\ Len(Exercise!Column(none, e)) = 0
      <4> HIDE DEF none
      <4> QED BY <3>1, RowIs
    <3> QED BY <3>2
  <2> QED BY <2>1
<1>5. none \o none = none
  OBVIOUS
<1>6. /\ Exercise!Row(k, none) = none /\ Exercise!Column(none, far) = none
      /\ Exercise!Row(far, none) = none /\ Exercise!Column(none, k) = none
  BY <1>1, <1>4
<1> HIDE DEF none
<1>7. Exercise!Ring(N, k) = ((none \o none) \o none) \o none
  BY <1>2, <1>3, <1>6
<1> QED BY <1>5, <1>7 DEF none

(* The path after k passes: it has filled the rings before ring k, in      *)
(* order, and the cell it ended at is beside the corner of ring k.         *)
SpiralTo(N, k, p) ==
  /\ p \in Seq(Cells(N))
  /\ Len(p) = IF 2 * k <= N THEN N * N - (N - 2 * k) * (N - 2 * k) ELSE N * N
  /\ \A j \in 1..Len(p) : Depth(N, p[j]) < k
  /\ \A c \in Cells(N) : Depth(N, c) < k => \E j \in 1..Len(p) : p[j] = c
  /\ \A j \in 1..(Len(p) - 1) :
       OneStep(p[j], p[j + 1]) /\ Depth(N, p[j]) <= Depth(N, p[j + 1])
  /\ k >= 1 /\ 2 * k < N => Len(p) >= 1 /\ p[Len(p)] = <<k, k - 1>>

(* What a pass adds.                                                       *)
Turn(N, k, p) == IF Len(p) < N * N THEN Exercise!Ring(N, k - 1) ELSE <<>>

LEMMA DepthBounded ==
  ASSUME NEW N \in Nat, NEW c \in Cells(N)
  PROVE  Depth(N, c) \in Nat /\ 2 * Depth(N, c) <= N - 1 /\ c \in Points
<1>1. PICK x \in 0..(N - 1), y \in 0..(N - 1) : c = <<x, y>>
  BY DEF Cells
<1>2. c \in Points /\ N \in Int /\ c[1] = x /\ c[2] = y
  BY <1>1 DEF Points
<1> DEFINE d == Depth(N, c)
<1>3. /\ d \in Int
      /\ d <= x /\ d <= y /\ x + d <= N - 1 /\ y + d <= N - 1
      /\ d = x \/ d = y \/ x + d = N - 1 \/ y + d = N - 1
  <2>1. d \in Int
    BY <1>2, DepthIs
  <2>2. /\ d <= c[1] /\ d <= c[2] /\ c[1] + d <= N - 1 /\ c[2] + d <= N - 1
        /\ d = c[1] \/ d = c[2] \/ c[1] + d = N - 1 \/ c[2] + d = N - 1
    <3> HIDE DEF d
    <3> QED BY <1>2, <2>1, DepthIs DEF d
  <2> QED BY <1>2, <2>1, <2>2
<1> HIDE DEF d
<1>4. d \in Nat /\ 2 * d <= N - 1
  BY <1>1, <1>3
<1> QED BY <1>2, <1>4 DEF d

LEMMA SquaresDiffer ==
  ASSUME NEW N \in Nat, NEW k \in Nat, NEW m \in Nat, N = m + 1 + 2 * k
  PROVE  /\ N * N \in Nat /\ (m + 1) * (m + 1) \in Nat
         /\ N * N - (m + 1) * (m + 1) < N * N
         /\ N * N - (m + 1) * (m + 1) \in Nat
         /\ N * N - (m + 1) * (m + 1) + RingLength(m)
              = IF 2 * (k + 1) <= N
                  THEN N * N - (N - 2 * (k + 1)) * (N - 2 * (k + 1))
                  ELSE N * N
<1>1. N * N \in Nat /\ (m + 1) * (m + 1) \in Nat /\ (m + 1) * (m + 1) >= 1
  <2>1. (m + 1) * (m + 1) = m * m + 2 * m + 1 /\ m * m \in Nat
    OBVIOUS
  <2>2. N * N \in Nat
    OBVIOUS
  <2> QED BY <2>1, <2>2
<1>2. N * N - (m + 1) * (m + 1) \in Nat
  <2>1. N * N = (m + 1) * (m + 1) + (4 * (k * (m + 1)) + 4 * (k * k))
    OBVIOUS
  <2>2. k * (m + 1) \in Nat /\ k * k \in Nat
    OBVIOUS
  <2> QED BY <1>1, <2>1, <2>2
<1>3. CASE m = 0
  <2>1. RingLength(m) = 1 /\ ~ (2 * (k + 1) <= N) /\ (m + 1) * (m + 1) = 1
    BY <1>3 DEF RingLength
  <2> QED BY <1>1, <1>2, <2>1
<1>4. CASE m # 0
  <2>1. RingLength(m) = 4 * m /\ 2 * (k + 1) <= N /\ N - 2 * (k + 1) = m - 1
    BY <1>4 DEF RingLength
  <2>2. (m + 1) * (m + 1) - 4 * m = (m - 1) * (m - 1)
    OBVIOUS
  <2>3. (m - 1) * (m - 1) \in Int
    OBVIOUS
  <2> QED BY <1>1, <1>2, <2>1, <2>2, <2>3
<1> QED BY <1>1, <1>2, <1>3, <1>4

(* A ring of sides m + 1 is all of depth k.                                *)
FillsRing(N, k, m, r) ==
  /\ r \in Seq(Cells(N)) /\ Len(r) = RingLength(m)
  /\ \A j \in 1..RingLength(m) :
       r[j] = RingCell(k, m, j) /\ Depth(N, r[j]) = k
  /\ \A c \in Cells(N) :
       Depth(N, c) = k => \E j \in 1..RingLength(m) : r[j] = c

LEMMA RingIn ==
  ASSUME NEW k \in Nat, NEW m \in Nat, NEW N \in Nat, N = m + 1 + 2 * k
  PROVE  FillsRing(N, k, m, Exercise!Ring(N, k))
<1> DEFINE r == Exercise!Ring(N, k)
           n == RingLength(m)
<1>1. /\ r \in Seq(Points) /\ Len(r) = n
      /\ \A j \in 1..n : r[j] = RingCell(k, m, j)
  <2>1. m = N - 1 - 2 * k
    OBVIOUS
  <2> QED BY <2>1, RingIs
<1>2. \A j \in 1..n : r[j] \in Cells(N) /\ Depth(N, r[j]) = k
  <2>1. ASSUME NEW j \in 1..n
        PROVE  r[j] \in Cells(N) /\ Depth(N, r[j]) = k
    <3>1. r[j] = RingCell(k, m, j)
      BY <1>1
    <3>2. /\ RingCell(k, m, j) \in Cells(N)
          /\ Depth(N, RingCell(k, m, j)) = k
      BY RingCellIs
    <3> HIDE DEF r
    <3> QED BY <3>1, <3>2
  <2> QED BY <2>1
<1>3. \A c \in Cells(N) : Depth(N, c) = k => \E j \in 1..n : r[j] = c
  <2>1. ASSUME NEW c \in Cells(N), Depth(N, c) = k
        PROVE  \E j \in 1..n : r[j] = c
    <3>1. PICK j \in 1..n : RingCell(k, m, j) = c
      BY <2>1, RingCovers
    <3> QED BY <1>1, <3>1
  <2> QED BY <2>1
<1> HIDE DEF r
<1>4. r \in Seq(Cells(N))
  <2>1. Len(r) \in Nat /\ r = [j \in 1..Len(r) |-> r[j]]
    BY <1>1
  <2>2. \A j \in 1..Len(r) : r[j] \in Cells(N)
    BY <1>1, <1>2
  <2> QED BY <2>1, <2>2
<1> QED BY <1>1, <1>2, <1>3, <1>4 DEF r, FillsRing

LEMMA TurnKept ==
  ASSUME NEW N \in Nat \ {0}, NEW k \in 0..(N - 1), NEW p, SpiralTo(N, k, p)
  PROVE  SpiralTo(N, k + 1, p \o Turn(N, k + 1, p))
<1> DEFINE r == Turn(N, k + 1, p)
           q == p \o r
           l == Len(p)
<1>1. /\ p \in Seq(Cells(N)) /\ l \in Nat /\ N \in Nat /\ k \in Nat
      /\ k + 1 \in Nat
  BY DEF SpiralTo
<1>2. CASE N - 1 < 2 * k
  <2>1. l = N * N
    BY <1>1, <1>2 DEF SpiralTo
  <2>2. r = <<>>
    <3>1. N * N \in Nat
      OBVIOUS
    <3> QED BY <2>1, <3>1 DEF Turn
  <2>3. q = p
    <3> HIDE DEF r
    <3> QED BY <1>1, <2>2
  <2>4. \A j \in 1..l : Depth(N, p[j]) < k + 1
    <3>1. ASSUME NEW j \in 1..l PROVE Depth(N, p[j]) < k + 1
      <4>1. p[j] \in Cells(N) /\ Depth(N, p[j]) < k
        BY <1>1 DEF SpiralTo
      <4>2. Depth(N, p[j]) \in Nat
        BY <1>1, <4>1, DepthBounded
      <4> QED BY <1>1, <4>1, <4>2
    <3> QED BY <3>1
  <2>5. \A c \in Cells(N) : \E j \in 1..l : p[j] = c
    <3>1. ASSUME NEW c \in Cells(N) PROVE \E j \in 1..l : p[j] = c
      <4>1. Depth(N, c) \in Nat /\ 2 * Depth(N, c) <= N - 1
        BY <1>1, DepthBounded
      <4>2. Depth(N, c) < k
        BY <1>1, <1>2, <4>1
      <4> QED BY <4>2 DEF SpiralTo
    <3> QED BY <3>1
  <2>6. /\ ~ (2 * (k + 1) <= N) /\ ~ (2 * (k + 1) < N)
    BY <1>1, <1>2
  <2> QED BY <1>1, <2>1, <2>3, <2>4, <2>5, <2>6 DEF SpiralTo
<1>3. CASE ~ (N - 1 < 2 * k)
  <2> DEFINE m == N - 1 - 2 * k
             n == RingLength(m)
  <2>1. m \in Nat /\ N = m + 1 + 2 * k /\ N - 2 * k = m + 1 /\ 2 * k <= N
        /\ 2 * k < N
    BY <1>1, <1>3
  <2> HIDE DEF m
  <2>2. l = N * N - (m + 1) * (m + 1)
    BY <2>1 DEF SpiralTo
  <2>3. /\ l < N * N
        /\ l + n = IF 2 * (k + 1) <= N
                     THEN N * N - (N - 2 * (k + 1)) * (N - 2 * (k + 1))
                     ELSE N * N
    <3> DEFINE s == (m + 1) * (m + 1)
               goal == IF 2 * (k + 1) <= N
                         THEN N * N - (N - 2 * (k + 1)) * (N - 2 * (k + 1))
                         ELSE N * N
    <3>1. N * N - s < N * N /\ N * N - s + n = goal
      BY <1>1, <2>1, SquaresDiffer
    <3>2. l = N * N - s
      BY <2>2
    <3> HIDE DEF s, goal, l
    <3>3. l < N * N /\ l + n = goal
      BY <3>1, <3>2
    <3> QED BY <3>3 DEF goal
  <2>4. r = Exercise!Ring(N, k)
    <3>1. (k + 1) - 1 = k
      BY <1>1
    <3> QED BY <2>3, <3>1 DEF Turn
  <2>5. /\ r \in Seq(Cells(N)) /\ Len(r) = n
        /\ \A j \in 1..n : r[j] = RingCell(k, m, j)
        /\ \A j \in 1..n : Depth(N, r[j]) = k
        /\ \A c \in Cells(N) : Depth(N, c) = k => \E j \in 1..n : r[j] = c
    <3>1. k \in Nat /\ m \in Nat /\ N \in Nat /\ N = m + 1 + 2 * k
      BY <1>1, <2>1
    <3>2. FillsRing(N, k, m, Exercise!Ring(N, k))
      BY <3>1, RingIn
    <3> HIDE DEF r
    <3> QED BY <2>4, <3>2 DEF FillsRing
  <2>6. /\ n \in Nat /\ n >= 1 /\ RingCell(k, m, 1) = <<k, k>>
        /\ m # 0 => RingCell(k, m, n) = <<k + 1, k>>
    BY <1>1, <2>1, RingEnds
  <2> HIDE DEF n, r, l
  <2> DEFINE t == l + n
  <2>7. t \in Nat /\ n = t - l /\ l <= t
    BY <1>1, <2>6
  <2> HIDE DEF t
  <2>8. /\ q \in Seq(Cells(N)) /\ Len(q) = t
        /\ \A j \in 1..t : q[j] = IF j <= l THEN p[j] ELSE r[j - l]
    <3>1. /\ Len(p) = l /\ Len(r) = t - l /\ l \in Nat /\ t \in Nat
          /\ p \in Seq(Cells(N)) /\ r \in Seq(Cells(N))
      BY <1>1, <2>5, <2>7 DEF l
    <3> QED BY <3>1, JoinedIs
  <2> HIDE DEF q
  <2>9. \A j \in 1..t : j <= l => q[j] = p[j] /\ j \in 1..l
    BY <1>1, <2>8
  <2>10. \A j \in 1..t : ~ (j <= l) =>
           q[j] = RingCell(k, m, j - l) /\ Depth(N, q[j]) = k /\ j - l \in 1..n
    <3>1. ASSUME NEW j \in 1..t, ~ (j <= l)
          PROVE  /\ q[j] = RingCell(k, m, j - l) /\ Depth(N, q[j]) = k
                 /\ j - l \in 1..n
      <4>1. j - l \in 1..n
        BY <1>1, <2>6, <2>7, <3>1
      <4>2. q[j] = r[j - l]
        BY <2>8, <3>1
      <4> QED BY <2>5, <4>1, <4>2
    <3> QED BY <3>1
  <2>11. \A j \in 1..l : Depth(N, p[j]) < k /\ Depth(N, p[j]) \in Nat
    <3>1. ASSUME NEW j \in 1..l
          PROVE  Depth(N, p[j]) < k /\ Depth(N, p[j]) \in Nat
      <4>1. p[j] \in Cells(N) /\ Depth(N, p[j]) < k
        BY <1>1 DEF SpiralTo, l
      <4>2. Depth(N, p[j]) \in Nat
        BY <1>1, <4>1, DepthBounded
      <4> QED BY <4>1, <4>2
    <3> QED BY <3>1
  <2>12. \A j \in 1..t : Depth(N, q[j]) < k + 1
    BY <1>1, <2>9, <2>10, <2>11
  <2>13. ASSUME NEW c \in Cells(N), Depth(N, c) < k + 1
         PROVE  \E j \in 1..t : q[j] = c
    <3>1. Depth(N, c) \in Nat
      BY <1>1, DepthBounded
    <3>2. CASE Depth(N, c) < k
      <4>1. PICK j \in 1..l : p[j] = c
        BY <3>2 DEF SpiralTo, l
      <4>2. j \in 1..t /\ j <= l
        BY <1>1, <2>7
      <4> QED BY <2>9, <4>1, <4>2
    <3>3. CASE ~ (Depth(N, c) < k)
      <4>1. Depth(N, c) = k
        BY <1>1, <2>13, <3>1, <3>3
      <4>2. PICK j \in 1..n : r[j] = c
        BY <2>5, <4>1
      <4> DEFINE o == j + l
      <4>3. o \in 1..t /\ ~ (o <= l) /\ o - l = j
        BY <1>1, <2>6, <2>7
      <4> HIDE DEF o
      <4> QED BY <2>8, <4>2, <4>3
    <3> QED BY <3>2, <3>3
  <2>14. ASSUME NEW j \in 1..(t - 1)
         PROVE  OneStep(q[j], q[j + 1]) /\ Depth(N, q[j]) <= Depth(N, q[j + 1])
    <3> DEFINE o == j + 1
    <3>1. j \in 1..t /\ o \in 1..t /\ j \in Int /\ o \in Int
      BY <2>7
    <3>2. CASE o <= l
      <4>1. j \in 1..(l - 1) /\ j <= l
        BY <1>1, <3>1, <3>2
      <4>2. q[j] = p[j] /\ q[o] = p[o]
        BY <2>9, <3>1, <3>2, <4>1
      <4>3. OneStep(p[j], p[j + 1]) /\ Depth(N, p[j]) <= Depth(N, p[j + 1])
        BY <4>1 DEF SpiralTo, l
      <4> QED BY <4>2, <4>3
    <3>3. CASE j = l
      <4>1. l \in 1..l /\ j <= l /\ ~ (o <= l) /\ o - l = 1
        BY <1>1, <3>1, <3>3
      <4>2. k >= 1
        BY <1>1, <2>11, <4>1
      <4>3. q[j] = <<k, k - 1>>
        <5>1. p[l] = <<k, k - 1>>
          BY <2>1, <4>2 DEF SpiralTo, l
        <5> QED BY <2>9, <3>1, <3>3, <4>1, <5>1
      <4>4. q[o] = <<k, k>> /\ Depth(N, q[o]) = k
        BY <2>6, <2>10, <3>1, <4>1
      <4>5. Depth(N, q[j]) \in Nat /\ Depth(N, q[j]) < k
        BY <2>9, <2>11, <3>1, <4>1
      <4>6. Gap(k, k) = 0 /\ Gap(k - 1, k) = 1
        BY <1>1 DEF Gap
      <4>7. OneStep(<<k, k - 1>>, <<k, k>>)
        BY <4>6 DEF OneStep
      <4>8. Depth(N, q[j]) <= Depth(N, q[o])
        BY <1>1, <4>4, <4>5
      <4> QED BY <4>3, <4>4, <4>7, <4>8
    <3>4. CASE ~ (j <= l)
      <4> DEFINE later == j - l
      <4>1. ~ (o <= l) /\ later \in 1..(n - 1) /\ o - l = later + 1
        BY <1>1, <2>6, <2>7, <3>1, <3>4
      <4> HIDE DEF o
      <4>2. /\ q[j] = RingCell(k, m, later) /\ q[o] = RingCell(k, m, later + 1)
            /\ Depth(N, q[j]) = k /\ Depth(N, q[o]) = k
        BY <2>10, <3>1, <3>4, <4>1
      <4>3. OneStep(RingCell(k, m, later), RingCell(k, m, later + 1))
        <5> HIDE DEF later
        <5> QED BY <1>1, <2>1, <4>1, RingSteps DEF n
      <4> QED BY <1>1, <4>2, <4>3 DEF o
    <3> QED BY <1>1, <3>1, <3>2, <3>3, <3>4
  <2>15. ASSUME 2 * (k + 1) < N
         PROVE  t >= 1 /\ q[t] = <<k + 1, (k + 1) - 1>>
    <3>1. m # 0
      BY <1>1, <2>1, <2>15
    <3>2. t \in 1..t /\ ~ (t <= l) /\ t >= 1
      BY <1>1, <2>6, <2>7
    <3>3. q[t] = RingCell(k, m, t - l)
      BY <2>10, <3>2
    <3>4. q[t] = <<k + 1, k>> /\ (k + 1) - 1 = k
      BY <1>1, <2>6, <2>7, <3>1, <3>3
    <3> QED BY <3>2, <3>4
  <2>16. t = IF 2 * (k + 1) <= N
               THEN N * N - (N - 2 * (k + 1)) * (N - 2 * (k + 1)) ELSE N * N
    BY <2>3 DEF t
  <2>17. SpiralTo(N, k + 1, q)
    <3> DEFINE o == k + 1
    <3> HIDE DEF o
    <3>1. SpiralTo(N, o, q)
      <4> SUFFICES /\ q \in Seq(Cells(N))
                   /\ Len(q) = IF 2 * o <= N
                                 THEN N * N - (N - 2 * o) * (N - 2 * o)
                                 ELSE N * N
                   /\ \A j \in 1..t : Depth(N, q[j]) < o
                   /\ \A c \in Cells(N) :
                        Depth(N, c) < o => \E j \in 1..t : q[j] = c
                   /\ \A j \in 1..(t - 1) :
                        /\ OneStep(q[j], q[j + 1])
                        /\ Depth(N, q[j]) <= Depth(N, q[j + 1])
                   /\ o >= 1 /\ 2 * o < N => t >= 1 /\ q[t] = <<o, o - 1>>
        BY <2>8 DEF SpiralTo
      <4> QED BY <2>8, <2>12, <2>13, <2>14, <2>15, <2>16 DEF o
    <3> QED BY <3>1 DEF o
  <2> QED BY <2>17 DEF q, r
<1> QED BY <1>2, <1>3

LEMMA RingTyped ==
  ASSUME NEW N \in Nat, NEW k \in Nat
  PROVE  Exercise!Ring(N, k) \in Seq(Points)
<1>1. CASE N - 1 < 2 * k
  <2>1. Exercise!Ring(N, k) = <<>>
    BY <1>1, RingEmpty
  <2>2. <<>> \in Seq(Points)
    OBVIOUS
  <2> QED BY <2>1, <2>2
<1>2. CASE ~ (N - 1 < 2 * k)
  <2> DEFINE m == N - 1 - 2 * k
  <2>1. m \in Nat /\ m = N - 1 - 2 * k
    BY <1>2
  <2> HIDE DEF m
  <2> QED BY <2>1, RingIs
<1> QED BY <1>1, <1>2

(* The path grows by a turn at a time.                                     *)
LEMMA SpiralUnrolls ==
  ASSUME NEW N \in Nat \ {0}
  PROVE  \E h : /\ h[0] = <<>>
                /\ \A k \in 1..N : h[k] = h[k - 1] \o Turn(N, k, h[k - 1])
                /\ Exercise!Spiral(N) = h[N]
<1> DEFINE X == 0..N
           V == Seq(Points)
           Body(it, k) == IF k = 0 THEN <<>>
                          ELSE it[k - 1] \o Turn(N, k, it[k - 1])
           P(it) == it = [k \in X |-> Body(it, k)]
           path == CHOOSE it : P(it)
<1>1. Exercise!Spiral(N) = path[N]
  BY DEF Exercise!Spiral, Turn
<1>2. \E it : P(it)
  <2> DEFINE Z == {0}
             before == [k \in X |-> k - 1]
             rank == [k \in X |-> k]
             step == [p \in V \X X |-> IF p[2] = 0 THEN <<>>
                                       ELSE p[1] \o Turn(N, p[2], p[1])]
  <2>1. rank \in [X -> 0..N]
    OBVIOUS
  <2>2. \A k \in X \ Z : before[k] \in X /\ rank[before[k]] < rank[k]
    <3>1. \A k \in X \ Z : k - 1 \in X /\ k - 1 < k /\ k \in X
      OBVIOUS
    <3>2. /\ \A k \in X : before[k] = k - 1
          /\ \A k \in X : rank[k] = k
      OBVIOUS
    <3> HIDE DEF X, Z, before, rank
    <3> QED BY <3>1, <3>2
  <2>3. step \in [V \X X -> V]
    <3>1. ASSUME NEW p \in V \X X, p[2] # 0
          PROVE  p[1] \o Turn(N, p[2], p[1]) \in V
      <4>1. p[1] \in V /\ p[2] - 1 \in Nat /\ N \in Nat
        BY <3>1
      <4>2. Exercise!Ring(N, p[2] - 1) \in V
        <5> DEFINE k == p[2] - 1
        <5> HIDE DEF k
        <5> QED BY <4>1, RingTyped DEF k
      <4>3. Turn(N, p[2], p[1]) \in V
        <5>1. <<>> \in V
          OBVIOUS
        <5> HIDE DEF V
        <5> QED BY <4>2, <5>1 DEF Turn
      <4> QED BY <4>1, <4>3, ConcatProperties
    <3>2. <<>> \in V
      OBVIOUS
    <3> HIDE DEF V, X
    <3> QED BY <3>1, <3>2
  <2>4. PICK f \in [X -> V] : Unfolds(f, X, Z, before, <<>>, step)
    <3>1. <<>> \in V /\ N \in Nat
      OBVIOUS
    <3> HIDE DEF X, V, Z, before, rank, step
    <3> QED BY <2>1, <2>2, <2>3, <3>1, RecursionExists
  <2>5. ASSUME NEW k \in X PROVE f[k] = Body(f, k)
    <3>1. f[k] = IF k \in Z THEN <<>> ELSE step[<<f[before[k]], k>>]
      <4> HIDE DEF X, V, Z, before, step
      <4> QED BY <2>4 DEF Unfolds
    <3>2. CASE k = 0
      BY <3>1, <3>2
    <3>3. CASE k # 0
      <4> DEFINE p == <<f[before[k]], k>>
      <4>1. before[k] = k - 1 /\ k - 1 \in X
        BY <3>3
      <4>2. p \in V \X X /\ p[1] = f[k - 1] /\ p[2] = k
        <5> HIDE DEF V, X, before
        <5> QED BY <4>1
      <4>3. step[p] = p[1] \o Turn(N, p[2], p[1])
        <5> HIDE DEF V, X, p
        <5> QED BY <3>3, <4>2
      <4> HIDE DEF step, V, X, before
      <4>4. f[k] = step[p]
        BY <3>1, <3>3
      <4> HIDE DEF p
      <4> QED BY <3>3, <4>2, <4>3, <4>4
    <3> QED BY <3>2, <3>3
  <2>6. f = [k \in X |-> f[k]]
    <3> HIDE DEF V, X
    <3> QED OBVIOUS
  <2> HIDE DEF X, Body
  <2> QED BY <2>5, <2>6
<1>3. P(path)
  <2> HIDE DEF P
  <2> QED BY <1>2
<1>4. \A k \in X : path[k] = Body(path, k)
  <2> HIDE DEF path, X, Body
  <2> QED BY <1>3
<1> HIDE DEF path, P
<1>5. /\ path[0] = <<>>
      /\ \A k \in 1..N : path[k] = path[k - 1] \o Turn(N, k, path[k - 1])
  <2>1. 0 \in X /\ \A k \in 1..N : k \in X /\ k # 0
    OBVIOUS
  <2> HIDE DEF X
  <2> QED BY <1>4, <2>1
<1> QED BY <1>1, <1>5

LEMMA SpiralIs ==
  ASSUME NEW N \in Nat \ {0}
  PROVE  SpiralTo(N, N, Exercise!Spiral(N))
<1>1. PICK h : /\ h[0] = <<>>
               /\ \A k \in 1..N : h[k] = h[k - 1] \o Turn(N, k, h[k - 1])
               /\ Exercise!Spiral(N) = h[N]
  BY SpiralUnrolls
<1> DEFINE Bad == {k \in 0..N : ~ SpiralTo(N, k, h[k])}
<1>2. SpiralTo(N, 0, h[0])
  <2>1. \A c \in Cells(N) : ~ (Depth(N, c) < 0)
    <3>1. ASSUME NEW c \in Cells(N) PROVE ~ (Depth(N, c) < 0)
      <4>1. Depth(N, c) \in Nat
        BY DepthBounded
      <4> QED BY <4>1
    <3> QED BY <3>1
  <2>2. h[0] \in Seq(Cells(N)) /\ Len(h[0]) = 0
    BY <1>1
  <2>3. 2 * 0 <= N /\ N * N - (N - 2 * 0) * (N - 2 * 0) = 0 /\ ~ (0 >= 1)
    <3>1. N - 2 * 0 = N /\ N * N \in Nat
      OBVIOUS
    <3> QED BY <3>1
  <2>4. \A j \in 1..0 : FALSE
    OBVIOUS
  <2>5. \A j \in 1..(0 - 1) : FALSE
    OBVIOUS
  <2> QED BY <2>1, <2>2, <2>3, <2>4, <2>5 DEF SpiralTo
<1>3. ASSUME Bad # {} PROVE FALSE
  <2>1. PICK k \in Bad : \A j \in Bad : k <= j
    <3>1. Bad \in SUBSET (0..N) /\ N \in Nat
      OBVIOUS
    <3> HIDE DEF Bad
    <3> QED BY <1>3, <3>1, FirstExists
  <2>2. k \in 0..N /\ ~ SpiralTo(N, k, h[k])
    OBVIOUS
  <2>3. k # 0
    BY <1>2, <2>2
  <2> DEFINE j == k - 1
  <2>4. j \in 0..N /\ j \in 0..(N - 1) /\ ~ (k <= j) /\ j + 1 = k /\ k \in 1..N
    BY <2>2, <2>3
  <2>5. SpiralTo(N, j, h[j])
    BY <2>1, <2>4
  <2>6. h[k] = h[j] \o Turn(N, k, h[j])
    BY <1>1, <2>4
  <2> HIDE DEF j
  <2>7. SpiralTo(N, j + 1, h[j] \o Turn(N, j + 1, h[j]))
    BY <2>4, <2>5, TurnKept
  <2> QED BY <2>2, <2>4, <2>6, <2>7
<1>4. N \in 0..N
  OBVIOUS
<1> QED BY <1>1, <1>3, <1>4

SpiralFilled ==
  \E N \in 1..SIZE : input = N /\ output = Exercise!Spiral(N)

LEMMA SpiralFilledRight == SpiralFilled => Exercise!SpiralRight
<1> SUFFICES ASSUME NEW N \in 1..SIZE, input = N,
                    output = Exercise!Spiral(N)
             PROVE  Exercise!SpiralRight
  BY DEF SpiralFilled
<1>1. N \in Nat \ {0} /\ N \in Nat /\ N \in Int
  BY TextsAssumption
<1>2. SpiralTo(N, N, output)
  BY <1>1, SpiralIs
<1>3. Len(output) = N * N
  <2>1. ~ (2 * N <= N)
    BY <1>1
  <2> QED BY <1>2, <2>1 DEF SpiralTo
<1>4. output \in Seq(Cells(N)) /\ DOMAIN output = 1..Len(output)
  BY <1>2 DEF SpiralTo
<1>5. Exercise!ToSet(output) = Cells(N)
  <2>1. \A c \in Cells(N) : \E j \in 1..Len(output) : output[j] = c
    <3>1. ASSUME NEW c \in Cells(N)
          PROVE  \E j \in 1..Len(output) : output[j] = c
      <4>1. Depth(N, c) \in Nat /\ 2 * Depth(N, c) <= N - 1
        BY <1>1, DepthBounded
      <4>2. Depth(N, c) < N
        BY <1>1, <4>1
      <4> QED BY <1>2, <4>2 DEF SpiralTo
    <3> QED BY <3>1
  <2>2. \A j \in 1..Len(output) : output[j] \in Cells(N)
    BY <1>4
  <2>3. Exercise!ToSet(output) = {output[j] : j \in 1..Len(output)}
    BY <1>4 DEF Exercise!ToSet
  <2> QED BY <2>1, <2>2, <2>3
<1>6. \A k \in 1..(Len(output) - 1) :
        /\ OneStep(output[k], output[k + 1])
        /\ Depth(N, output[k]) <= Depth(N, output[k + 1])
  BY <1>2 DEF SpiralTo
<1> QED BY <1>3, <1>5, <1>6
      DEF Exercise!SpiralRight, OneStep, Gap, Depth, Cells

-----------------------------------------------------------------------------
(* What the programs leave behind.                                *)
Reversed ==
  \E N \in 1..SIZE :
    input = N /\ output = Exercise!Swapped([k \in 1..N |-> k])

HeaderFilled ==
  \E words \in [1..WORDS -> Exercise!Shorts] :
    /\ input = words
    /\ output = [words EXCEPT ![WORDS] = Exercise!checksum(words)]

LEMMA ReversedRight ==
  Reversed => output = Exercise!Reverse([k \in 1..input |-> k])
<1> SUFFICES ASSUME NEW N \in 1..SIZE, input = N,
                    output = Exercise!Swapped([k \in 1..N |-> k])
             PROVE  output = Exercise!Reverse([k \in 1..N |-> k])
  BY DEF Reversed
<1>1. N \in Nat
  BY TextsAssumption
<1>2. [k \in 1..N |-> k] \in Seq(Nat)
  BY <1>1
<1> QED BY <1>2, SwappedReverses

LEMMA HeaderSums ==
  ASSUME NEW D, IsFiniteSet(D), WORDS \in D,
         \A T \in SUBSET D : T # {} => Highest(T) \in T,
         NEW w \in [D -> Exercise!Shorts], NEW k \in D,
         k # WORDS, w[k] # 0
  PROVE  Exercise!checksum([w EXCEPT ![WORDS] = Exercise!checksum(w)]) = 0
           <=> w[WORDS] \in {0, W - 1}
<1> DEFINE c == Exercise!checksum(w)
           out == [w EXCEPT ![WORDS] = c]
           R == Exercise!Shorts \cup {c}
<1> HIDE DEF c
<1>1. /\ out \in [D -> R]
      /\ out[WORDS] = c
      /\ \A x \in D \ {WORDS} : out[x] = w[x]
  OBVIOUS
<1> HIDE DEF out, R
<1>2. out[WORDS] = Exercise!checksum(w)
  BY <1>1 DEF c
<1>3. Exercise!checksum(out) = 0 <=> w[WORDS] \in {0, W - 1}
  BY <1>1, <1>2, ChecksumFits
<1> QED BY <1>3 DEF out, c

LEMMA HeaderFilledRight == HeaderFilled => Exercise!HeaderRight
<1> SUFFICES ASSUME NEW words \in [1..WORDS -> Exercise!Shorts],
                    input = words,
                    output = [words EXCEPT ![WORDS] = Exercise!checksum(words)],
                    NEW k \in 1..(WORDS - 1), words[k] # 0
             PROVE  Exercise!checksum(output) = 0 <=>
                      words[WORDS] \in {0, 2^HALF - 1}
  BY DEF HeaderFilled, Exercise!HeaderRight
<1>1. k \in 1..WORDS /\ k # WORDS /\ WORDS \in 1..WORDS
  BY TextsAssumption
<1>2. \A T \in SUBSET (1..WORDS) : T # {} => Highest(T) \in T
  BY TextsAssumption, TopIsIn
<1>3. IsFiniteSet(1..WORDS)
  BY TextsAssumption, FS_Interval
<1> QED BY <1>1, <1>2, <1>3, HeaderSums DEF W

FromTheirRuns ==
  /\ task = "count" => Counted
  /\ task = "byte" => Replaced
  /\ task = "find" => Searched
  /\ task = "header" => HeaderFilled
  /\ task = "reverse" => Reversed
  /\ task = "triangle" => TriangleFilled
  /\ task = "spiral" => SpiralFilled

(* The exercises compute what they are for: for numbers and bytes of every *)
(* width, texts over every alphabet, headers of every length, arrays and   *)
(* matrices of every size, odd and even.                                   *)
THEOREM ResultsCorrect ==
  Exercise!Init /\ [][Exercise!Next]_(Exercise!vars) => []ResultsRight
<1>1. Exercise!Init => FromTheirRuns
  BY DEF Exercise!Init, FromTheirRuns
<1>2. FromTheirRuns /\ [Exercise!Next]_(Exercise!vars) => FromTheirRuns'
  <2> SUFFICES ASSUME FromTheirRuns, [Exercise!Next]_(Exercise!vars)
               PROVE  FromTheirRuns'
    OBVIOUS
  <2>1. CASE UNCHANGED Exercise!vars
    BY <2>1 DEF Exercise!vars, FromTheirRuns, Counted, Replaced, Searched,
      HeaderFilled, Reversed, TriangleFilled, SpiralFilled
  <2>2. CASE Exercise!PrintAndCount
    BY <2>2 DEF Exercise!PrintAndCount, Exercise!Does, FromTheirRuns,
      Counted
  <2>3. CASE Exercise!ChangeThirdByte
    BY <2>3 DEF Exercise!ChangeThirdByte, Exercise!Does, FromTheirRuns,
      Replaced
  <2>4. CASE Exercise!FindSubstring
    BY <2>4 DEF Exercise!FindSubstring, Exercise!Does, FromTheirRuns,
      Searched
  <2>5. CASE Exercise!FillHeader
    BY <2>5 DEF Exercise!FillHeader, Exercise!Does, FromTheirRuns,
      HeaderFilled
  <2>6. CASE Exercise!ReverseArray
    BY <2>6 DEF Exercise!ReverseArray, Exercise!Does, FromTheirRuns,
      Reversed
  <2>7. CASE Exercise!FillTriangle
    BY <2>7 DEF Exercise!FillTriangle, Exercise!Does, FromTheirRuns,
      TriangleFilled
  <2>8. CASE Exercise!FillSpiral
    BY <2>8 DEF Exercise!FillSpiral, Exercise!Does, FromTheirRuns,
      SpiralFilled
  <2> QED BY <2>1, <2>2, <2>3, <2>4, <2>5, <2>6, <2>7, <2>8
          DEF Exercise!Next
<1>3. FromTheirRuns => ResultsRight
  <2> SUFFICES ASSUME FromTheirRuns PROVE ResultsRight
    OBVIOUS
  <2>1. /\ task = "count" => Exercise!DigitsRight
        /\ task = "byte" => Exercise!ThirdByteRight
        /\ task = "find" => Exercise!OccurrenceRight
        /\ task = "header" => Exercise!HeaderRight
    BY CountedRight, ReplacedRight, SearchedRight, HeaderFilledRight
    DEF FromTheirRuns
  <2>2. /\ task = "reverse" =>
             output = Exercise!Reverse([k \in 1..input |-> k])
        /\ task = "triangle" => TriangleRight
        /\ task = "spiral" => Exercise!SpiralRight
    BY ReversedRight, TriangleFilledRight, SpiralFilledRight
    DEF FromTheirRuns
  <2> QED BY <2>1, <2>2
          DEF ResultsRight, Exercise!ResultsRight, TriangleRight
<1> QED BY <1>1, <1>2, <1>3, PTL
=============================================================================
