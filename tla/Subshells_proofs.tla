--------------------------- MODULE Subshells_proofs ----------------------------
(***************************************************************************)
(* Proofs about Subshells: type correctness; the working directory and the *)
(* descriptors that hold directories; the removal of functions; what is    *)
(* saved of variables; that it implements ForkedShell.                     *)
(***************************************************************************)
EXTENDS Subshells, FiniteSetTheorems, WellFoundedInduction, TLAPS

--------------------------------------------------------------------------------
(* The inductive invariant. *)

Positions(s, x) == {i \in DOMAIN s : s[i] = x}
Funs == Positions(calls, "fun")
Tabs == {i \in 1..Subshell : data[i].sfun}     \* the subshells with a table of functions

SavedValues == UNION {[D -> Value \cup {Null}] : D \in SUBSET Node}
SubshellData == [svar : SavedValues, sfun : BOOLEAN, pwd : Dir, pwdfd : Fd \cup {NoFd},
                 subshare : BOOLEAN]

(* There is a scope for each function and a table for each subshell that has one,
   besides the global ones. *)
Counted == Cardinality(Funs) < Len(tree) /\ Cardinality(Tabs) < Len(funs)

Typed == TypeOK /\ data \in Seq(SubshellData) /\ Counted

(* The list of subshells is that of the subshells active, until the shell forks
   for the last time. *)
Fresh == forks < MaxFork => Len(data) = Subshell

(* The shared subshells are the outermost, and hold no directory. *)
SharedOuter == \A i, j \in 1..Subshell : i < j /\ IsShared(i) => IsShared(j)
SharedHasNone == \A i \in 1..Subshell : IsShared(i) => data[i].pwdfd = NoFd

(* The descriptors of the shells that wait in this process, from the innermost:
   those that have the same are neighbours, *)
At(i) == IF i = 0 THEN pwdfd ELSE data[i].pwdfd
Shells == {0} \cup Levels
Contiguous ==
    \A i, j, k \in Shells : i <= j /\ j <= k /\ At(i) = At(k) /\ At(i) # NoFd => At(j) = At(i)

(* and where one has none, the shells inside of it have none and are still there. *)
NoneOutside == \A i, j \in Shells : i < j /\ At(j) = NoFd => At(i) = NoFd /\ data[j].pwd = cwd

Held ==
    /\ Fresh /\ SharedOuter /\ SharedHasNone /\ Contiguous /\ NoneOutside
    /\ PwdHeld /\ NoneLeaked

IInv == Typed /\ Held

(* The shell forks once, or not for jobs, so that no stale list is read. *)
ForkOnce == MaxFork <= 1 \/ \A program \in Programs : "job" \notin program

--------------------------------------------------------------------------------
(* Counting. *)

(* A set of numbers has a least one, and a greatest one if it is bounded. *)
LEMMA Least ==
    ASSUME NEW S \in SUBSET Nat, S # {}
    PROVE  \E n \in S : \A m \in S : n <= m
<1>1. PICK n \in S : \A m \in S : ~ (<<m, n>> \in OpToRel(<, Nat))
  BY NatLessThanWellFounded, WFMin, Zenon
<1>2. \A m, k \in Nat : <<m, k>> \in OpToRel(<, Nat) <=> m < k
  BY DEF OpToRel
<1>3. \A m \in S : ~ (m < n)
  BY <1>1, <1>2
<1>4. QED
  BY <1>3

LEMMA Greatest ==
    ASSUME NEW N \in Nat, NEW S \in SUBSET (0..N), S # {}
    PROVE  \E n \in S : \A m \in S : m <= n
<1> DEFINE T == {N - i : i \in S}
<1>1. T \in SUBSET Nat /\ T # {}
  <2>1. \A i \in S : i \in 0..N
    OBVIOUS
  <2>2. \A i \in S : N - i \in Nat
    BY <2>1
  <2>3. QED
    BY <2>2, Zenon
<1>2. PICK k \in T : \A m \in T : k <= m
  <2> HIDE DEF T
  <2>1. QED
    BY <1>1, Least
<1>3. PICK n \in S : k = N - n
  BY <1>2
<1>4. \A m \in S : N - n <= N - m
  BY <1>2, <1>3
<1>5. QED
  BY <1>4

LEMMA CountShift ==
    ASSUME NEW S \in SUBSET Nat, IsFiniteSet(S)
    PROVE  /\ IsFiniteSet({i + 1 : i \in S})
           /\ Cardinality({i + 1 : i \in S}) = Cardinality(S)
<1> DEFINE T == {i + 1 : i \in S}
           f == [i \in S |-> i + 1]
<1>1. f \in Bijection(S, T)
  <2>1. f \in [S -> T] /\ \A i \in S : f[i] = i + 1
    OBVIOUS
  <2>2. \A i, j \in S : f[i] = f[j] => i = j
    BY <2>1
  <2>3. \A t \in T : \E i \in S : f[i] = t
    BY <2>1
  <2>4. QED
    BY <2>1, <2>2, <2>3, Zenon DEF Bijection, Injection, IsInjective, Surjection
<1>2. IsFiniteSet(T) /\ Cardinality(T) = Cardinality(S)
  <2> HIDE DEF T, f
  <2>1. QED
    BY <1>1, FS_Bijection DEF ExistsBijection
<1>3. QED
  BY <1>2

(* A push shifts the positions by one. *)
LEMMA CountPush ==
    ASSUME NEW X, NEW s \in Seq(X), NEW e \in X, NEW x
    PROVE  /\ IsFiniteSet(Positions(s, x)) /\ Cardinality(Positions(s, x)) \in Nat
           /\ Cardinality(Positions(<<e>> \o s, x)) =
                 Cardinality(Positions(s, x)) + (IF e = x THEN 1 ELSE 0)
<1> DEFINE P == Positions(s, x)
           T == {i + 1 : i \in P}
           Q == Positions(<<e>> \o s, x)
<1>1. IsFiniteSet(P) /\ P \in SUBSET Nat
  <2>1. P \subseteq 1..Len(s) /\ Len(s) \in Nat
    BY DEF Positions
  <2>2. IsFiniteSet(1..Len(s))
    BY <2>1, FS_Interval
  <2>3. QED
    BY <2>1, <2>2, FS_Subset
<1>2. IsFiniteSet(T) /\ Cardinality(T) = Cardinality(P) /\ Cardinality(P) \in Nat
  BY <1>1, CountShift, FS_CardinalityType
<1>3. Q = IF e = x THEN T \cup {1} ELSE T
  <2>1. /\ Len(<<e>> \o s) = Len(s) + 1 /\ (<<e>> \o s)[1] = e
        /\ \A i \in 1..Len(s) : (<<e>> \o s)[i + 1] = s[i]
    OBVIOUS
  <2>2. \A i \in Q : i = 1 \/ i - 1 \in P
    BY <2>1 DEF Positions
  <2>3. \A i \in P : i + 1 \in Q
    BY <2>1 DEF Positions
  <2>4. 1 \in Q <=> e = x
    BY <2>1 DEF Positions
  <2>5. \A i \in Q : i \in Nat
    BY DEF Positions
  <2>6. QED
    BY <1>1, <2>2, <2>3, <2>4, <2>5 DEF Positions
<1>4. 1 \notin T
  BY DEF Positions
<1>5. Cardinality(T \cup {1}) = Cardinality(T) + 1
  BY <1>2, <1>4, FS_AddElement
<1>6. QED
  BY <1>1, <1>2, <1>3, <1>5

LEMMA CountTail ==
    ASSUME NEW X, NEW s \in Seq(X), s # <<>>, NEW x
    PROVE  Cardinality(Positions(s, x)) =
              Cardinality(Positions(Tail(s), x)) + (IF Head(s) = x THEN 1 ELSE 0)
<1> DEFINE h == Head(s)
           t == Tail(s)
<1>1. h \in X /\ t \in Seq(X) /\ s = <<h>> \o t
  OBVIOUS
<1> HIDE DEF h, t
<1>2. Cardinality(Positions(<<h>> \o t, x)) = Cardinality(Positions(t, x)) + (IF h = x THEN 1 ELSE 0)
  BY <1>1, CountPush
<1>3. QED
  BY <1>1, <1>2, Zenon DEF h, t

LEMMA CountsAreNumbers ==
    ASSUME Typed
    PROVE  /\ Subshell \in Nat /\ Subshell <= Len(data) /\ Len(data) \in Nat
           /\ Subshell = Cardinality(Positions(calls, "sub"))
           /\ IsFiniteSet(Tabs) /\ Cardinality(Tabs) \in Nat /\ Cardinality(Funs) \in Nat
<1>1. calls \in Seq(Frame) /\ Subshell <= Len(data) /\ Len(data) \in Nat
  BY DEF Typed, TypeOK
<1>2. Subshell = Cardinality(Positions(calls, "sub"))
  BY DEF Subshell, Subs, Positions
<1>3. Cardinality(Positions(calls, "sub")) \in Nat /\ Cardinality(Funs) \in Nat
  <2>1. "sub" \in Frame
    BY DEF Frame
  <2>2. QED
    BY <1>1, <2>1, CountPush DEF Funs
<1>4. IsFiniteSet(Tabs)
  <2>1. IsFiniteSet(1..Subshell)
    BY <1>2, <1>3, FS_Interval
  <2>2. QED
    BY <2>1, FS_Subset DEF Tabs
<1>5. QED
  BY <1>1, <1>2, <1>3, <1>4, FS_CardinalityType

--------------------------------------------------------------------------------
(* Types. *)

LEMMA SavedIsTyped ==
    ASSUME NEW sp \in SubshellData
    PROVE  IsSaved(sp)
<1>1. PICK D \in SUBSET Node : sp.svar \in [D -> Value \cup {Null}]
  BY DEF SubshellData, SavedValues
<1>2. DOMAIN sp = {"svar", "sfun", "pwd", "pwdfd", "subshare"}
  BY DEF SubshellData
<1>3. /\ sp.sfun \in BOOLEAN /\ sp.pwd \in Dir /\ sp.pwdfd \in Fd \cup {NoFd}
      /\ sp.subshare \in BOOLEAN
  BY DEF SubshellData
<1>4. QED
  BY <1>1, <1>2, <1>3 DEF IsSaved

LEMMA SavedInVirtual ==
    ASSUME Typed, Virtual
    PROVE  /\ 1 \in DOMAIN data /\ data[1] \in SubshellData /\ Subshell >= 1
           /\ data = <<Head(data)>> \o Tail(data) /\ Head(data) = data[1]
<1>1. Subshell \in Nat /\ Subshell > 0 /\ Subshell <= Len(data) /\ data \in Seq(SubshellData)
  BY CountsAreNumbers DEF Virtual, Typed
<1>2. QED
  BY <1>1

(* Saving a variable changes nothing else of the list. *)
LEMMA AssignokType ==
    ASSUME Typed, NEW s \in DOMAIN tree, NEW n \in Name
    PROVE  /\ sh_assignok(<<s, n>>) \in Seq(SubshellData)
           /\ Len(sh_assignok(<<s, n>>)) = Len(data)
           /\ \A i \in DOMAIN data :
                 LET new == sh_assignok(<<s, n>>)[i]
                 IN  /\ new.sfun = data[i].sfun /\ new.pwd = data[i].pwd
                     /\ new.pwdfd = data[i].pwdfd /\ new.subshare = data[i].subshare
<1> DEFINE node == <<s, n>>
           svar == [m \in DOMAIN data[1].svar \cup {node} |-> IF m = node THEN ValueOf(m)
                                                              ELSE data[1].svar[m]]
<1>1. CASE ~ Virtual \/ IsKept(node)
  <2>1. sh_assignok(node) = data
    BY <1>1 DEF sh_assignok
  <2>2. QED
    BY <2>1 DEF Typed
<1>2. CASE Virtual /\ ~ IsKept(node)
  <2>1. 1 \in DOMAIN data /\ data[1] \in SubshellData /\ data \in Seq(SubshellData)
    BY <1>2, SavedInVirtual DEF Typed
  <2>2. sh_assignok(node) = [data EXCEPT ![1].svar = svar]
    BY <1>2 DEF sh_assignok
  <2>3. svar \in SavedValues
    <3>1. PICK D \in SUBSET Node : data[1].svar \in [D -> Value \cup {Null}]
      BY <2>1 DEF SubshellData, SavedValues
    <3>2. node \in Node
      BY DEF Node, Typed, TypeOK
    <3>3. tree[s][n] \in Value \cup {Null, Absent}
      BY DEF Typed, TypeOK, Scope
    <3>4. ValueOf(node) \in Value \cup {Null}
      BY <3>3 DEF ValueOf
    <3>5. svar \in [D \cup {node} -> Value \cup {Null}]
      BY <3>1, <3>4
    <3>6. QED
      BY <3>2, <3>5 DEF SavedValues
  <2>4. [data[1] EXCEPT !.svar = svar] \in SubshellData
    BY <2>1, <2>3 DEF SubshellData
  <2> DEFINE new == [data[1] EXCEPT !.svar = svar]
  <2>5. /\ new.sfun = data[1].sfun /\ new.pwd = data[1].pwd
        /\ new.pwdfd = data[1].pwdfd /\ new.subshare = data[1].subshare
    BY <2>1 DEF SubshellData
  <2>6. sh_assignok(node) = [data EXCEPT ![1] = new]
    BY <2>1, <2>2
  <2> HIDE DEF new, svar, node
  <2>7. /\ sh_assignok(node) \in Seq(SubshellData) /\ Len(sh_assignok(node)) = Len(data)
        /\ sh_assignok(node)[1] = new
        /\ \A i \in DOMAIN data : i # 1 => sh_assignok(node)[i] = data[i]
    BY <2>1, <2>4, <2>6 DEF new
  <2>8. QED
    BY <2>5, <2>7 DEF node
<1>3. QED
  BY <1>1, <1>2

(* What TypeOK says of the list of subshells. *)
LEMMA ListIsTyped ==
    ASSUME NEW d \in Seq(SubshellData)
    PROVE  \A i \in DOMAIN d : IsSaved(d[i])
BY SavedIsTyped

LEMMA TypedPut ==
    ASSUME Typed, NEW s \in DOMAIN tree, NEW n \in Name, NEW v \in Value \cup {Null},
           Put(<<s, n>>, v)
    PROVE  Typed'
<1>1. /\ data' \in Seq(SubshellData) /\ Len(data') = Len(data)
      /\ \A i \in DOMAIN data : data'[i].sfun = data[i].sfun
  BY AssignokType DEF Put
<1>2. /\ UNCHANGED <<ops, funs, cwd, pwd, pwdfd, fd, subshare, calls, forks>>
      /\ tree' = [tree EXCEPT ![s][n] = v]
  BY DEF Put
<1>3. Subshell' = Subshell /\ Funs' = Funs
  BY <1>2 DEF Subshell, Subs, Funs, Positions
<1>4. Tabs' = Tabs
  <2>1. \A i \in 1..Subshell : i \in DOMAIN data
    BY CountsAreNumbers DEF Typed
  <2>2. QED
    BY <1>1, <1>3, <2>1 DEF Tabs
<1>5. /\ tree' \in Seq(Scope) /\ Len(tree') = Len(tree) /\ tree' # <<>>
      /\ \A m \in Name : tree'[1][m] # Absent
  <2>1. tree \in Seq(Scope) /\ tree # <<>> /\ \A m \in Name : tree[1][m] # Absent
    BY DEF Typed, TypeOK
  <2>2. v # Absent /\ v \in Value \cup {Null, Absent}
    BY SubshellAssumption DEF Null, Absent
  <2>3. tree[s] \in Scope /\ [tree[s] EXCEPT ![n] = v] \in Scope
    BY <2>1, <2>2 DEF Scope
  <2>4. tree' = [tree EXCEPT ![s] = [tree[s] EXCEPT ![n] = v]]
    BY <1>2, <2>1
  <2>5. \A m \in Name : [tree[s] EXCEPT ![n] = v][m] = IF m = n THEN v ELSE tree[s][m]
    BY <2>3 DEF Scope
  <2>6. QED
    BY <2>1, <2>2, <2>3, <2>4, <2>5
<1>6. \A i \in DOMAIN data' : IsSaved(data'[i])
  BY <1>1, ListIsTyped
<1>7. QED
  BY <1>1, <1>2, <1>3, <1>4, <1>5, <1>6 DEF Typed, TypeOK, Counted

LEMMA TypedVariables ==
    ASSUME Typed, NEW n \in Name, NEW v \in Value,
           Assign(n, v) \/ Typeset(n, v)
    PROVE  Typed'
<1>1. tree \in Seq(Scope) /\ tree # <<>>
  BY DEF Typed, TypeOK
<1>2. \E s \in DOMAIN tree : Found(n) = <<s, n>>
  BY <1>1 DEF Found
<1>3. Len(tree) \in DOMAIN tree
  BY <1>1
<1>4. CASE Assign(n, v)
  BY <1>2, <1>4, TypedPut DEF Assign
<1>5. CASE Typeset(n, v)
  BY <1>3, <1>5, TypedPut DEF Typeset
<1>6. QED
  BY <1>4, <1>5

LEMMA TypedUnset == 
    ASSUME Typed, NEW n \in Name, Unset(n)
    PROVE  Typed'
<1>1. tree \in Seq(Scope) /\ tree # <<>>
  BY DEF Typed, TypeOK
<1>2. \E s \in DOMAIN tree : Found(n) = <<s, n>>
  BY <1>1 DEF Found
<1>3. QED
  BY <1>2, TypedPut DEF Unset

(* The table of a subshell is made where it is counted. *)
LEMMA TablesType ==
    ASSUME Typed
    PROVE  /\ Tables \in Seq(FunTable) /\ Len(Tables) \in Nat /\ Tables # <<>>
           /\ Len(Tables) = Len(funs) + (IF NewTable THEN 1 ELSE 0)
           /\ Tabled \in Seq(SubshellData) /\ Len(Tabled) = Len(data)
           /\ {i \in 1..Subshell : Tabled[i].sfun} = IF NewTable THEN Tabs \cup {1} ELSE Tabs
           /\ NewTable => 1 \notin Tabs
           /\ \A i \in DOMAIN data :
                 /\ Tabled[i].pwd = data[i].pwd /\ Tabled[i].pwdfd = data[i].pwdfd
                 /\ Tabled[i].subshare = data[i].subshare
<1>1. funs \in Seq(FunTable) /\ funs # <<>> /\ data \in Seq(SubshellData)
  BY DEF Typed, TypeOK
<1>2. CASE ~ NewTable
  BY <1>1, <1>2 DEF Tables, Tabled, Tabs
<1>3. CASE NewTable
  <2>1. 1 \in DOMAIN data /\ data[1] \in SubshellData /\ Subshell >= 1 /\ ~ data[1].sfun
    BY <1>3, SavedInVirtual DEF NewTable
  <2>2. [f \in Function |-> Absent] \in FunTable
    BY DEF FunTable
  <2> DEFINE new == [data[1] EXCEPT !.sfun = TRUE]
  <2>3. /\ new \in SubshellData /\ new.sfun = TRUE /\ new.pwd = data[1].pwd
        /\ new.pwdfd = data[1].pwdfd /\ new.subshare = data[1].subshare
    BY <2>1 DEF SubshellData
  <2>4. Tabled = [data EXCEPT ![1] = new]
    BY <1>1, <1>3, <2>1 DEF Tabled
  <2> HIDE DEF new
  <2>5. /\ Tabled \in Seq(SubshellData) /\ Len(Tabled) = Len(data) /\ Tabled[1] = new
        /\ \A i \in DOMAIN data : i # 1 => Tabled[i] = data[i]
    BY <1>1, <2>1, <2>3, <2>4
  <2>6. Subshell \in Nat /\ \A i \in 1..Subshell : i \in DOMAIN data
    BY <1>1, CountsAreNumbers
  <2>7. {i \in 1..Subshell : Tabled[i].sfun} = Tabs \cup {1}
    BY <2>1, <2>3, <2>5, <2>6 DEF Tabs
  <2>8. 1 \notin Tabs
    BY <2>1 DEF Tabs
  <2>9. Tables = Append(funs, [f \in Function |-> Absent])
    BY <1>3 DEF Tables
  <2>10. QED
    BY <1>1, <1>3, <2>2, <2>3, <2>5, <2>7, <2>8, <2>9
<1>4. QED
  BY <1>2, <1>3

LEMMA TypedFunctions ==
    ASSUME Typed, NEW f \in Function,
           UnsetFunction(f) \/ \E b \in Body : DefineFunction(f, b)
    PROVE  Typed'
<1>1. \E t \in Body \cup {Absent, Dummy} : funs' = [Tables EXCEPT ![Len(Tables)][f] = t]
  BY DEF DefineFunction, UnsetFunction, Removed
<1>2. /\ data' = Tabled
      /\ UNCHANGED <<ops, tree, cwd, pwd, pwdfd, fd, subshare, calls, forks>>
  BY DEF DefineFunction, UnsetFunction
<1>3. /\ funs' \in Seq(FunTable) /\ Len(funs') = Len(Tables) /\ funs' # <<>>
  <2>1. PICK t \in Body \cup {Absent, Dummy} : funs' = [Tables EXCEPT ![Len(Tables)][f] = t]
    BY <1>1
  <2>2. Tables \in Seq(FunTable) /\ Tables # <<>> /\ Len(Tables) \in DOMAIN Tables
    BY TablesType
  <2>3. [Tables[Len(Tables)] EXCEPT ![f] = t] \in FunTable
    BY <2>2 DEF FunTable
  <2>4. QED
    BY <2>1, <2>2, <2>3
<1>4. Subshell' = Subshell /\ Funs' = Funs
  BY <1>2 DEF Subshell, Subs, Funs, Positions
<1>5. Tabs' = (IF NewTable THEN Tabs \cup {1} ELSE Tabs)
  BY <1>2, <1>4, TablesType DEF Tabs
<1>6. Cardinality(Tabs') = Cardinality(Tabs) + (IF NewTable THEN 1 ELSE 0)
  <2>1. IsFiniteSet(Tabs) /\ Cardinality(Tabs) \in Nat /\ (NewTable => 1 \notin Tabs)
    BY TablesType, CountsAreNumbers
  <2>2. Cardinality(Tabs \cup {1}) = IF 1 \in Tabs THEN Cardinality(Tabs) ELSE Cardinality(Tabs) + 1
    BY <2>1, FS_AddElement
  <2>3. QED
    BY <1>5, <2>1, <2>2
<1>7. Counted'
  <2>1. Cardinality(Tabs) < Len(funs) /\ Len(funs) \in Nat
    BY DEF Typed, TypeOK, Counted
  <2>2. Cardinality(Tabs') < Len(funs')
    BY <1>3, <1>6, <2>1, TablesType, CountsAreNumbers
  <2>3. QED
    BY <1>2, <1>4, <2>2 DEF Counted, Typed
<1>8. /\ data' \in Seq(SubshellData) /\ Len(data') = Len(data)
      /\ \A i \in DOMAIN data' : IsSaved(data'[i])
  BY <1>2, TablesType, ListIsTyped
<1>9. QED
  BY <1>2, <1>3, <1>4, <1>7, <1>8 DEF Typed, TypeOK

LEMMA CallCount ==
    ASSUME Typed, FunctionCall
    PROVE  Subshell' = Subshell /\ Cardinality(Funs') = Cardinality(Funs) + 1
<1>1. calls' = <<"fun">> \o calls
  BY DEF FunctionCall
<1>2. calls \in Seq(Frame) /\ "fun" \in Frame
  BY DEF Typed, TypeOK, Frame
<1>3. Cardinality(Funs') = Cardinality(Funs) + 1
  BY <1>1, <1>2, CountPush, CountsAreNumbers DEF Funs
<1>4. Subshell' = Subshell
  <2>1. Subshell' = Cardinality(Positions(calls', "sub"))
    BY DEF Subshell, Subs, Positions
  <2>2. Cardinality(Positions(<<"fun">> \o calls, "sub")) = Cardinality(Positions(calls, "sub")) + 0
    BY <1>2, CountPush
  <2>3. QED
    BY <1>1, <2>1, <2>2, CountsAreNumbers
<1>5. QED
  BY <1>3, <1>4

LEMMA TypedCall ==
    ASSUME Typed, FunctionCall
    PROVE  Typed'
<1>1. /\ calls' = <<"fun">> \o calls /\ tree' = Append(tree, [n \in Name |-> Absent])
      /\ UNCHANGED <<ops, funs, cwd, pwd, pwdfd, fd, subshare, data, forks>>
  BY DEF FunctionCall
<1>2. calls \in Seq(Frame) /\ "fun" \in Frame
  BY DEF Typed, TypeOK, Frame
<1>3. calls' \in Seq(Frame)
  BY <1>1, <1>2
<1>4. Subshell' = Subshell /\ Cardinality(Funs') = Cardinality(Funs) + 1
  BY CallCount
<1>5. Tabs' = Tabs
  BY <1>1, <1>4 DEF Tabs
<1>6. /\ tree' \in Seq(Scope) /\ Len(tree') = Len(tree) + 1 /\ tree' # <<>>
      /\ tree'[1] = tree[1]
  BY <1>1 DEF Typed, TypeOK, Scope
<1>7. Counted'
  BY <1>1, <1>4, <1>5, <1>6, CountsAreNumbers DEF Counted, Typed, TypeOK
<1>8. QED
  BY <1>1, <1>3, <1>4, <1>6, <1>7 DEF Typed, TypeOK

(* What the end of a function does to the list, and the numbers of frames. *)
LEMMA ReturnShape ==
    ASSUME Typed, FunctionReturn
    PROVE  /\ Subshell' = Subshell /\ Cardinality(Funs') = Cardinality(Funs) - 1
           /\ data' \in Seq(SubshellData) /\ Len(data') = Len(data)
           /\ \A i \in DOMAIN data : /\ data'[i].sfun = data[i].sfun /\ data'[i].pwd = data[i].pwd
                                     /\ data'[i].pwdfd = data[i].pwdfd
                                     /\ data'[i].subshare = data[i].subshare
<1>1. calls # <<>> /\ Head(calls) = "fun" /\ calls' = Tail(calls)
  BY DEF FunctionReturn
<1>2. calls \in Seq(Frame) /\ data \in Seq(SubshellData)
  BY DEF Typed, TypeOK
<1>3. calls' \in Seq(Frame)
  BY <1>1, <1>2
<1>4. Cardinality(Funs') = Cardinality(Funs) - 1
  <2>1. Cardinality(Positions(calls, "fun")) = Cardinality(Positions(Tail(calls), "fun")) + 1
    BY <1>1, <1>2, CountTail
  <2>2. Cardinality(Positions(Tail(calls), "fun")) \in Nat
    BY <1>1, <1>2, <1>3, CountPush DEF Frame
  <2>3. QED
    BY <1>1, <2>1, <2>2 DEF Funs
<1>5. Subshell' = Subshell
  <2>1. Cardinality(Positions(calls, "sub")) = Cardinality(Positions(Tail(calls), "sub")) + 0
    BY <1>1, <1>2, CountTail
  <2>2. Cardinality(Positions(Tail(calls), "sub")) \in Nat
    BY <1>1, <1>2, <1>3, CountPush DEF Frame
  <2>3. Subshell = Cardinality(Positions(calls, "sub")) /\ Subshell' = Cardinality(Positions(calls', "sub"))
    BY DEF Subshell, Subs, Positions
  <2>4. QED
    BY <1>1, <2>1, <2>2, <2>3
<1>6. /\ data' \in Seq(SubshellData) /\ Len(data') = Len(data)
      /\ \A i \in DOMAIN data : /\ data'[i].sfun = data[i].sfun /\ data'[i].pwd = data[i].pwd
                                /\ data'[i].pwdfd = data[i].pwdfd
                                /\ data'[i].subshare = data[i].subshare
  <2> DEFINE kept(i) == {n \in DOMAIN data[i].svar : n[1] # Len(tree) \/ Saver(n) # i}
             new(i) == [data[i] EXCEPT !.svar = [n \in kept(i) |-> data[i].svar[n]]]
  <2>1. data' = [i \in DOMAIN data |-> new(i)]
    BY DEF FunctionReturn
  <2>2. ASSUME NEW i \in DOMAIN data
        PROVE  /\ new(i) \in SubshellData /\ new(i).sfun = data[i].sfun
               /\ new(i).pwd = data[i].pwd /\ new(i).pwdfd = data[i].pwdfd
               /\ new(i).subshare = data[i].subshare
    <3>1. data[i] \in SubshellData
      BY <1>2
    <3>2. PICK D \in SUBSET Node : data[i].svar \in [D -> Value \cup {Null}]
      BY <3>1 DEF SubshellData, SavedValues
    <3>3. kept(i) \in SUBSET D
      BY <3>2
    <3>4. [n \in kept(i) |-> data[i].svar[n]] \in [kept(i) -> Value \cup {Null}]
      BY <3>2, <3>3
    <3>5. [n \in kept(i) |-> data[i].svar[n]] \in SavedValues
      BY <3>2, <3>3, <3>4 DEF SavedValues
    <3> HIDE DEF kept
    <3>6. QED
      BY <3>1, <3>5 DEF SubshellData
  <2> HIDE DEF new
  <2>3. QED
    BY <1>2, <2>1, <2>2
<1>7. QED
  BY <1>4, <1>5, <1>6

LEMMA TypedReturn ==
    ASSUME Typed, FunctionReturn
    PROVE  Typed'
<1>1. /\ calls # <<>> /\ calls' = Tail(calls)
      /\ tree' = SubSeq(tree, 1, Len(tree) - 1)
      /\ UNCHANGED <<ops, funs, cwd, pwd, pwdfd, fd, subshare, forks>>
  BY DEF FunctionReturn
<1>2. calls \in Seq(Frame) /\ data \in Seq(SubshellData) /\ tree \in Seq(Scope)
  BY DEF Typed, TypeOK
<1>3. calls' \in Seq(Frame)
  BY <1>1, <1>2
<1>4. Cardinality(Funs') = Cardinality(Funs) - 1
  BY ReturnShape
<1>5. Subshell' = Subshell
  BY ReturnShape
<1>6. /\ data' \in Seq(SubshellData) /\ Len(data') = Len(data)
      /\ \A i \in DOMAIN data : data'[i].sfun = data[i].sfun
  BY ReturnShape
<1>7. Tabs' = Tabs
  <2>1. \A i \in 1..Subshell : i \in DOMAIN data
    BY <1>2, CountsAreNumbers
  <2>2. QED
    BY <1>5, <1>6, <2>1 DEF Tabs
<1>8. Len(tree) > 1
  <2>1. Cardinality(Funs') \in Nat
    BY <1>1, <1>3, CountPush DEF Frame, Funs
  <2>2. QED
    BY <1>2, <1>4, <2>1, CountsAreNumbers DEF Typed, Counted
<1>9. /\ tree' \in Seq(Scope) /\ Len(tree') = Len(tree) - 1 /\ tree' # <<>>
      /\ tree'[1] = tree[1]
  <2>1. Len(tree) \in Nat /\ 1 <= Len(tree) - 1 /\ tree \in Seq(Scope)
    BY <1>2, <1>8
  <2>2. /\ SubSeq(tree, 1, Len(tree) - 1) \in Seq(Scope)
        /\ Len(SubSeq(tree, 1, Len(tree) - 1)) = Len(tree) - 1
        /\ SubSeq(tree, 1, Len(tree) - 1)[1] = tree[1]
    BY <2>1
  <2>3. /\ tree' \in Seq(Scope) /\ Len(tree') = Len(tree) - 1 /\ tree'[1] = tree[1]
    BY <1>1, <2>2, Zenon
  <2>4. tree' # <<>>
    BY <2>1, <2>3
  <2>5. QED
    BY <2>3, <2>4
<1>10. Counted'
  BY <1>1, <1>2, <1>4, <1>7, <1>9, CountsAreNumbers DEF Counted, Typed
<1>11. \A i \in DOMAIN data' : IsSaved(data'[i])
  BY <1>6, ListIsTyped
<1>12. QED
  BY <1>1, <1>3, <1>5, <1>6, <1>9, <1>10, <1>11 DEF Typed, TypeOK

LEMMA NewFdType ==
    ASSUME Typed, HasFree
    PROVE  NewFd \in Fd /\ fd[NewFd] = Free
<1> DEFINE F == {n \in Fd : fd[n] = Free}
<1>1. F # {} /\ F \in SUBSET Nat
  BY SubshellAssumption DEF HasFree, Fd
<1>2. PICK n \in F : \A m \in F : n <= m
  <2> HIDE DEF F
  <2>1. QED
    BY <1>1, Least
<1>3. n \in Fd /\ fd[n] = Free /\ \A m \in 1..n - 1 : fd[m] # Free
  BY <1>2, SubshellAssumption DEF Fd
<1>4. QED
  BY <1>3 DEF NewFd

LEMMA TypedCd ==
    ASSUME Typed, NEW d \in Dir, Cd(d)
    PROVE  Typed'
<1>1. NewFd \in Fd
  BY NewFdType DEF Cd
<1>2. fd' \in [Fd -> Dir \cup {Free}]
  BY <1>1 DEF Cd, PwdUpdate, Typed, TypeOK
<1>3. /\ UNCHANGED <<ops, tree, funs, subshare, calls, data, forks>>
      /\ pwdfd' \in Fd \cup {NoFd} /\ cwd' \in Dir /\ pwd' \in Dir
  BY <1>1 DEF Cd
<1>4. Subshell' = Subshell /\ Funs' = Funs
  BY <1>3 DEF Subshell, Subs, Funs, Positions
<1>5. Tabs' = Tabs
  BY <1>3, <1>4 DEF Tabs
<1>6. QED
  BY <1>2, <1>3, <1>4, <1>5 DEF Typed, TypeOK, Counted

(* What a subshell that begins does to the list, and its number. *)
LEMMA EnterShape ==
    ASSUME Typed, NEW share \in BOOLEAN, SubshellEnter(share)
    PROVE  /\ data' \in Seq(SubshellData) /\ Len(data') = Len(data) + 1
           /\ data'[1].sfun = FALSE /\ data'[1].pwd = pwd /\ data'[1].subshare = subshare
           /\ data'[1].pwdfd = IF share THEN NoFd ELSE pwdfd
           /\ \A i \in DOMAIN data : data'[i + 1] = data[i]
           /\ calls' \in Seq(Frame) /\ Subshell' = Subshell + 1
           /\ Cardinality(Funs') = Cardinality(Funs)
<1> DEFINE new == [svar |-> <<>>, sfun |-> FALSE, pwd |-> pwd,
                   pwdfd |-> IF share THEN NoFd ELSE pwdfd, subshare |-> subshare]
<1>1. new \in SubshellData
  <2>1. <<>> \in [{} -> Value \cup {Null}]
    OBVIOUS
  <2>2. <<>> \in SavedValues
    BY <2>1 DEF SavedValues
  <2>3. pwd \in Dir /\ pwdfd \in Fd \cup {NoFd} /\ subshare \in BOOLEAN
    BY DEF Typed, TypeOK
  <2>4. QED
    BY <2>2, <2>3 DEF SubshellData
<1>2. data' = <<new>> \o data /\ calls' = <<"sub">> \o calls
  BY DEF SubshellEnter
<1>3. data \in Seq(SubshellData) /\ calls \in Seq(Frame) /\ "sub" \in Frame /\ "fun" \in Frame
  BY DEF Typed, TypeOK, Frame
<1>4. /\ new.sfun = FALSE /\ new.pwd = pwd /\ new.subshare = subshare
      /\ new.pwdfd = IF share THEN NoFd ELSE pwdfd
  OBVIOUS
<1> HIDE DEF new
<1>5. /\ data' \in Seq(SubshellData) /\ Len(data') = Len(data) + 1 /\ data'[1] = new
      /\ \A i \in DOMAIN data : data'[i + 1] = data[i]
  BY <1>1, <1>2, <1>3
<1>6. calls' \in Seq(Frame)
  BY <1>2, <1>3
<1>7. Subshell' = Subshell + 1
  <2>1. Subshell' = Cardinality(Positions(calls', "sub"))
    BY DEF Subshell, Subs, Positions
  <2>2. Cardinality(Positions(<<"sub">> \o calls, "sub")) = Cardinality(Positions(calls, "sub")) + 1
    BY <1>3, CountPush
  <2>3. QED
    BY <1>2, <2>1, <2>2, CountsAreNumbers
<1>8. Cardinality(Funs') = Cardinality(Funs)
  <2>1. Cardinality(Positions(<<"sub">> \o calls, "fun")) = Cardinality(Positions(calls, "fun")) + 0
    BY <1>3, CountPush
  <2>2. QED
    BY <1>2, <2>1, CountsAreNumbers DEF Funs
<1>9. QED
  BY <1>4, <1>5, <1>6, <1>7, <1>8

LEMMA TypedEnter ==
    ASSUME Typed, NEW share \in BOOLEAN, SubshellEnter(share)
    PROVE  Typed'
<1>1. /\ UNCHANGED <<ops, tree, funs, cwd, pwd, pwdfd, fd, forks>> /\ subshare' \in BOOLEAN
  BY DEF SubshellEnter
<1>2. Tabs' = {i + 1 : i \in Tabs}
  <2>1. Subshell \in Nat /\ \A i \in 1..Subshell : i \in DOMAIN data
    BY CountsAreNumbers DEF Typed
  <2>2. \A i \in 1..Subshell : data'[i + 1] = data[i]
    BY <2>1, EnterShape
  <2>3. Subshell' = Subshell + 1 /\ ~ data'[1].sfun
    BY EnterShape
  <2>4. \A k \in Tabs' : k - 1 \in Tabs /\ k = (k - 1) + 1
    BY <2>1, <2>2, <2>3 DEF Tabs
  <2>5. \A i \in Tabs : i + 1 \in Tabs'
    BY <2>1, <2>2, <2>3 DEF Tabs
  <2>6. QED
    BY <2>4, <2>5
<1>3. Cardinality(Tabs') = Cardinality(Tabs)
  <2>1. Tabs \in SUBSET Nat
    BY DEF Tabs
  <2>2. QED
    BY <1>2, <2>1, CountsAreNumbers, CountShift
<1>4. Counted'
  BY <1>1, <1>3, EnterShape DEF Counted, Typed
<1>5. \A i \in DOMAIN data' : IsSaved(data'[i])
  BY EnterShape, ListIsTyped
<1>6. Subshell' <= Len(data')
  <2>1. Subshell' = Subshell + 1 /\ Len(data') = Len(data) + 1
    BY EnterShape
  <2>2. Subshell <= Len(data) /\ Subshell \in Nat /\ Len(data) \in Nat
    BY CountsAreNumbers
  <2>3. QED
    BY <2>1, <2>2
<1>7. QED
  BY <1>1, <1>4, <1>5, <1>6, EnterShape DEF Typed, TypeOK

(* What a subshell that ends does to the list, and its number. *)
LEMMA LeaveShape ==
    ASSUME Typed, SubshellLeave
    PROVE  /\ data[1] \in SubshellData /\ Subshell >= 1 /\ Subshell' = Subshell - 1
           /\ data' \in Seq(SubshellData) /\ Len(data') = Len(data) - 1
           /\ \A i \in DOMAIN data' : i + 1 \in DOMAIN data /\ data'[i] = data[i + 1]
           /\ calls' \in Seq(Frame) /\ Cardinality(Funs') = Cardinality(Funs)
<1>1. /\ calls # <<>> /\ Head(calls) = "sub" /\ calls' = Tail(calls) /\ data' = Tail(data)
  BY DEF SubshellLeave
<1>2. data \in Seq(SubshellData) /\ calls \in Seq(Frame) /\ "sub" \in Frame /\ "fun" \in Frame
  BY DEF Typed, TypeOK, Frame
<1>3. calls' \in Seq(Frame)
  BY <1>1, <1>2
<1>4. Subshell' \in Nat /\ Subshell >= 1 /\ Subshell' = Subshell - 1
  <2>1. Cardinality(Positions(calls, "sub")) = Cardinality(Positions(Tail(calls), "sub")) + 1
    BY <1>1, <1>2, CountTail
  <2>2. Cardinality(Positions(Tail(calls), "sub")) \in Nat
    BY <1>1, <1>2, <1>3, CountPush
  <2>3. Subshell = Cardinality(Positions(calls, "sub")) /\ Subshell' = Cardinality(Positions(calls', "sub"))
    BY DEF Subshell, Subs, Positions
  <2>4. QED
    BY <1>1, <2>1, <2>2, <2>3
<1>5. Cardinality(Funs') = Cardinality(Funs)
  <2>1. Cardinality(Positions(calls, "fun")) = Cardinality(Positions(Tail(calls), "fun")) + 0
    BY <1>1, <1>2, CountTail
  <2>2. Cardinality(Positions(Tail(calls), "fun")) \in Nat
    BY <1>1, <1>2, <1>3, CountPush
  <2>3. QED
    BY <1>1, <2>1, <2>2 DEF Funs
<1>6. Len(data) >= 1 /\ Len(data) \in Nat
  BY <1>4, CountsAreNumbers
<1>7. data # <<>>
  BY <1>6
<1>8. data' \in Seq(SubshellData) /\ Len(data') = Len(data) - 1
  BY <1>1, <1>2, <1>6, <1>7
<1>9. \A i \in DOMAIN data' : i + 1 \in DOMAIN data /\ data'[i] = data[i + 1]
  BY <1>1, <1>2, <1>6, <1>7
<1>10. data[1] \in SubshellData
  BY <1>2, <1>6
<1>11. QED
  BY <1>3, <1>4, <1>5, <1>8, <1>9, <1>10, Zenon

(* The tables of the subshells that are left. *)
LEMMA LeaveTabs ==
    ASSUME Typed, SubshellLeave
    PROVE  /\ Cardinality(Tabs') \in Nat
           /\ Cardinality(Tabs) = Cardinality(Tabs') + (IF data[1].sfun THEN 1 ELSE 0)
<1> DEFINE T == {i + 1 : i \in Tabs'}
<1>1. /\ Subshell >= 1 /\ Subshell' = Subshell - 1 /\ Len(data') = Len(data) - 1
      /\ \A i \in DOMAIN data' : i + 1 \in DOMAIN data /\ data'[i] = data[i + 1]
  BY LeaveShape
<1>2. Subshell \in Nat /\ Subshell <= Len(data) /\ Len(data) \in Nat
  BY CountsAreNumbers
<1>3. \A i \in 1..Subshell - 1 : data'[i] = data[i + 1]
  <2>1. DOMAIN data' = 1..Len(data) - 1
    BY <1>1, LeaveShape
  <2>2. QED
    BY <1>1, <1>2, <2>1
<1>4. Tabs' \in SUBSET Nat /\ IsFiniteSet(Tabs')
  <2>1. Tabs' \subseteq 1..Subshell - 1
    BY <1>1 DEF Tabs
  <2>2. IsFiniteSet(1..Subshell - 1)
    BY <1>2, FS_Interval
  <2>3. IsFiniteSet(Tabs')
    BY <2>1, <2>2, FS_Subset
  <2>4. QED
    BY <1>2, <2>1, <2>3
<1>5. IsFiniteSet(T) /\ Cardinality(T) = Cardinality(Tabs') /\ Cardinality(Tabs') \in Nat
  BY <1>4, CountShift, FS_CardinalityType
<1>6. 1 \notin T
  BY DEF Tabs
<1>7. Tabs = IF data[1].sfun THEN T \cup {1} ELSE T
  <2>1. \A k \in Tabs : k = 1 \/ (k - 1 \in Tabs' /\ k = (k - 1) + 1)
    <3>1. SUFFICES ASSUME NEW k \in Tabs, k # 1
                   PROVE  k - 1 \in Tabs' /\ k = (k - 1) + 1
      OBVIOUS
    <3>2. k \in 1..Subshell /\ data[k].sfun
      BY <3>1 DEF Tabs
    <3>3. k - 1 \in 1..Subshell - 1 /\ (k - 1) + 1 = k
      BY <1>2, <3>1, <3>2
    <3>4. QED
      BY <1>1, <1>3, <3>2, <3>3 DEF Tabs
  <2>2. \A i \in Tabs' : i + 1 \in Tabs
    BY <1>1, <1>2, <1>3 DEF Tabs
  <2>3. 1 \in Tabs <=> data[1].sfun
    BY <1>1, <1>2 DEF Tabs
  <2>4. \A k \in Tabs : k = 1 \/ k \in T
    BY <2>1
  <2>5. \A k \in T : k \in Tabs
    BY <2>2
  <2> HIDE DEF T
  <2>6. QED
    BY <1>6, <2>3, <2>4, <2>5
<1>8. Cardinality(T \cup {1}) = Cardinality(T) + 1
  BY <1>5, <1>6, FS_AddElement
<1>9. QED
  BY <1>5, <1>7, <1>8

LEMMA TypedLeave ==
    ASSUME Typed, SubshellLeave
    PROVE  Typed'
<1> DEFINE sp == data[1]
           back == ~ subshare /\ pwdfd # sp.pwdfd
<1>1. sp \in SubshellData
  BY LeaveShape
<1>2. /\ back => fd[sp.pwdfd] \in Dir
      /\ tree' = Restored(sp)
      /\ cwd' = IF back THEN fd[sp.pwdfd] ELSE cwd
      /\ fd' = IF back THEN PwdUpdate(fd) ELSE fd
      /\ IF subshare THEN UNCHANGED <<funs, pwd, pwdfd>>
         ELSE /\ funs' = IF sp.sfun THEN SubSeq(funs, 1, Len(funs) - 1) ELSE funs
              /\ pwd' = sp.pwd /\ pwdfd' = sp.pwdfd
      /\ subshare' = sp.subshare
      /\ UNCHANGED <<ops, forks>>
  BY DEF SubshellLeave
<1>3. cwd \in Dir /\ pwd \in Dir /\ pwdfd \in Fd \cup {NoFd} /\ fd \in [Fd -> Dir \cup {Free}]
  BY DEF Typed, TypeOK
<1>4. /\ cwd' \in Dir /\ pwd' \in Dir /\ pwdfd' \in Fd \cup {NoFd}
      /\ subshare' \in BOOLEAN
  BY <1>1, <1>2, <1>3 DEF SubshellData
<1>5. fd' \in [Fd -> Dir \cup {Free}]
  BY <1>2, <1>3 DEF PwdUpdate
<1>6. /\ tree' \in Seq(Scope) /\ Len(tree') = Len(tree) /\ tree' # <<>>
      /\ \A n \in Name : tree'[1][n] # Absent
  <2>1. tree \in Seq(Scope) /\ tree # <<>> /\ \A n \in Name : tree[1][n] # Absent
    BY DEF Typed, TypeOK
  <2>2. PICK D \in SUBSET Node : sp.svar \in [D -> Value \cup {Null}]
    BY <1>1 DEF SubshellData, SavedValues
  <2> DEFINE at(i, n) == IF <<i, n>> \in DOMAIN sp.svar THEN sp.svar[<<i, n>>] ELSE tree[i][n]
             scope(i) == [n \in Name |-> at(i, n)]
  <2>3. tree' = [i \in DOMAIN tree |-> scope(i)]
    BY <1>2 DEF Restored
  <2>4. \A i \in DOMAIN tree : \A n \in Name : tree[i][n] \in Value \cup {Null, Absent}
    BY <2>1 DEF Scope
  <2>5. \A i \in DOMAIN tree : \A n \in Name : at(i, n) \in Value \cup {Null, Absent}
    BY <2>2, <2>4
  <2>6. \A n \in Name : at(1, n) # Absent
    BY <2>1, <2>2, SubshellAssumption DEF Null, Absent
  <2>7. \A i \in DOMAIN tree : scope(i) \in Scope
    <3> HIDE DEF at
    <3>1. QED
      BY <2>5 DEF Scope
  <2>8. \A n \in Name : scope(1)[n] = at(1, n)
    OBVIOUS
  <2> HIDE DEF scope, at
  <2>9. tree' \in Seq(Scope) /\ Len(tree') = Len(tree) /\ tree'[1] = scope(1)
    BY <2>1, <2>3, <2>7
  <2>10. tree' # <<>>
    BY <2>1, <2>9
  <2>11. QED
    BY <2>6, <2>8, <2>9, <2>10
<1>7. funs' \in Seq(FunTable) /\ funs' # <<>> /\ Cardinality(Tabs') < Len(funs')
  <2>1. funs \in Seq(FunTable) /\ Len(funs) \in Nat /\ Cardinality(Tabs) < Len(funs)
    BY DEF Typed, TypeOK, Counted
  <2>2. CASE funs' = funs
    <3>1. Cardinality(Tabs') < Len(funs)
      BY <2>1, LeaveTabs
    <3>2. funs # <<>>
      BY DEF Typed, TypeOK
    <3>3. QED
      BY <2>1, <2>2, <3>1, <3>2
  <2>3. CASE sp.sfun /\ funs' = SubSeq(funs, 1, Len(funs) - 1)
    <3>1. Cardinality(Tabs') < Len(funs) - 1 /\ Cardinality(Tabs') \in Nat
      BY <2>1, <2>3, LeaveTabs
    <3>2. funs' \in Seq(FunTable) /\ Len(funs') = Len(funs) - 1
      BY <2>1, <2>3, <3>1
    <3>3. funs' # <<>>
      BY <2>1, <3>1, <3>2
    <3>4. QED
      BY <3>1, <3>2, <3>3
  <2>4. QED
    BY <1>2, <2>2, <2>3
<1>8. Counted'
  BY <1>6, <1>7, LeaveShape DEF Counted, Typed
<1>9. \A i \in DOMAIN data' : IsSaved(data'[i])
  BY LeaveShape, ListIsTyped
<1>10. Subshell' <= Len(data')
  <2>1. Subshell' = Subshell - 1 /\ Len(data') = Len(data) - 1
    BY LeaveShape
  <2>2. Subshell <= Len(data) /\ Subshell \in Nat /\ Len(data) \in Nat
    BY CountsAreNumbers
  <2>3. QED
    BY <2>1, <2>2
<1> HIDE DEF sp, back
<1>11. QED
  BY <1>2, <1>4, <1>5, <1>6, <1>7, <1>8, <1>9, <1>10, LeaveShape DEF Typed, TypeOK

(* The descriptors that a child closes. *)
LEMMA ClearedType ==
    ASSUME Typed
    PROVE  /\ Cleared \in [Fd -> Dir \cup {Free}]
           /\ \A n \in Fd : Cleared[n] \in {fd[n], Free}
BY DEF Typed, TypeOK, Cleared

LEMMA TypedFork ==
    ASSUME Typed, Fork
    PROVE  Typed'
<1>1. /\ UNCHANGED <<ops, tree, funs, cwd, pwd, pwdfd, subshare, data>>
      /\ calls' = <<>> /\ fd' = Cleared /\ forks' = forks + 1 /\ forks < MaxFork
  BY DEF Fork
<1>2. calls' \in Seq(Frame) /\ Subs' = {} /\ Funs' = {}
  BY <1>1 DEF Subs, Funs, Positions
<1>3. Subshell' = 0 /\ Cardinality(Funs') = 0
  BY <1>2, FS_EmptySet DEF Subshell
<1>4. Tabs' = {} /\ Cardinality(Tabs') = 0
  BY <1>3, FS_EmptySet DEF Tabs
<1>5. Len(tree) >= 1 /\ Len(funs) >= 1 /\ Len(tree) \in Nat /\ Len(funs) \in Nat
  BY DEF Typed, TypeOK
<1>6. Counted'
  BY <1>1, <1>3, <1>4, <1>5 DEF Counted
<1>7. fd' \in [Fd -> Dir \cup {Free}] /\ forks' \in 0..MaxFork
  BY <1>1, ClearedType, SubshellAssumption DEF Typed, TypeOK
<1>8. Subshell' <= Len(data')
  BY <1>1, <1>3, CountsAreNumbers
<1>9. QED
  BY <1>1, <1>2, <1>6, <1>7, <1>8 DEF Typed, TypeOK

(* The child that was a subshell keeps the functions that run in it. *)
LEMMA SubforkShape ==
    ASSUME Typed, Subfork
    PROVE  /\ calls' \in Seq(Frame) /\ Subshell' = 0
           /\ Cardinality(Funs') <= Cardinality(Funs) /\ Cardinality(Funs') \in Nat
<1>1. /\ Virtual
      /\ calls' = SubSeq(calls, 1, (CHOOSE i \in Subs : \A j \in Subs : i <= j) - 1)
  BY DEF Subfork
<1>2. calls \in Seq(Frame) /\ Subs \in SUBSET Nat /\ Subs \subseteq 1..Len(calls)
  BY DEF Typed, TypeOK, Subs
<1>3. Subs # {}
  <2>1. Cardinality(Subs) > 0
    BY <1>1 DEF Virtual, Subshell
  <2>2. QED
    BY <2>1, FS_EmptySet
<1>4. PICK k \in Subs : \A j \in Subs : k <= j
  BY <1>2, <1>3, Least
<1>5. (CHOOSE i \in Subs : \A j \in Subs : i <= j) = k
  <2>1. \A i \in Subs : (\A j \in Subs : i <= j) => i = k
    BY <1>2, <1>4
  <2>2. QED
    BY <1>4, <2>1
<1>6. k \in 1..Len(calls) /\ calls' = SubSeq(calls, 1, k - 1)
  BY <1>1, <1>2, <1>5
<1>7. calls' \in Seq(Frame) /\ Len(calls') = k - 1 /\ \A i \in 1..k - 1 : calls'[i] = calls[i]
  BY <1>2, <1>6
<1>8. Subs' = {}
  <2>1. \A i \in 1..k - 1 : calls'[i] # "sub"
    BY <1>2, <1>4, <1>6, <1>7 DEF Subs
  <2>2. QED
    BY <1>6, <1>7, <2>1 DEF Subs
<1>9. Funs' \subseteq Funs
  BY <1>2, <1>6, <1>7 DEF Funs, Positions
<1>10. IsFiniteSet(Funs) /\ Cardinality(Funs) \in Nat
  BY <1>2, CountPush DEF Funs, Frame
<1>11. Cardinality(Funs') <= Cardinality(Funs) /\ Cardinality(Funs') \in Nat
  BY <1>9, <1>10, FS_Subset, FS_CardinalityType
<1>12. QED
  BY <1>7, <1>8, <1>11, FS_EmptySet DEF Subshell

LEMMA TypedSubfork ==
    ASSUME Typed, Subfork
    PROVE  Typed'
<1>1. /\ UNCHANGED <<ops, tree, funs, cwd, pwd, pwdfd, subshare>>
      /\ data' = <<>> /\ fd' = Cleared /\ forks' = forks + 1 /\ forks < MaxFork
  BY DEF Subfork
<1>2. Tabs' = {} /\ Cardinality(Tabs') = 0
  BY SubforkShape, FS_EmptySet DEF Tabs
<1>3. Counted'
  <2>1. Cardinality(Funs') < Len(tree)
    BY SubforkShape, CountsAreNumbers DEF Typed, TypeOK, Counted
  <2>2. Len(funs) >= 1 /\ Len(funs) \in Nat
    BY DEF Typed, TypeOK
  <2>3. QED
    BY <1>1, <1>2, <2>1, <2>2 DEF Counted
<1>4. fd' \in [Fd -> Dir \cup {Free}] /\ forks' \in 0..MaxFork
  BY <1>1, ClearedType, SubshellAssumption DEF Typed, TypeOK
<1>5. /\ data' \in Seq(SubshellData) /\ Subshell' <= Len(data')
      /\ \A i \in DOMAIN data' : IsSaved(data'[i])
  BY <1>1, SubforkShape
<1>6. QED
  BY <1>1, <1>3, <1>4, <1>5, SubforkShape DEF Typed, TypeOK

LEMMA TypedNext == Typed /\ [Next]_vars => Typed'
<1>1. SUFFICES ASSUME Typed, [Next]_vars
               PROVE  Typed'
  OBVIOUS
<1>2. CASE \E n \in Name : Unset(n) \/ \E v \in Value : Assign(n, v) \/ Typeset(n, v)
  BY <1>1, <1>2, TypedUnset, TypedVariables
<1>3. CASE \E f \in Function : UnsetFunction(f) \/ \E b \in Body : DefineFunction(f, b)
  BY <1>1, <1>3, TypedFunctions
<1>4. CASE \E d \in Dir : Cd(d)
  BY <1>1, <1>4, TypedCd
<1>5. CASE FunctionCall \/ FunctionReturn
  BY <1>1, <1>5, TypedCall, TypedReturn
<1>6. CASE \E share \in BOOLEAN : SubshellEnter(share)
  BY <1>1, <1>6, TypedEnter
<1>7. CASE SubshellLeave
  BY <1>1, <1>7, TypedLeave
<1>8. CASE Subfork \/ Fork
  BY <1>1, <1>8, TypedSubfork, TypedFork
<1>9. CASE UNCHANGED vars
  <2>1. /\ UNCHANGED <<ops, tree, funs, cwd, pwd, pwdfd, fd, subshare, calls, data, forks>>
        /\ Subshell' = Subshell /\ Funs' = Funs
    BY <1>9 DEF vars, Subshell, Subs, Funs, Positions
  <2>2. Tabs' = Tabs
    BY <2>1 DEF Tabs
  <2>3. QED
    BY <1>1, <2>1, <2>2 DEF Typed, TypeOK, Counted
<1>10. QED
  BY <1>1, <1>2, <1>3, <1>4, <1>5, <1>6, <1>7, <1>8, <1>9 DEF Next

LEMMA TypedInit == Init => Typed
<1>1. SUFFICES ASSUME Init
               PROVE  Typed
  OBVIOUS
<1>2. /\ ops \in Programs /\ tree = <<[n \in Name |-> Null]>>
      /\ funs = <<[f \in Function |-> Absent]>>
      /\ subshare = FALSE /\ calls = <<>> /\ data = <<>> /\ forks = 0
  BY <1>1 DEF Init
<1>3. cwd \in Dir /\ pwd \in Dir
  BY <1>1, SubshellAssumption DEF Init
<1>4. /\ tree \in Seq(Scope) /\ Len(tree) = 1 /\ tree # <<>>
      /\ \A n \in Name : tree[1][n] # Absent
  BY <1>2 DEF Scope, Null, Absent
<1>5. funs \in Seq(FunTable) /\ Len(funs) = 1 /\ funs # <<>>
  BY <1>2 DEF FunTable
<1>6. Subshell = 0 /\ Cardinality(Funs) = 0
  <2>1. Subs = {} /\ Funs = {}
    BY <1>2 DEF Subs, Funs, Positions
  <2>2. QED
    BY <2>1, FS_EmptySet DEF Subshell
<1>7. Tabs = {} /\ Cardinality(Tabs) = 0
  BY <1>6, FS_EmptySet DEF Tabs
<1>8. pwdfd \in Fd \cup {NoFd} /\ fd \in [Fd -> Dir \cup {Free}]
  <2>1. CASE pwdfd = NoFd /\ fd = [n \in Fd |-> Free]
    BY <2>1
  <2>2. CASE pwdfd = 1 /\ fd = [n \in Fd |-> IF n = 1 THEN cwd ELSE Free]
    BY <1>3, <2>2, SubshellAssumption DEF Fd
  <2>3. QED
    BY <1>1, <2>1, <2>2 DEF Init
<1>9. forks \in 0..MaxFork
  BY <1>2, SubshellAssumption
<1>10. Counted
  BY <1>4, <1>5, <1>6, <1>7 DEF Counted
<1>11. Subshell <= Len(data) /\ data \in Seq(SubshellData) /\ DOMAIN data = {}
  BY <1>2, <1>6
<1>12. calls \in Seq(Frame) /\ subshare \in BOOLEAN /\ ops \in Programs
  <2>1. subshare \in BOOLEAN
    BY <1>2, Zenon
  <2>2. QED
    BY <1>2, <2>1
<1>13. TypeOK
  BY <1>3, <1>4, <1>5, <1>8, <1>9, <1>11, <1>12 DEF TypeOK
<1>14. QED
  BY <1>10, <1>11, <1>13 DEF Typed

(* Every program, with whatever values for the bounds, keeps to the types: each
   subshell that runs has its record in subshell_data (sh/subshell.c:533), and the
   records have the fields that sh_subshell gives them. *)
THEOREM TypeCorrect == Spec => []TypeOK
<1>1. Typed => TypeOK
  BY DEF Typed
<1>2. QED
  BY <1>1, TypedInit, TypedNext, PTL DEF Spec

--------------------------------------------------------------------------------
(* Functions. *)

LEMMA LookupOfDummy ==
    ASSUME NEW tables \in Seq(FunTable), tables # <<>>, NEW f \in Function,
           tables[Len(tables)][f] = Dummy
    PROVE  Lookup(tables, f) = Absent
<1> DEFINE in == {i \in DOMAIN tables : tables[i][f] # Absent}
<1>1. Len(tables) \in in /\ \A i \in in : i \in Nat /\ i <= Len(tables)
  BY DEF Dummy, Absent
<1>2. \A i \in in : (\A j \in in : j <= i) => i = Len(tables)
  BY <1>1
<1> HIDE DEF in
<1>3. (CHOOSE i \in in : \A j \in in : j <= i) = Len(tables)
  BY <1>1, <1>2
<1>4. QED
  BY <1>3 DEF Lookup, in

LEMMA LookupOfSame ==
    ASSUME NEW tables \in Seq(FunTable), NEW others \in Seq(FunTable), NEW f \in Function,
           DOMAIN tables = DOMAIN others, \A i \in DOMAIN tables : tables[i][f] = others[i][f]
    PROVE  Lookup(tables, f) = Lookup(others, f)
<1> DEFINE in == {i \in DOMAIN tables : tables[i][f] # Absent}
           on == {i \in DOMAIN others : others[i][f] # Absent}
           last(S) == CHOOSE i \in S : \A j \in S : j <= i
<1>1. in = on
  OBVIOUS
<1>2. Lookup(tables, f) = IF in = {} \/ tables[last(in)][f] = Dummy THEN Absent
                          ELSE tables[last(in)][f]
  BY Zenon DEF Lookup
<1>3. Lookup(others, f) = IF on = {} \/ others[last(on)][f] = Dummy THEN Absent
                          ELSE others[last(on)][f]
  BY Zenon DEF Lookup
<1>4. in # {} => last(in) \in DOMAIN tables
  <2>1. in \in SUBSET (0..Len(tables)) /\ Len(tables) \in Nat /\ in \subseteq DOMAIN tables
    OBVIOUS
  <2> HIDE DEF in
  <2>2. in # {} => \E i \in in : \A j \in in : j <= i
    BY <2>1, Greatest
  <2>3. QED
    BY <2>1, <2>2
<1> HIDE DEF in, on, last
<1>5. QED
  BY <1>1, <1>2, <1>3, <1>4

LEMMA UnsetHides ==
    ASSUME Typed, NEW f \in Function, UnsetFunction(f)
    PROVE  Lookup(funs', f) = Absent
<1> DEFINE L == Len(Tables)
           table == [Tables[L] EXCEPT ![f] = Removed(Tables, f)]
<1>1. /\ Tables \in Seq(FunTable) /\ Tables # <<>> /\ L \in DOMAIN Tables /\ L \in Nat
      /\ L # 1 => L > 1
  <2>1. Tables \in Seq(FunTable) /\ Tables # <<>> /\ Len(Tables) \in Nat
    BY TablesType
  <2>2. Len(Tables) \in DOMAIN Tables /\ Len(Tables) >= 1
    BY <2>1
  <2>3. \A k \in Nat : k >= 1 /\ k # 1 => k > 1
    OBVIOUS
  <2>4. QED
    BY <2>1, <2>2, <2>3, Zenon
<1>2. Removed(Tables, f) \in {Absent, Dummy}
  BY DEF Removed
<1>3. table \in FunTable /\ table[f] = Removed(Tables, f)
  BY <1>1, <1>2 DEF FunTable
<1>4. funs' = [Tables EXCEPT ![L] = table]
  BY <1>1 DEF UnsetFunction
<1> HIDE DEF table, L
<1>5. /\ funs' \in Seq(FunTable) /\ Len(funs') = L /\ DOMAIN funs' = DOMAIN Tables
      /\ funs'[L] = table /\ \A i \in DOMAIN Tables : i # L => funs'[i] = Tables[i]
  BY <1>1, <1>3, <1>4 DEF L
<1>6. funs' # <<>>
  BY <1>1, <1>5
<1>7. CASE Removed(Tables, f) = Dummy
  BY <1>3, <1>5, <1>6, <1>7, LookupOfDummy
<1>8. CASE Removed(Tables, f) # Dummy /\ L = 1
  <2>1. \A i \in DOMAIN funs' : funs'[i][f] = Absent
    BY <1>1, <1>2, <1>3, <1>5, <1>8
  <2>2. QED
    BY <2>1 DEF Lookup
<1>9. CASE Removed(Tables, f) # Dummy /\ L # 1
  <2>1. L > 1
    BY <1>1, <1>9
  <2>2. Tables[L][f] = Absent /\ Lookup(Tables, f) = Absent
    BY <1>9, <2>1 DEF Removed, L
  <2>3. \A i \in DOMAIN funs' : funs'[i][f] = Tables[i][f]
    BY <1>2, <1>3, <1>5, <1>9, <2>2
  <2>4. QED
    BY <1>1, <1>5, <2>2, <2>3, LookupOfSame
<1>10. QED
  BY <1>7, <1>8, <1>9

(* unset -f makes a function unknown in any number of nested subshells and whatever
   tables they have made: the dummy that takes its place hides those further out
   (sh_subfuntree and the unset of functions in bltins/typeset.c). *)
THEOREM RemovalHides == Spec => FunctionsRemoved
<1>1. Typed => [\A f \in Function : UnsetFunction(f) => Lookup(funs', f) = Absent]_vars
  BY UnsetHides
<1>2. QED
  BY <1>1, TypedInit, TypedNext, PTL DEF Spec, FunctionsRemoved

--------------------------------------------------------------------------------
(* The working directory. *)

LEMMA LevelFacts ==
    ASSUME Typed
    PROVE  /\ Subshell \in Nat /\ Levels \subseteq 1..Subshell
           /\ \A i \in 1..Subshell :
                 /\ i \in DOMAIN data /\ i \in Nat /\ i >= 1
                 /\ data[i].pwd \in Dir /\ data[i].pwdfd \in Fd \cup {NoFd}
                 /\ data[i].subshare \in BOOLEAN
           /\ pwdfd \in Fd \cup {NoFd} /\ NoFd \notin Fd /\ Free \notin Dir
           /\ fd \in [Fd -> Dir \cup {Free}] /\ Fd \in SUBSET Nat /\ cwd \in Dir
<1>1. Subshell \in Nat /\ Subshell <= Len(data) /\ Len(data) \in Nat
  BY CountsAreNumbers
<1>2. \A i \in 1..Subshell : i \in DOMAIN data /\ i \in Nat /\ i >= 1
  BY <1>1 DEF Typed
<1>3. \A i \in DOMAIN data : data[i] \in SubshellData
  BY DEF Typed
<1>4. \A i \in DOMAIN data : /\ data[i].pwd \in Dir /\ data[i].pwdfd \in Fd \cup {NoFd}
                              /\ data[i].subshare \in BOOLEAN
  BY <1>3 DEF SubshellData
<1>5. NoFd \notin Fd /\ Fd \in SUBSET Nat
  BY SubshellAssumption DEF NoFd, Fd
<1>6. Free \notin Dir
  BY SubshellAssumption
<1>7. Levels \subseteq 1..Subshell
  BY DEF Levels
<1>8. pwdfd \in Fd \cup {NoFd} /\ fd \in [Fd -> Dir \cup {Free}] /\ cwd \in Dir
  BY DEF Typed, TypeOK
<1>9. QED
  BY <1>1, <1>2, <1>4, <1>5, <1>6, <1>7, <1>8

(* Outside of a virtual subshell no shell waits in this process. *)
LEMMA NoLevels ==
    ASSUME Typed, SharedOuter, ~ Virtual
    PROVE  Levels = {}
<1>1. CASE Subshell = 0
  BY <1>1 DEF Levels
<1>2. CASE Subshell > 0 /\ subshare
  <2>1. 1 \in 1..Subshell /\ IsShared(1)
    BY <1>2, LevelFacts DEF IsShared
  <2>2. \A j \in 1..Subshell : IsShared(j)
    <3>1. SUFFICES ASSUME NEW j \in 1..Subshell
                   PROVE  IsShared(j)
      OBVIOUS
    <3>2. j = 1 \/ 1 < j
      BY LevelFacts
    <3>3. QED
      BY <2>1, <3>2 DEF SharedOuter
  <2>3. QED
    BY <2>2 DEF Levels
<1>3. Subshell = 0 \/ (Subshell > 0 /\ subshare)
  BY LevelFacts DEF Virtual
<1>4. QED
  BY <1>1, <1>2, <1>3

LEMMA FirstLevel ==
    ASSUME Typed, Virtual
    PROVE  1 \in Levels /\ 1 \in 1..Subshell
<1>1. Subshell \in Nat /\ Subshell > 0 /\ ~ subshare
  BY LevelFacts DEF Virtual
<1>2. QED
  BY <1>1 DEF Levels, IsShared

(* Where no shell waits, little is left to say. *)
LEMMA HeldAlone ==
    ASSUME Levels = {}, Fresh, SharedOuter, SharedHasNone, pwd = cwd,
           pwdfd # NoFd => fd[pwdfd] = cwd, \A n \in Fd : fd[n] \in Dir => n = pwdfd
    PROVE  Held
<1>1. Shells = {0}
  BY DEF Shells
<1>2. Contiguous /\ NoneOutside
  BY <1>1 DEF Contiguous, NoneOutside
<1>3. PwdHeld /\ NoneLeaked
  BY DEF PwdHeld, NoneLeaked
<1>4. QED
  BY <1>2, <1>3 DEF Held

LEMMA HeldUnchanged ==
    ASSUME Typed, Held, UNCHANGED <<cwd, pwd, pwdfd, fd, subshare, forks>>,
           Subshell' = Subshell, Len(data') = Len(data),
           \A i \in DOMAIN data :
              /\ data'[i].pwd = data[i].pwd /\ data'[i].pwdfd = data[i].pwdfd
              /\ data'[i].subshare = data[i].subshare
    PROVE  Held'
<1>1. \A i \in 1..Subshell :
         /\ data'[i].pwd = data[i].pwd /\ data'[i].pwdfd = data[i].pwdfd
         /\ data'[i].subshare = data[i].subshare
  BY LevelFacts
<1>2. \A i \in 1..Subshell : IsShared(i)' = IsShared(i)
  <2>1. SUFFICES ASSUME NEW i \in 1..Subshell
                 PROVE  IsShared(i)' = IsShared(i)
    OBVIOUS
  <2>2. i # 1 => i - 1 \in 1..Subshell
    BY LevelFacts
  <2>3. QED
    BY <1>1, <2>2 DEF IsShared
<1>3. Levels' = Levels /\ Shells' = Shells
  BY <1>2 DEF Levels, Shells
<1>4. \A i \in Shells : At(i)' = At(i)
  BY <1>1, LevelFacts DEF Shells, At
<1>5. Fresh' /\ SharedOuter' /\ SharedHasNone'
  BY <1>1, <1>2 DEF Held, Fresh, SharedOuter, SharedHasNone
<1>6. Contiguous'
  BY <1>3, <1>4 DEF Held, Contiguous
<1>7. NoneOutside'
  <2>1. SUFFICES ASSUME NEW i \in Shells, NEW j \in Shells, i < j, At(j) = NoFd
                 PROVE  At(i) = NoFd /\ data'[j].pwd = cwd
    BY <1>3, <1>4 DEF NoneOutside
  <2>2. j \in 1..Subshell
    BY <2>1, LevelFacts DEF Shells
  <2>3. QED
    BY <1>1, <2>1, <2>2 DEF Held, NoneOutside
<1>8. PwdHeld' /\ NoneLeaked'
  BY <1>1, <1>3, LevelFacts DEF Held, PwdHeld, NoneLeaked
<1>9. QED
  BY <1>5, <1>6, <1>7, <1>8 DEF Held

(* cd opens the new directory where no shell has one, and closes the old one unless
   the innermost subshell, and so any further out, needs it. *)
LEMMA HeldCd ==
    ASSUME Typed, Held, NEW d \in Dir, Cd(d)
    PROVE  Held'
<1> DEFINE n == NewFd
<1>1. n \in Fd /\ fd[n] = Free /\ n # NoFd
  BY NewFdType, LevelFacts DEF Cd
<1>2. /\ Virtual => data[1].pwdfd # NoFd
      /\ pwdfd' = n /\ cwd' = d /\ pwd' = d
      /\ UNCHANGED <<subshare, calls, data, forks>>
  BY DEF Cd
<1>3. \A m \in Fd : fd'[m] = IF m = pwdfd /\ ~ Needed THEN Free ELSE IF m = n THEN d ELSE fd[m]
  <2>1. fd' = PwdUpdate([fd EXCEPT ![n] = d])
    BY DEF Cd
  <2> HIDE DEF n
  <2>2. QED
    BY <1>1, <2>1, LevelFacts DEF PwdUpdate
<1> HIDE DEF n
<1>4. n # pwdfd /\ \A i \in Levels : n # data[i].pwdfd
  BY <1>1, LevelFacts DEF Held, PwdHeld
<1>5. Subshell' = Subshell /\ Levels' = Levels /\ Shells' = Shells
  BY <1>2 DEF Subshell, Subs, Levels, IsShared, Shells
<1>6. Fresh' /\ SharedOuter' /\ SharedHasNone'
  BY <1>2, <1>5 DEF Held, Fresh, SharedOuter, SharedHasNone, IsShared
<1>7. fd'[n] = d
  BY <1>1, <1>3, <1>4
<1>8. CASE ~ Virtual
  <2>1. Levels' = {}
    BY <1>5, <1>8, NoLevels DEF Held
  <2>2. \A m \in Fd : fd'[m] \in Dir => m = n
    <3>1. \A m \in Fd : fd[m] \in Dir => m = pwdfd
      BY <1>5, <2>1 DEF Held, NoneLeaked
    <3>2. ~ Needed
      BY <1>8 DEF Needed
    <3>3. QED
      BY <1>3, <3>1, <3>2, LevelFacts
  <2>3. Levels' = {} /\ Fresh' /\ SharedOuter' /\ SharedHasNone' /\ pwd' = cwd'
    BY <1>2, <1>6, <2>1
  <2>4. /\ pwdfd' # NoFd => fd'[pwdfd'] = cwd'
        /\ \A m \in Fd : fd'[m] \in Dir => m = pwdfd'
    BY <1>2, <1>7, <2>2
  <2>5. Shells' = {0}
    BY <2>1 DEF Shells
  <2>6. Contiguous' /\ NoneOutside'
    BY <2>5 DEF Contiguous, NoneOutside
  <2>7. PwdHeld' /\ NoneLeaked'
    BY <2>3, <2>4 DEF PwdHeld, NoneLeaked
  <2>8. QED
    BY <1>6, <2>6, <2>7 DEF Held
<1>9. CASE Virtual
  <2>1. 1 \in Levels /\ data[1].pwdfd # NoFd
    BY <1>2, <1>9, FirstLevel
  <2>2. \A j \in Levels : data[j].pwdfd # NoFd /\ j \in 1..Subshell /\ j \in Nat /\ j >= 1
    <3>1. SUFFICES ASSUME NEW j \in Levels, data[j].pwdfd = NoFd
                   PROVE  FALSE
      BY LevelFacts
    <3>2. j = 1 \/ 1 < j
      BY LevelFacts
    <3>3. At(j) = NoFd /\ At(1) = data[1].pwdfd
      BY <3>1, LevelFacts DEF At
    <3>4. QED
      BY <2>1, <3>1, <3>2, <3>3 DEF Held, NoneOutside, Shells
  <2>3. At(0)' = n /\ \A i \in Levels : At(i)' = At(i) /\ At(i) = data[i].pwdfd
    BY <1>2, <2>2 DEF At
  <2>4. Contiguous'
    <3>1. SUFFICES ASSUME NEW i \in Shells, NEW j \in Shells, NEW k \in Shells,
                          i <= j, j <= k, At(i)' = At(k)', At(i)' # NoFd
                   PROVE  At(j)' = At(i)'
      BY <1>5 DEF Contiguous
    <3>2. CASE i = 0
      <4>1. k = 0
        BY <1>4, <2>3, <3>1, <3>2 DEF Shells
      <4>2. QED
        BY <2>2, <3>1, <3>2, <4>1 DEF Shells
    <3>3. CASE i \in Levels
      <4>1. j \in Levels /\ k \in Levels
        BY <2>2, <3>1, <3>3 DEF Shells
      <4>2. QED
        BY <2>3, <3>1, <3>3, <4>1 DEF Held, Contiguous
    <3>4. QED
      BY <3>2, <3>3 DEF Shells
  <2>5. NoneOutside'
    <3>1. \A j \in Shells : At(j)' # NoFd
      BY <1>1, <2>2, <2>3 DEF Shells
    <3>2. QED
      BY <1>5, <3>1 DEF NoneOutside
  <2>6. \A i \in Levels : data[i].pwdfd = pwdfd => Needed
    <3>1. SUFFICES ASSUME NEW i \in Levels, data[i].pwdfd = pwdfd
                   PROVE  data[1].pwdfd = pwdfd
      BY <1>9 DEF Needed
    <3>2. /\ At(0) = At(i) /\ At(0) # NoFd /\ At(0) = pwdfd /\ At(1) = data[1].pwdfd
          /\ 0 <= 1 /\ 1 <= i
      BY <2>1, <2>2, <3>1 DEF At
    <3>3. At(1) = At(0)
      BY <2>1, <3>2 DEF Held, Contiguous, Shells
    <3>4. QED
      BY <3>2, <3>3
  <2>7. PwdHeld'
    <3>1. \A i \in Levels : fd[data[i].pwdfd] = data[i].pwd /\ data[i].pwdfd \in Fd
      BY <2>2, LevelFacts DEF Held, PwdHeld
    <3>2. \A i \in Levels : fd'[data[i].pwdfd] = data[i].pwd
      BY <1>3, <1>4, <2>6, <3>1
    <3>3. QED
      BY <1>2, <1>5, <1>7, <3>2 DEF PwdHeld
  <2>8. NoneLeaked'
    <3>1. SUFFICES ASSUME NEW m \in Fd, fd'[m] \in Dir, m # n
                   PROVE  \E i \in Levels : m = data[i].pwdfd
      BY <1>2, <1>5 DEF NoneLeaked
    <3>2. fd[m] \in Dir /\ (m = pwdfd => Needed)
      BY <1>3, <3>1, LevelFacts
    <3>3. Needed => pwdfd = data[1].pwdfd
      BY DEF Needed
    <3>4. QED
      BY <2>1, <3>2, <3>3 DEF Held, NoneLeaked
  <2>9. QED
    BY <1>6, <2>4, <2>5, <2>7, <2>8 DEF Held
<1>10. QED
  BY <1>8, <1>9

(* A subshell that begins has the directory of the shell around it, whose level
   and the others move out by one. *)
LEMMA HeldEnter ==
    ASSUME Typed, Held, NEW share \in BOOLEAN, SubshellEnter(share)
    PROVE  Held'
<1>1. /\ share => ~ Virtual
      /\ subshare' = share /\ UNCHANGED <<cwd, pwd, pwdfd, fd, forks>>
  BY DEF SubshellEnter
<1>2. /\ Subshell \in Nat /\ Subshell' = Subshell + 1 /\ Len(data') = Len(data) + 1
      /\ data'[1].pwd = pwd /\ data'[1].subshare = subshare
      /\ data'[1].pwdfd = IF share THEN NoFd ELSE pwdfd
      /\ \A i \in 1..Subshell : data'[i + 1] = data[i]
  BY EnterShape, LevelFacts
<1>3. /\ IsShared(1)' = share
      /\ \A i \in 1..Subshell : IsShared(i + 1)' = IsShared(i)
  <2>1. IsShared(1)' = share
    BY <1>1 DEF IsShared
  <2>2. ASSUME NEW i \in 1..Subshell
        PROVE  IsShared(i + 1)' = IsShared(i)
    <3>1. i \in Nat /\ i >= 1 /\ i + 1 # 1 /\ (i + 1) - 1 = i
      BY LevelFacts
    <3>2. IsShared(i + 1)' = data'[i].subshare
      BY <3>1 DEF IsShared
    <3>3. i # 1 => i - 1 \in 1..Subshell /\ (i - 1) + 1 = i
      BY <1>2, <3>1
    <3>4. QED
      BY <1>2, <3>2, <3>3 DEF IsShared
  <2>3. QED
    BY <2>1, <2>2
<1>4. \A j \in 1..Subshell' : j = 1 \/ (j - 1 \in 1..Subshell /\ j = (j - 1) + 1)
  BY <1>2
<1>5. Fresh'
  BY <1>1, <1>2, CountsAreNumbers DEF Held, Fresh
<1>6. share => Levels = {}
  BY <1>1, NoLevels DEF Held
<1>7. SharedOuter'
  <2>1. SUFFICES ASSUME NEW i \in 1..Subshell', NEW j \in 1..Subshell', i < j, IsShared(i)'
                 PROVE  IsShared(j)'
    BY DEF SharedOuter
  <2>2. j - 1 \in 1..Subshell /\ IsShared(j)' = IsShared(j - 1) /\ i \in Nat /\ j \in Nat
    BY <1>2, <1>3, <1>4, <2>1
  <2>3. CASE i = 1
    BY <1>3, <1>6, <2>1, <2>2, <2>3 DEF Levels
  <2>4. CASE i # 1
    <3>1. i - 1 \in 1..Subshell /\ i = (i - 1) + 1
      BY <1>4, <2>1, <2>4
    <3>2. IsShared(i - 1)
      BY <1>3, <2>1, <3>1
    <3>3. i - 1 < j - 1
      BY <2>1, <2>2
    <3>4. QED
      BY <2>2, <3>1, <3>2, <3>3 DEF Held, SharedOuter
  <2>5. QED
    BY <2>3, <2>4
<1>8. SharedHasNone'
  <2>1. SUFFICES ASSUME NEW i \in 1..Subshell', IsShared(i)'
                 PROVE  data'[i].pwdfd = NoFd
    BY DEF SharedHasNone
  <2>2. CASE i = 1
    BY <1>2, <1>3, <2>1, <2>2
  <2>3. CASE i # 1
    <3>1. i - 1 \in 1..Subshell /\ IsShared(i - 1) /\ data'[i] = data[i - 1]
      BY <1>2, <1>3, <1>4, <2>1, <2>3
    <3>2. QED
      BY <3>1 DEF Held, SharedHasNone
  <2>4. QED
    BY <2>2, <2>3
<1>9. CASE share
  <2>1. \A j \in 1..Subshell' : IsShared(j)'
    <3>1. SUFFICES ASSUME NEW j \in 1..Subshell'
                   PROVE  IsShared(j)'
      OBVIOUS
    <3>2. CASE j = 1
      BY <1>3, <1>9, <3>2
    <3>3. CASE j # 1
      BY <1>3, <1>4, <1>6, <1>9, <3>3 DEF Levels
    <3>4. QED
      BY <3>2, <3>3
  <2>2. Levels' = {}
    BY <2>1 DEF Levels
  <2>3. Shells' = {0}
    BY <2>2 DEF Shells
  <2>4. Contiguous' /\ NoneOutside'
    BY <2>3 DEF Contiguous, NoneOutside
  <2>5. PwdHeld' /\ NoneLeaked'
    BY <1>1, <1>6, <1>9, <2>2 DEF Held, PwdHeld, NoneLeaked
  <2>6. QED
    BY <1>5, <1>7, <1>8, <2>4, <2>5 DEF Held
<1>10. CASE ~ share
  <2> DEFINE outer(i) == IF i = 0 THEN 0 ELSE i - 1
  <2>1. 1 \in Levels' /\ \A i \in Levels : i + 1 \in Levels'
    BY <1>2, <1>3, <1>10 DEF Levels
  <2>2. \A i \in Levels' : i = 1 \/ (i - 1 \in Levels /\ i = (i - 1) + 1)
    BY <1>3, <1>4 DEF Levels
  <2>3. \A i \in Shells' : /\ outer(i) \in Shells /\ i \in Nat /\ outer(i) \in Nat
                            /\ At(i)' = At(outer(i))
    <3>1. SUFFICES ASSUME NEW i \in Shells'
                   PROVE  /\ outer(i) \in Shells /\ i \in Nat /\ outer(i) \in Nat
                          /\ At(i)' = At(outer(i))
      OBVIOUS
    <3>2. CASE i = 0
      BY <1>1, <3>2 DEF At, Shells
    <3>3. CASE i = 1
      BY <1>1, <1>2, <1>10, <3>3 DEF At, Shells
    <3>4. CASE i # 0 /\ i # 1
      <4>1. i - 1 \in Levels /\ i = (i - 1) + 1
        BY <2>2, <3>1, <3>4 DEF Shells
      <4>2. i - 1 \in 1..Subshell /\ i - 1 \in Nat /\ i - 1 >= 1
        BY <4>1, LevelFacts
      <4>3. data'[i] = data[i - 1]
        BY <1>2, <4>1, <4>2
      <4>4. At(i)' = data'[i].pwdfd /\ At(i - 1) = data[i - 1].pwdfd
        BY <3>4, <4>2 DEF At
      <4>5. QED
        BY <3>4, <4>1, <4>2, <4>3, <4>4 DEF Shells
    <3>5. QED
      BY <3>2, <3>3, <3>4
  <2>4. Contiguous'
    <3>1. SUFFICES ASSUME NEW i \in Shells', NEW j \in Shells', NEW k \in Shells',
                          i <= j, j <= k, At(i)' = At(k)', At(i)' # NoFd
                   PROVE  At(j)' = At(i)'
      BY DEF Contiguous
    <3>2. outer(i) <= outer(j) /\ outer(j) <= outer(k)
      BY <2>3, <3>1
    <3> HIDE DEF outer
    <3>3. QED
      BY <2>3, <3>1, <3>2 DEF Held, Contiguous
  <2>5. NoneOutside'
    <3>1. SUFFICES ASSUME NEW i \in Shells', NEW j \in Shells', i < j, At(j)' = NoFd
                   PROVE  At(i)' = NoFd /\ data'[j].pwd = cwd
      BY <1>1 DEF NoneOutside
    <3>2. CASE j = 1
      <4>1. i = 0 /\ outer(i) = outer(j)
        BY <2>3, <3>1, <3>2
      <4>2. QED
        BY <1>2, <2>3, <3>1, <3>2, <4>1 DEF Held, PwdHeld
    <3>3. CASE j # 1
      <4>1. j \in Nat /\ j # 0 /\ i \in Nat
        BY <2>3, <3>1
      <4>2. j - 1 \in Levels /\ j = (j - 1) + 1
        BY <2>2, <3>1, <3>3, <4>1 DEF Shells
      <4>3. data'[j] = data[j - 1]
        BY <1>2, <4>2, LevelFacts
      <4>4. outer(i) < outer(j) /\ outer(j) = j - 1
        BY <3>1, <3>3, <4>1
      <4> HIDE DEF outer
      <4>5. At(outer(i)) = NoFd /\ data[outer(j)].pwd = cwd
        BY <2>3, <3>1, <4>4 DEF Held, NoneOutside
      <4>6. QED
        BY <2>3, <3>1, <4>3, <4>4, <4>5
    <3>4. QED
      BY <3>2, <3>3
  <2>6. PwdHeld'
    <3>1. SUFFICES ASSUME NEW i \in Levels', data'[i].pwdfd # NoFd
                   PROVE  fd[data'[i].pwdfd] = data'[i].pwd
      BY <1>1 DEF Held, PwdHeld
    <3>2. CASE i = 1
      BY <1>2, <1>10, <3>1, <3>2 DEF Held, PwdHeld
    <3>3. CASE i # 1
      <4>1. i - 1 \in Levels /\ data'[i] = data[i - 1]
        BY <1>2, <2>2, <3>1, <3>3, LevelFacts
      <4>2. QED
        BY <3>1, <4>1 DEF Held, PwdHeld
    <3>4. QED
      BY <3>2, <3>3
  <2>7. NoneLeaked'
    <3>1. SUFFICES ASSUME NEW m \in Fd, fd[m] \in Dir, m # pwdfd
                   PROVE  \E i \in Levels' : m = data'[i].pwdfd
      BY <1>1 DEF NoneLeaked
    <3>2. PICK i \in Levels : m = data[i].pwdfd
      BY <3>1 DEF Held, NoneLeaked
    <3>3. i + 1 \in Levels' /\ data'[i + 1] = data[i]
      BY <1>2, <2>1, <3>2, LevelFacts
    <3>4. QED
      BY <3>2, <3>3
  <2>8. QED
    BY <1>5, <1>7, <1>8, <2>4, <2>5, <2>6, <2>7 DEF Held
<1>11. QED
  BY <1>9, <1>10

(* A subshell that ends goes back to the directory of the shell around it, and
   closes its own descriptor unless that is the same. *)
LEMMA HeldLeave ==
    ASSUME Typed, Held, SubshellLeave
    PROVE  Held'
<1> DEFINE sp == data[1]
           back == ~ subshare /\ pwdfd # sp.pwdfd
<1>1. /\ cwd' = IF back THEN fd[sp.pwdfd] ELSE cwd
      /\ fd' = IF back THEN PwdUpdate(fd) ELSE fd
      /\ subshare => UNCHANGED <<pwd, pwdfd>>
      /\ ~ subshare => pwd' = sp.pwd /\ pwdfd' = sp.pwdfd
      /\ subshare' = sp.subshare /\ forks' = forks
  BY DEF SubshellLeave
<1>2. /\ Subshell >= 1 /\ Subshell' = Subshell - 1 /\ Len(data') = Len(data) - 1
      /\ Subshell \in Nat /\ Subshell' \in Nat
  BY LeaveShape, LevelFacts
<1>3. \A i \in 1..Subshell' : i \in Nat /\ i >= 1 /\ i + 1 \in 1..Subshell /\ data'[i] = data[i + 1]
  <2>1. Subshell <= Len(data) /\ Len(data) \in Nat
    BY CountsAreNumbers
  <2>2. DOMAIN data' = 1..Len(data) - 1
    BY <1>2, LeaveShape
  <2>3. \A i \in 1..Subshell' : i \in DOMAIN data'
    BY <1>2, <2>1, <2>2
  <2>4. \A i \in 1..Subshell' : i \in Nat /\ i >= 1 /\ i + 1 \in 1..Subshell
    BY <1>2
  <2>5. QED
    BY <2>3, <2>4, LeaveShape
<1>4. \A i \in 1..Subshell : i = 1 \/ (i - 1 \in 1..Subshell' /\ i = (i - 1) + 1)
  BY <1>2
<1>5. \A i \in 1..Subshell' : IsShared(i)' = IsShared(i + 1)
  <2>1. SUFFICES ASSUME NEW i \in 1..Subshell'
                 PROVE  IsShared(i)' = IsShared(i + 1)
    OBVIOUS
  <2>2. i \in Nat /\ i >= 1 /\ i + 1 # 1 /\ (i + 1) - 1 = i
    BY <1>3
  <2>3. IsShared(i + 1) = data[i].subshare
    BY <2>2 DEF IsShared
  <2>4. CASE i = 1
    BY <1>1, <2>3, <2>4 DEF IsShared
  <2>5. CASE i # 1
    <3>1. i - 1 \in 1..Subshell' /\ (i - 1) + 1 = i
      BY <1>2, <2>2, <2>5
    <3>2. data'[i - 1] = data[i]
      BY <1>3, <3>1
    <3>3. QED
      BY <2>3, <2>5, <3>2 DEF IsShared
  <2>6. QED
    BY <2>4, <2>5
<1>6. \A i \in Levels' : i + 1 \in Levels /\ i \in 1..Subshell' /\ data'[i] = data[i + 1]
  BY <1>3, <1>5 DEF Levels
<1>7. \A i \in Levels : i = 1 \/ (i - 1 \in Levels' /\ i = (i - 1) + 1 /\ data'[i - 1] = data[i])
  <2>1. SUFFICES ASSUME NEW i \in Levels, i # 1
                 PROVE  i - 1 \in Levels' /\ i = (i - 1) + 1 /\ data'[i - 1] = data[i]
    OBVIOUS
  <2>2. i - 1 \in 1..Subshell' /\ i = (i - 1) + 1
    BY <1>4, <2>1, LevelFacts
  <2>3. IsShared(i - 1)' = IsShared(i) /\ data'[i - 1] = data[i]
    BY <1>3, <1>5, <2>2
  <2>4. QED
    BY <2>1, <2>2, <2>3 DEF Levels
<1>8. Fresh'
  BY <1>1, <1>2, CountsAreNumbers DEF Held, Fresh
<1>9. SharedOuter'
  <2>1. SUFFICES ASSUME NEW i \in 1..Subshell', NEW j \in 1..Subshell', i < j, IsShared(i)'
                 PROVE  IsShared(j)'
    BY DEF SharedOuter
  <2>2. /\ i + 1 \in 1..Subshell /\ j + 1 \in 1..Subshell /\ i + 1 < j + 1
        /\ IsShared(i + 1) /\ IsShared(j)' = IsShared(j + 1)
    BY <1>3, <1>5, <2>1
  <2>3. QED
    BY <2>2 DEF Held, SharedOuter
<1>10. SharedHasNone'
  BY <1>3, <1>5 DEF Held, SharedHasNone
<1>11. CASE subshare
  <2>1. Levels = {}
    BY <1>11, NoLevels DEF Held, Virtual
  <2>2. Levels' = {}
    BY <1>6, <2>1
  <2>3. UNCHANGED <<cwd, pwd, pwdfd, fd>>
    BY <1>1, <1>11
  <2>4. Shells' = {0}
    BY <2>2 DEF Shells
  <2>5. Contiguous' /\ NoneOutside'
    BY <2>4 DEF Contiguous, NoneOutside
  <2>6. PwdHeld' /\ NoneLeaked'
    BY <2>1, <2>2, <2>3 DEF Held, PwdHeld, NoneLeaked
  <2>7. QED
    BY <1>8, <1>9, <1>10, <2>5, <2>6 DEF Held
<1>12. CASE ~ subshare
  <2>1. 1 \in Levels /\ 1 \in 1..Subshell
    BY <1>2, <1>12, FirstLevel DEF Virtual
  <2>2. At(0) = pwdfd /\ At(1) = sp.pwdfd /\ At(0)' = sp.pwdfd
    BY <1>1, <1>12 DEF At
  <2>3. \A i \in Shells' : /\ i + 1 \in Shells /\ i + 1 \in Levels /\ i \in Nat
                            /\ At(i)' = At(i + 1)
    <3>1. SUFFICES ASSUME NEW i \in Shells'
                   PROVE  /\ i + 1 \in Shells /\ i + 1 \in Levels /\ i \in Nat
                          /\ At(i)' = At(i + 1)
      OBVIOUS
    <3>2. CASE i = 0
      BY <2>1, <2>2, <3>2 DEF Shells
    <3>3. CASE i \in Levels'
      <4>1. i \in Nat /\ i >= 1 /\ i + 1 \in Levels /\ data'[i] = data[i + 1]
        BY <1>3, <1>6, <3>3
      <4>2. At(i)' = data'[i].pwdfd /\ At(i + 1) = data[i + 1].pwdfd
        BY <4>1 DEF At
      <4>3. QED
        BY <4>1, <4>2 DEF Shells
    <3>4. QED
      BY <3>1, <3>2, <3>3 DEF Shells
  <2>4. sp.pwdfd = NoFd => pwdfd = NoFd /\ sp.pwd = cwd
    BY <2>1, <2>2 DEF Held, NoneOutside, Shells
  <2>5. cwd' = sp.pwd
    <3>1. CASE pwdfd # sp.pwdfd
      <4>1. sp.pwdfd # NoFd /\ cwd' = fd[sp.pwdfd]
        BY <1>1, <1>12, <2>4, <3>1
      <4>2. QED
        BY <2>1, <4>1 DEF Held, PwdHeld
    <3>2. CASE pwdfd = sp.pwdfd
      <4>1. cwd' = cwd
        BY <1>1, <3>2
      <4>2. CASE pwdfd = NoFd
        BY <2>4, <3>2, <4>1, <4>2
      <4>3. CASE pwdfd # NoFd
        BY <2>1, <3>2, <4>1, <4>3 DEF Held, PwdHeld
      <4>4. QED
        BY <4>2, <4>3
    <3>3. QED
      BY <3>1, <3>2
  <2>6. \A m \in Fd : fd'[m] = IF m = pwdfd /\ m # sp.pwdfd THEN Free ELSE fd[m]
    <3>1. CASE pwdfd # sp.pwdfd
      <4>1. ~ Needed /\ fd' = PwdUpdate(fd)
        BY <1>1, <1>12, <3>1 DEF Needed
      <4>2. QED
        BY <3>1, <4>1 DEF PwdUpdate
    <3>2. CASE pwdfd = sp.pwdfd
      BY <1>1, <3>2
    <3>3. QED
      BY <3>1, <3>2
  <2>7. Contiguous'
    <3>1. SUFFICES ASSUME NEW i \in Shells', NEW j \in Shells', NEW k \in Shells',
                          i <= j, j <= k, At(i)' = At(k)', At(i)' # NoFd
                   PROVE  At(j)' = At(i)'
      BY DEF Contiguous
    <3>2. i + 1 <= j + 1 /\ j + 1 <= k + 1
      BY <2>3, <3>1
    <3>3. QED
      BY <2>3, <3>1, <3>2 DEF Held, Contiguous
  <2>8. NoneOutside'
    <3>1. SUFFICES ASSUME NEW i \in Shells', NEW j \in Shells', i < j, At(j)' = NoFd
                   PROVE  At(i)' = NoFd /\ data'[j].pwd = cwd'
      BY DEF NoneOutside
    <3>2. i \in Nat /\ j \in Nat /\ i + 1 < j + 1 /\ 0 < j + 1 /\ 1 < j + 1
      BY <2>3, <3>1
    <3>3. At(i + 1) = NoFd /\ data[j + 1].pwd = cwd
      BY <2>3, <3>1, <3>2 DEF Held, NoneOutside
    <3>4. At(0) = NoFd /\ At(1) = NoFd
      BY <2>1, <2>3, <3>1, <3>2 DEF Held, NoneOutside, Shells
    <3>5. cwd' = cwd
      BY <1>1, <2>2, <3>4
    <3>6. data'[j] = data[j + 1]
      BY <1>6, <3>1, <3>2 DEF Shells
    <3>7. QED
      BY <2>3, <3>1, <3>3, <3>5, <3>6
  <2>9. PwdHeld'
    <3>1. pwd' = cwd' /\ pwdfd' = sp.pwdfd
      BY <1>1, <1>12, <2>5
    <3>2. sp.pwdfd # NoFd => fd'[sp.pwdfd] = cwd'
      <4>1. sp.pwdfd # NoFd => sp.pwdfd \in Fd /\ fd[sp.pwdfd] = sp.pwd
        BY <2>1, LevelFacts DEF Held, PwdHeld
      <4>2. QED
        BY <2>5, <2>6, <4>1
    <3>3. ASSUME NEW i \in Levels', data'[i].pwdfd # NoFd
          PROVE  fd'[data'[i].pwdfd] = data'[i].pwd
      <4>1. i + 1 \in Levels /\ data'[i] = data[i + 1] /\ i \in Nat /\ i >= 1
        BY <1>3, <1>6, <3>3
      <4>2. data[i + 1].pwdfd \in Fd /\ fd[data[i + 1].pwdfd] = data[i + 1].pwd
        BY <3>3, <4>1, LevelFacts DEF Held, PwdHeld
      <4>3. data[i + 1].pwdfd = pwdfd => pwdfd = sp.pwdfd
        <5>1. At(i + 1) = data[i + 1].pwdfd /\ 0 <= 1 /\ 1 <= i + 1
          BY <4>1 DEF At
        <5>2. i + 1 \in Shells /\ 0 \in Shells /\ 1 \in Shells
          BY <2>1, <4>1 DEF Shells
        <5>3. At(i + 1) = At(0) => At(1) = At(0)
          BY <3>3, <4>1, <5>1, <5>2 DEF Held, Contiguous
        <5>4. QED
          BY <2>2, <5>1, <5>3
      <4>4. QED
        BY <2>6, <4>1, <4>2, <4>3
    <3>4. QED
      BY <3>1, <3>2, <3>3 DEF PwdHeld
  <2>10. NoneLeaked'
    <3>1. SUFFICES ASSUME NEW m \in Fd, fd'[m] \in Dir, m # sp.pwdfd
                   PROVE  \E i \in Levels' : m = data'[i].pwdfd
      BY <1>1, <1>12 DEF NoneLeaked
    <3>2. fd[m] \in Dir /\ m # pwdfd
      BY <2>6, <3>1, LevelFacts
    <3>3. PICK i \in Levels : m = data[i].pwdfd
      BY <3>2 DEF Held, NoneLeaked
    <3>4. i # 1
      BY <3>1, <3>3
    <3>5. QED
      BY <1>7, <3>3, <3>4
  <2>11. QED
    BY <1>8, <1>9, <1>10, <2>7, <2>8, <2>9, <2>10 DEF Held
<1>13. QED
  BY <1>11, <1>12

(* A child closes the descriptor of each level, and not its own: comparing with the
   last closed is enough because levels with the same one are neighbours. *)
LEMMA ClearedHeld ==
    ASSUME Typed, Held, forks < MaxFork
    PROVE  /\ pwdfd # NoFd => Cleared[pwdfd] = cwd
           /\ \A m \in Fd : Cleared[m] \in Dir => m = pwdfd
<1> DEFINE before(i) == {j \in 1..i - 1 : data[j].pwdfd # NoFd}
           greatest(S) == CHOOSE j \in S : \A m \in S : m <= j
           last(i) == IF before(i) = {} THEN pwdfd ELSE data[greatest(before(i))].pwdfd
           closed == {data[i].pwdfd : i \in {j \in DOMAIN data : data[j].pwdfd \notin {NoFd, last(j)}}}
<1>1. Cleared = [n \in Fd |-> IF n \in closed THEN Free ELSE fd[n]]
  BY Zenon DEF Cleared
<1>2. DOMAIN data = 1..Subshell
  <2>1. Len(data) = Subshell /\ data \in Seq(SubshellData)
    BY DEF Held, Fresh, Typed
  <2>2. QED
    BY <2>1
<1>3. \A i \in 1..Subshell : data[i].pwdfd # NoFd => i \in Levels
  BY DEF Held, SharedHasNone, Levels
<1>4. \A i \in 1..Subshell : before(i) # {} =>
         greatest(before(i)) \in before(i)
  <2>1. SUFFICES ASSUME NEW i \in 1..Subshell, before(i) # {}
                 PROVE  greatest(before(i)) \in before(i)
    OBVIOUS
  <2>2. before(i) \in SUBSET (0..i) /\ i \in Nat
    BY LevelFacts
  <2> HIDE DEF before
  <2>3. \E n \in before(i) : \A m \in before(i) : m <= n
    BY <2>1, <2>2, Greatest
  <2>4. QED
    BY <2>3
<1>5. \A i \in 1..Subshell : \A j \in before(i) : /\ j \in Nat /\ j >= 1 /\ j < i /\ j \in Levels
                                                    /\ data[j].pwdfd # NoFd
  <2>1. SUFFICES ASSUME NEW i \in 1..Subshell, NEW j \in before(i)
                 PROVE  /\ j \in Nat /\ j >= 1 /\ j < i /\ j \in Levels
                        /\ data[j].pwdfd # NoFd
    OBVIOUS
  <2>2. j \in 1..Subshell /\ j \in Nat /\ j >= 1 /\ j < i /\ data[j].pwdfd # NoFd
    BY LevelFacts
  <2>3. QED
    BY <1>3, <2>2
<1> HIDE DEF greatest
<1>6. \A i \in 1..Subshell : data[i].pwdfd = pwdfd /\ pwdfd # NoFd => last(i) = pwdfd
  <2>1. SUFFICES ASSUME NEW i \in 1..Subshell, data[i].pwdfd = pwdfd, pwdfd # NoFd,
                        before(i) # {}
                 PROVE  data[greatest(before(i))].pwdfd = pwdfd
    OBVIOUS
  <2>2. PICK j \in before(i) : j = greatest(before(i))
    BY <1>4, <2>1
  <2>3. j \in Nat /\ j >= 1 /\ j < i /\ j \in Levels /\ i \in Levels /\ i \in Nat
    BY <1>3, <1>5, <2>1, LevelFacts
  <2>4. /\ At(0) = pwdfd /\ At(j) = data[j].pwdfd /\ At(i) = pwdfd
        /\ 0 \in Shells /\ j \in Shells /\ i \in Shells /\ 0 <= j /\ j <= i
    BY <2>1, <2>3 DEF At, Shells
  <2>5. At(j) = At(0)
    BY <2>1, <2>4 DEF Held, Contiguous
  <2>6. QED
    BY <2>2, <2>4, <2>5
<1>7. pwdfd # NoFd => pwdfd \notin closed
  <2>1. SUFFICES ASSUME pwdfd # NoFd, NEW i \in DOMAIN data, data[i].pwdfd = pwdfd
                 PROVE  last(i) = pwdfd
    BY Zenon DEF closed
  <2>2. QED
    BY <1>2, <1>6, <2>1
<1>8. ASSUME NEW m \in Fd, m # pwdfd, fd[m] \in Dir
      PROVE  m \in closed
  <2> DEFINE users == {i \in Levels : data[i].pwdfd = m}
  <2>1. users # {} /\ users \in SUBSET Nat
    BY <1>8, LevelFacts DEF Held, NoneLeaked
  <2>2. PICK i \in users : \A j \in users : i <= j
    <3> HIDE DEF users
    <3>1. QED
      BY <2>1, Least
  <2>3. i \in 1..Subshell /\ i \in Nat /\ data[i].pwdfd = m /\ m # NoFd
    BY <2>2, LevelFacts
  <2>4. last(i) # m
    <3>1. CASE before(i) = {}
      BY <1>8, <3>1
    <3>2. CASE before(i) # {}
      <4>1. PICK j \in before(i) : j = greatest(before(i))
        BY <1>4, <2>3, <3>2
      <4>2. j \in Nat /\ j < i /\ j \in Levels
        BY <1>5, <2>3, <4>1
      <4>3. data[j].pwdfd # m
        BY <2>2, <2>3, <4>2
      <4>4. QED
        BY <3>2, <4>1, <4>3
    <3>3. QED
      BY <3>1, <3>2
  <2> HIDE DEF last, before
  <2>5. QED
    BY <1>2, <2>3, <2>4
<1> HIDE DEF closed
<1>9. pwdfd # NoFd => Cleared[pwdfd] = cwd
  BY <1>1, <1>7, LevelFacts DEF Held, PwdHeld
<1>10. \A m \in Fd : Cleared[m] \in Dir => m = pwdfd
  BY <1>1, <1>8, LevelFacts
<1>11. QED
  BY <1>9, <1>10

LEMMA HeldFork ==
    ASSUME ForkOnce, Typed, Held, Fork \/ Subfork
    PROVE  Held'
<1>1. /\ forks < MaxFork /\ forks' = forks + 1 /\ fd' = Cleared
      /\ UNCHANGED <<ops, cwd, pwd, pwdfd, subshare>>
  BY DEF Fork, Subfork
<1>2. Subshell' = 0
  <2>1. CASE Subfork
    BY <2>1, SubforkShape
  <2>2. CASE Fork
    <3>1. Subs' = {}
      BY <2>2 DEF Fork, Subs
    <3>2. QED
      BY <3>1, FS_EmptySet DEF Subshell
  <2>3. QED
    BY <2>1, <2>2
<1>3. Levels' = {}
  BY <1>2 DEF Levels
<1>4. SharedOuter' /\ SharedHasNone'
  BY <1>2 DEF SharedOuter, SharedHasNone
<1>5. Fresh'
  <2>1. CASE Subfork
    BY <1>2, <2>1 DEF Subfork, Fresh
  <2>2. CASE Fork
    <3>1. MaxFork <= 1
      BY <2>2 DEF ForkOnce, Fork, Typed, TypeOK
    <3>2. forks \in Nat
      BY SubshellAssumption DEF Typed, TypeOK
    <3>3. QED
      BY <1>1, <3>1, <3>2, SubshellAssumption DEF Fresh
  <2>3. QED
    BY <2>1, <2>2
<1>6. /\ pwdfd' # NoFd => fd'[pwdfd'] = cwd'
      /\ \A m \in Fd : fd'[m] \in Dir => m = pwdfd'
      /\ pwd' = cwd'
  BY <1>1, ClearedHeld DEF Held, PwdHeld
<1>7. Shells' = {0}
  BY <1>3 DEF Shells
<1>8. Contiguous' /\ NoneOutside'
  BY <1>7 DEF Contiguous, NoneOutside
<1>9. PwdHeld' /\ NoneLeaked'
  BY <1>3, <1>6 DEF PwdHeld, NoneLeaked
<1>10. QED
  BY <1>4, <1>5, <1>8, <1>9 DEF Held

(* The actions that change no directory. *)
LEMMA HeldElsewhere ==
    ASSUME Typed, Held,
           \/ \E n \in Name : Unset(n) \/ \E v \in Value : Assign(n, v) \/ Typeset(n, v)
           \/ \E f \in Function : UnsetFunction(f) \/ \E b \in Body : DefineFunction(f, b)
           \/ FunctionCall \/ FunctionReturn \/ UNCHANGED vars
    PROVE  Held'
<1>1. CASE \E n \in Name : Unset(n) \/ \E v \in Value : Assign(n, v) \/ Typeset(n, v)
  <2>1. PICK n \in Name : \E s \in DOMAIN tree : \E v \in Value \cup {Null} : Put(<<s, n>>, v)
    <3>1. tree \in Seq(Scope) /\ tree # <<>>
      BY DEF Typed, TypeOK
    <3>2. /\ Len(tree) \in DOMAIN tree
          /\ \A n \in Name : \E s \in DOMAIN tree : Found(n) = <<s, n>>
      BY <3>1 DEF Found
    <3>3. QED
      BY <1>1, <3>2 DEF Unset, Assign, Typeset
  <2>2. /\ UNCHANGED <<cwd, pwd, pwdfd, fd, subshare, calls, forks>>
        /\ \E s \in DOMAIN tree : data' = sh_assignok(<<s, n>>)
    BY <2>1 DEF Put
  <2>3. Subshell' = Subshell
    BY <2>2 DEF Subshell, Subs
  <2>4. QED
    BY <2>2, <2>3, AssignokType, HeldUnchanged
<1>2. CASE \E f \in Function : UnsetFunction(f) \/ \E b \in Body : DefineFunction(f, b)
  <2>1. UNCHANGED <<cwd, pwd, pwdfd, fd, subshare, calls, forks>> /\ data' = Tabled
    BY <1>2 DEF UnsetFunction, DefineFunction
  <2>2. Subshell' = Subshell
    BY <2>1 DEF Subshell, Subs
  <2>3. QED
    BY <2>1, <2>2, TablesType, HeldUnchanged
<1>3. CASE FunctionCall
  <2>1. UNCHANGED <<cwd, pwd, pwdfd, fd, subshare, data, forks>>
    BY <1>3 DEF FunctionCall
  <2>2. QED
    BY <1>3, <2>1, CallCount, HeldUnchanged
<1>4. CASE FunctionReturn
  <2>1. UNCHANGED <<cwd, pwd, pwdfd, fd, subshare, forks>>
    BY <1>4 DEF FunctionReturn
  <2>2. QED
    BY <1>4, <2>1, ReturnShape, HeldUnchanged
<1>5. CASE UNCHANGED vars
  <2>1. UNCHANGED <<cwd, pwd, pwdfd, fd, subshare, calls, data, forks>>
    BY <1>5 DEF vars
  <2>2. Subshell' = Subshell
    BY <2>1 DEF Subshell, Subs
  <2>3. QED
    BY <2>1, <2>2, HeldUnchanged
<1>6. QED
  BY <1>1, <1>2, <1>3, <1>4, <1>5

LEMMA HeldInit == Init => Held
<1>1. SUFFICES ASSUME Init
               PROVE  Held
  OBVIOUS
<1>2. calls = <<>> /\ data = <<>> /\ pwd = cwd
  BY <1>1 DEF Init
<1>3. Subshell = 0
  <2>1. Subs = {}
    BY <1>2 DEF Subs
  <2>2. QED
    BY <2>1, FS_EmptySet DEF Subshell
<1>4. Levels = {} /\ Fresh /\ SharedOuter /\ SharedHasNone
  BY <1>2, <1>3 DEF Levels, Fresh, SharedOuter, SharedHasNone
<1>5. /\ pwdfd # NoFd => fd[pwdfd] = cwd
      /\ \A n \in Fd : fd[n] \in Dir => n = pwdfd
  <2>1. 1 \in Fd /\ Free \notin Dir
    BY SubshellAssumption DEF Fd
  <2>2. CASE pwdfd = NoFd /\ fd = [n \in Fd |-> Free]
    BY <2>1, <2>2
  <2>3. CASE pwdfd = 1 /\ fd = [n \in Fd |-> IF n = 1 THEN cwd ELSE Free]
    BY <2>1, <2>3
  <2>4. QED
    BY <1>1, <2>2, <2>3 DEF Init
<1>6. QED
  BY <1>2, <1>4, <1>5, HeldAlone

LEMMA HeldNext ==
    ASSUME ForkOnce, Typed, Held, [Next]_vars
    PROVE  Held'
<1>1. CASE \E d \in Dir : Cd(d)
  BY <1>1, HeldCd
<1>2. CASE \E share \in BOOLEAN : SubshellEnter(share)
  BY <1>2, HeldEnter
<1>3. CASE SubshellLeave
  BY <1>3, HeldLeave
<1>4. CASE Fork \/ Subfork
  BY <1>4, HeldFork
<1>5. CASE \/ \E n \in Name : Unset(n) \/ \E v \in Value : Assign(n, v) \/ Typeset(n, v)
           \/ \E f \in Function : UnsetFunction(f) \/ \E b \in Body : DefineFunction(f, b)
           \/ FunctionCall \/ FunctionReturn \/ UNCHANGED vars
  BY <1>5, HeldElsewhere
<1>6. QED
  BY <1>1, <1>2, <1>3, <1>4, <1>5 DEF Next

LEMMA Invariance == ASSUME ForkOnce PROVE Spec => []IInv
<1>1. Init => IInv
  BY TypedInit, HeldInit DEF IInv
<1>2. IInv /\ [Next]_vars => IInv'
  BY TypedNext, HeldNext DEF IInv
<1>3. QED
  BY <1>1, <1>2, PTL DEF Spec

(* However subshells nest and share, and wherever the shell changes directory or
   forks, it knows the directory that it is in and has it open, and so has each
   virtual subshell that it has one to return to (sh_pwdupdate, sh_subshell and
   sh_clear_subshell_pwdfd agree on who owns a descriptor). *)
THEOREM DirectoriesHeld == ASSUME ForkOnce PROVE Spec => []PwdHeld
<1>1. IInv => PwdHeld
  BY DEF IInv, Held
<1>2. QED
  BY <1>1, Invariance, PTL

(* And no descriptor of a directory is left open without an owner: the shell that
   changes directory, leaves a subshell or forks closes the others. *)
THEOREM DirectoriesClosed == ASSUME ForkOnce PROVE Spec => []NoneLeaked
<1>1. IInv => NoneLeaked
  BY DEF IInv, Held
<1>2. QED
  BY <1>1, Invariance, PTL

--------------------------------------------------------------------------------
(* What has been saved. *)

(* How many of the innermost p frames are x. *)
To(s, p, x) == Cardinality(Positions(SubSeq(s, 1, p), x))

(* What a subshell that waits for another has saved belongs to scopes that there were
   when that other began: what a function declares is saved by the subshell that it
   runs in, and by no other. *)
Nested ==
    \A p \in Subs : \A i \in Levels : To(calls, p, "sub") < i =>
        \A n \in DOMAIN data[i].svar : n[1] <= Len(tree) - To(calls, p, "fun")

Kept == SharedOuter /\ Nested /\ SavedExist

LEMMA PrefixPush ==
    ASSUME NEW s \in Seq(Frame), NEW e \in Frame, NEW p \in 0..Len(s), NEW x
    PROVE  /\ To(s, p, x) \in Nat
           /\ To(<<e>> \o s, p + 1, x) = To(s, p, x) + (IF e = x THEN 1 ELSE 0)
<1> DEFINE q == SubSeq(s, 1, p)
<1>1. q \in Seq(Frame)
  OBVIOUS
<1>2. SubSeq(<<e>> \o s, 1, p + 1) = <<e>> \o q
  OBVIOUS
<1> HIDE DEF q
<1>3. /\ Cardinality(Positions(q, x)) \in Nat
      /\ Cardinality(Positions(<<e>> \o q, x)) = Cardinality(Positions(q, x)) + (IF e = x THEN 1 ELSE 0)
  BY <1>1, CountPush
<1>4. To(s, p, x) = Cardinality(Positions(q, x))
  BY DEF To, q
<1>5. To(<<e>> \o s, p + 1, x) = Cardinality(Positions(<<e>> \o q, x))
  BY <1>2 DEF To
<1>6. QED
  BY <1>3, <1>4, <1>5

(* The counts where a frame is pushed, and where it is popped. *)
LEMMA PrefixTail ==
    ASSUME NEW s \in Seq(Frame), s # <<>>, NEW p \in DOMAIN s, NEW x
    PROVE  /\ To(s, p, x) \in Nat /\ To(Tail(s), p - 1, x) \in Nat
           /\ To(s, p, x) = To(Tail(s), p - 1, x) + (IF Head(s) = x THEN 1 ELSE 0)
<1> DEFINE h == Head(s)
           t == Tail(s)
<1>1. h \in Frame /\ t \in Seq(Frame) /\ s = <<h>> \o t /\ p - 1 \in 0..Len(t) /\ (p - 1) + 1 = p
  OBVIOUS
<1> HIDE DEF h, t
<1>2. /\ To(t, p - 1, x) \in Nat
      /\ To(<<h>> \o t, (p - 1) + 1, x) = To(t, p - 1, x) + (IF h = x THEN 1 ELSE 0)
  BY <1>1, PrefixPush
<1>3. To(s, p, x) = To(t, p - 1, x) + (IF h = x THEN 1 ELSE 0)
  BY <1>1, <1>2, Zenon
<1>4. QED
  BY <1>2, <1>3 DEF h, t

(* The innermost subshell is the first. *)
LEMMA InnermostSub ==
    ASSUME Typed, Subshell > 0
    PROVE  \E p \in Subs : To(calls, p, "sub") = 1 /\ To(calls, p, "fun") \in Nat
                           /\ (Head(calls) = "fun" => To(calls, p, "fun") >= 1)
<1>1. calls \in Seq(Frame) /\ "sub" \in Frame /\ "fun" \in Frame
  BY DEF Typed, TypeOK, Frame
<1>2. Subs # {} /\ Subs \in SUBSET Nat
  <2>1. Subs # {}
    BY FS_EmptySet DEF Subshell
  <2>2. QED
    BY <1>1, <2>1 DEF Subs
<1>3. PICK p \in Subs : \A m \in Subs : p <= m
  BY <1>2, Least
<1>4. p \in DOMAIN calls /\ calls[p] = "sub" /\ calls # <<>>
  BY <1>1, <1>3 DEF Subs
<1>5. Positions(SubSeq(calls, 1, p), "sub") = {p}
  <2>1. Len(SubSeq(calls, 1, p)) = p /\ \A i \in 1..p : SubSeq(calls, 1, p)[i] = calls[i]
    BY <1>1, <1>4
  <2>2. \A i \in 1..p : i \in DOMAIN calls
    BY <1>1, <1>4
  <2>3. \A i \in 1..p : calls[i] = "sub" => i \in Subs
    BY <2>2 DEF Subs
  <2>4. \A i \in 1..p : calls[i] = "sub" => i = p
    BY <1>1, <1>3, <1>4, <2>3
  <2>5. DOMAIN SubSeq(calls, 1, p) = 1..p /\ p \in 1..p
    BY <1>1, <1>4
  <2>6. QED
    BY <1>4, <2>1, <2>4, <2>5 DEF Positions
<1>6. To(calls, p, "sub") = 1
  BY <1>5, FS_Singleton DEF To
<1>7. /\ To(calls, p, "fun") \in Nat
      /\ To(calls, p, "fun") = To(Tail(calls), p - 1, "fun") + (IF Head(calls) = "fun" THEN 1 ELSE 0)
      /\ To(Tail(calls), p - 1, "fun") \in Nat
  BY <1>1, <1>4, PrefixTail
<1>8. QED
  BY <1>6, <1>7

(* What is saved is typed. *)
LEMMA SavedFacts ==
    ASSUME Typed, NEW i \in 1..Subshell
    PROVE  /\ i \in DOMAIN data /\ DOMAIN data[i].svar \subseteq Node
           /\ \A n \in DOMAIN data[i].svar :
                 /\ data[i].svar[n] \in Value \cup {Null} /\ data[i].svar[n] # Absent
                 /\ n \in Node /\ n[1] \in Nat \ {0} /\ n[2] \in Name
<1>1. i \in DOMAIN data /\ data[i] \in SubshellData
  BY LevelFacts DEF Typed
<1>2. PICK D \in SUBSET Node : data[i].svar \in [D -> Value \cup {Null}]
  BY <1>1 DEF SubshellData, SavedValues
<1>3. Absent \notin Value \cup {Null}
  BY SubshellAssumption DEF Null, Absent
<1>4. \A n \in Node : n[1] \in Nat \ {0} /\ n[2] \in Name
  BY DEF Node
<1>5. QED
  BY <1>1, <1>2, <1>3, <1>4

LEMMA SubsFacts ==
    ASSUME Typed, NEW p \in Subs
    PROVE  /\ p \in DOMAIN calls /\ calls # <<>> /\ calls \in Seq(Frame)
           /\ To(calls, p, "sub") \in Nat /\ To(calls, p, "fun") \in Nat
           /\ To(calls, p, "sub") >= 1
<1>1. calls \in Seq(Frame) /\ p \in DOMAIN calls /\ calls[p] = "sub" /\ calls # <<>>
  BY DEF Typed, TypeOK, Subs
<1>2. To(calls, p, "sub") \in Nat /\ To(calls, p, "fun") \in Nat
  BY <1>1, PrefixTail
<1> DEFINE P == Positions(SubSeq(calls, 1, p), "sub")
<1>3. p \in P
  BY <1>1 DEF Positions
<1>4. IsFiniteSet(P)
  <2>1. SubSeq(calls, 1, p) \in Seq(Frame) /\ "sub" \in Frame
    BY <1>1 DEF Frame
  <2>2. QED
    BY <2>1, CountPush
<1>5. Cardinality(P) # 0
  <2> HIDE DEF P
  <2>1. QED
    BY <1>3, <1>4, FS_EmptySet
<1>6. QED
  BY <1>1, <1>2, <1>5 DEF To

LEMMA LevelsSame ==
    ASSUME Typed, UNCHANGED subshare, Subshell' = Subshell,
           \A i \in DOMAIN data : data'[i].subshare = data[i].subshare
    PROVE  /\ \A i \in 1..Subshell : IsShared(i)' = IsShared(i)
           /\ Levels' = Levels /\ (SharedOuter => SharedOuter')
<1>1. \A i \in 1..Subshell : IsShared(i)' = IsShared(i)
  <2>1. SUFFICES ASSUME NEW i \in 1..Subshell
                 PROVE  IsShared(i)' = IsShared(i)
    OBVIOUS
  <2>2. i # 1 => i - 1 \in DOMAIN data
    BY LevelFacts
  <2>3. QED
    BY <2>2 DEF IsShared
<1>2. QED
  BY <1>1 DEF Levels, SharedOuter

(* Where no frame begins or ends, the innermost subshell may save what exists. *)
LEMMA KeptInside ==
    ASSUME Typed, Kept, UNCHANGED <<subshare, calls>>, DOMAIN tree' = DOMAIN tree,
           \A i \in DOMAIN data :
              /\ data'[i].subshare = data[i].subshare
              /\ \A n \in DOMAIN data'[i].svar :
                    \/ n \in DOMAIN data[i].svar
                    \/ i = 1 /\ n[1] \in DOMAIN tree /\ tree'[n[1]][n[2]] # Absent,
           \A s \in DOMAIN tree, n \in Name : tree[s][n] # Absent => tree'[s][n] # Absent
    PROVE  Kept'
<1>1. Subshell' = Subshell /\ Subs' = Subs
  BY DEF Subshell, Subs
<1>2. Levels' = Levels /\ SharedOuter'
  BY <1>1, LevelsSame DEF Kept
<1>3. Levels \subseteq 1..Subshell
  BY DEF Levels
<1>4. Len(tree') = Len(tree)
  BY DEF Typed, TypeOK
<1>5. Nested'
  <2>1. SUFFICES ASSUME NEW p \in Subs, NEW i \in Levels, To(calls, p, "sub") < i,
                        NEW n \in DOMAIN data'[i].svar
                 PROVE  n[1] <= Len(tree) - To(calls, p, "fun")
    BY <1>1, <1>2, <1>4 DEF Nested
  <2>2. i # 1 /\ i \in DOMAIN data
    BY <1>3, <2>1, SubsFacts, LevelFacts
  <2>3. n \in DOMAIN data[i].svar
    BY <2>2
  <2>4. QED
    BY <2>1, <2>3 DEF Kept, Nested
<1>6. SavedExist'
  <2>1. SUFFICES ASSUME NEW i \in Levels, NEW n \in DOMAIN data'[i].svar
                 PROVE  n[1] \in DOMAIN tree /\ tree'[n[1]][n[2]] # Absent
    BY <1>2 DEF SavedExist
  <2>2. i \in DOMAIN data /\ i \in 1..Subshell
    BY <1>3, LevelFacts
  <2>3. CASE n \in DOMAIN data[i].svar
    <3>1. n[2] \in Name
      BY <2>2, <2>3, SavedFacts
    <3>2. n[1] \in DOMAIN tree /\ tree[n[1]][n[2]] # Absent
      BY <2>3 DEF Kept, SavedExist
    <3>3. QED
      BY <3>1, <3>2
  <2>4. QED
    BY <2>2, <2>3
<1>7. QED
  BY <1>2, <1>5, <1>6 DEF Kept

LEMMA KeptPut ==
    ASSUME Typed, Kept, NEW s \in DOMAIN tree, NEW n \in Name, NEW v \in Value \cup {Null},
           Put(<<s, n>>, v)
    PROVE  Kept'
<1> DEFINE node == <<s, n>>
<1>1. /\ UNCHANGED <<subshare, calls>> /\ data' = sh_assignok(node)
      /\ tree' = [tree EXCEPT ![s][n] = v]
  BY DEF Put
<1>2. tree \in Seq(Scope) /\ v # Absent
  BY SubshellAssumption DEF Typed, TypeOK, Null, Absent
<1>3. /\ DOMAIN tree' = DOMAIN tree /\ tree'[s][n] # Absent
      /\ \A t \in DOMAIN tree, m \in Name : tree[t][m] # Absent => tree'[t][m] # Absent
  <2>1. \A t \in DOMAIN tree : tree[t] \in Scope
    BY <1>2
  <2>2. tree' = [tree EXCEPT ![s] = [tree[s] EXCEPT ![n] = v]]
    BY <1>1
  <2>3. \A m \in Name : [tree[s] EXCEPT ![n] = v][m] = IF m = n THEN v ELSE tree[s][m]
    BY <2>1 DEF Scope
  <2>4. QED
    BY <1>2, <2>2, <2>3
<1>4. \A i \in DOMAIN data : data'[i].subshare = data[i].subshare
  BY <1>1, AssignokType
<1>5. \A i \in DOMAIN data : \A m \in DOMAIN data'[i].svar :
         m \in DOMAIN data[i].svar \/ (i = 1 /\ m = node)
  <2>1. CASE ~ Virtual \/ IsKept(node)
    <3>1. data' = data
      BY <1>1, <2>1 DEF sh_assignok
    <3> HIDE DEF node
    <3>2. QED
      BY <3>1, Zenon
  <2>2. CASE Virtual /\ ~ IsKept(node)
    <3> DEFINE svar == [m \in DOMAIN data[1].svar \cup {node} |-> IF m = node THEN ValueOf(m)
                                                                  ELSE data[1].svar[m]]
               new == [data[1] EXCEPT !.svar = svar]
    <3>1. 1 \in DOMAIN data /\ data[1] \in SubshellData /\ data \in Seq(SubshellData)
      BY <2>2, SavedInVirtual DEF Typed
    <3>2. data' = [data EXCEPT ![1] = new]
      BY <1>1, <2>2, <3>1 DEF sh_assignok
    <3>3. DOMAIN new.svar = DOMAIN data[1].svar \cup {node}
      BY <3>1 DEF SubshellData
    <3> HIDE DEF new, node
    <3>4. \A i \in DOMAIN data : i # 1 => data'[i] = data[i]
      BY <3>1, <3>2
    <3>5. data'[1] = new
      BY <3>1, <3>2
    <3>6. \A m \in DOMAIN data'[1].svar : m \in DOMAIN data[1].svar \/ m = node
      BY <3>3, <3>5, Zenon
    <3>7. QED
      BY <3>4, <3>6, Zenon
  <2>3. QED
    BY <2>1, <2>2
<1>6. node[1] = s /\ node[2] = n
  OBVIOUS
<1> HIDE DEF node
<1>7. \A i \in DOMAIN data : \A m \in DOMAIN data'[i].svar :
         \/ m \in DOMAIN data[i].svar
         \/ i = 1 /\ m[1] \in DOMAIN tree /\ tree'[m[1]][m[2]] # Absent
  BY <1>3, <1>5, <1>6
<1>8. QED
  BY <1>1, <1>3, <1>4, <1>7, KeptInside

LEMMA KeptElsewhere ==
    ASSUME Typed, Kept,
           \/ \E f \in Function : UnsetFunction(f) \/ \E b \in Body : DefineFunction(f, b)
           \/ \E d \in Dir : Cd(d)
           \/ UNCHANGED vars
    PROVE  Kept'
<1>1. UNCHANGED <<tree, subshare, calls>> /\ (data' = Tabled \/ data' = data)
  BY DEF UnsetFunction, DefineFunction, Cd, vars
<1>2. \A i \in DOMAIN data : /\ Tabled[i].subshare = data[i].subshare
                              /\ Tabled[i].svar = data[i].svar
  <2>1. \A i \in DOMAIN data : data[i] \in SubshellData
    BY DEF Typed
  <2>2. \A i \in DOMAIN data : [data[i] EXCEPT !.sfun = TRUE].svar = data[i].svar
    BY <2>1 DEF SubshellData
  <2>3. \A i \in DOMAIN data : Tabled[i].svar = data[i].svar
    <3>1. CASE ~ NewTable
      BY <3>1 DEF Tabled
    <3>2. CASE NewTable
      <4>1. \A i \in DOMAIN data : Tabled[i] = IF i = 1 THEN [data[1] EXCEPT !.sfun = TRUE] ELSE data[i]
        BY <3>2 DEF Tabled, Typed
      <4>2. QED
        BY <2>2, <4>1, Zenon
    <3>3. QED
      BY <3>1, <3>2
  <2>4. QED
    BY <2>3, TablesType
<1>3. /\ \A i \in DOMAIN data : data'[i].subshare = data[i].subshare
      /\ \A i \in DOMAIN data : \A n \in DOMAIN data'[i].svar : n \in DOMAIN data[i].svar
  <2>1. \A i \in DOMAIN data : data'[i].subshare = data[i].subshare /\ data'[i].svar = data[i].svar
    BY <1>1, <1>2
  <2>2. QED
    BY <2>1
<1>4. QED
  BY <1>1, <1>3, KeptInside

(* A frame that begins or ends shifts the positions of the others. *)
LEMMA PushedSubs ==
    ASSUME Typed, NEW e \in Frame, calls' = <<e>> \o calls, NEW p \in Subs', p # 1
    PROVE  /\ p - 1 \in Subs
           /\ To(calls', p, "sub") = To(calls, p - 1, "sub") + (IF e = "sub" THEN 1 ELSE 0)
           /\ To(calls', p, "fun") = To(calls, p - 1, "fun") + (IF e = "fun" THEN 1 ELSE 0)
<1>1. calls \in Seq(Frame) /\ p \in DOMAIN calls' /\ calls'[p] = "sub"
  BY DEF Typed, TypeOK, Subs
<1>2. p - 1 \in DOMAIN calls /\ calls[p - 1] = "sub" /\ p - 1 \in 0..Len(calls) /\ (p - 1) + 1 = p
  BY <1>1
<1>3. \A x : To(<<e>> \o calls, (p - 1) + 1, x) = To(calls, p - 1, x) + (IF e = x THEN 1 ELSE 0)
  BY <1>1, <1>2, PrefixPush
<1>4. \A x : To(calls', p, x) = To(calls, p - 1, x) + (IF e = x THEN 1 ELSE 0)
  BY <1>2, <1>3, Zenon
<1>5. QED
  BY <1>2, <1>4 DEF Subs

LEMMA PoppedSubs ==
    ASSUME Typed, calls # <<>>, calls' = Tail(calls), NEW p \in Subs'
    PROVE  /\ p + 1 \in Subs
           /\ To(calls', p, "sub") \in Nat /\ To(calls', p, "fun") \in Nat
           /\ To(calls, p + 1, "sub") = To(calls', p, "sub") + (IF Head(calls) = "sub" THEN 1 ELSE 0)
           /\ To(calls, p + 1, "fun") = To(calls', p, "fun") + (IF Head(calls) = "fun" THEN 1 ELSE 0)
<1>1. calls \in Seq(Frame) /\ p \in DOMAIN calls' /\ calls'[p] = "sub"
  BY DEF Typed, TypeOK, Subs
<1>2. p + 1 \in DOMAIN calls /\ calls[p + 1] = "sub" /\ (p + 1) - 1 = p
  BY <1>1
<1>3. \A x : /\ To(Tail(calls), (p + 1) - 1, x) \in Nat
             /\ To(calls, p + 1, x) = To(Tail(calls), (p + 1) - 1, x) + (IF Head(calls) = x THEN 1 ELSE 0)
  BY <1>1, <1>2, PrefixTail
<1>4. \A x : /\ To(calls', p, x) \in Nat
             /\ To(calls, p + 1, x) = To(calls', p, x) + (IF Head(calls) = x THEN 1 ELSE 0)
  BY <1>2, <1>3, Zenon
<1>5. QED
  BY <1>2, <1>4 DEF Subs

LEMMA KeptCall ==
    ASSUME Typed, Kept, FunctionCall
    PROVE  Kept'
<1>1. /\ calls' = <<"fun">> \o calls /\ tree' = Append(tree, [n \in Name |-> Absent])
      /\ UNCHANGED <<subshare, data>>
  BY DEF FunctionCall
<1>2. Subshell' = Subshell
  BY CallCount
<1>3. Levels' = Levels /\ SharedOuter'
  BY <1>1, <1>2, LevelsSame DEF Kept
<1>4. /\ tree \in Seq(Scope) /\ Len(tree') = Len(tree) + 1
      /\ \A s \in DOMAIN tree : s \in DOMAIN tree' /\ tree'[s] = tree[s]
  BY <1>1 DEF Typed, TypeOK
<1>5. Nested'
  <2>1. SUFFICES ASSUME NEW p \in Subs', NEW i \in Levels, To(calls', p, "sub") < i,
                        NEW n \in DOMAIN data[i].svar
                 PROVE  n[1] <= Len(tree') - To(calls', p, "fun")
    BY <1>1, <1>3 DEF Nested
  <2>2. p # 1
    BY <1>1 DEF Subs
  <2>3. /\ p - 1 \in Subs /\ To(calls', p, "sub") = To(calls, p - 1, "sub") + 0
        /\ To(calls', p, "fun") = To(calls, p - 1, "fun") + 1
    BY <1>1, <2>2, PushedSubs DEF Frame
  <2>4. To(calls, p - 1, "sub") < i
    BY <2>1, <2>3, SubsFacts
  <2>5. n[1] <= Len(tree) - To(calls, p - 1, "fun")
    BY <2>1, <2>3, <2>4 DEF Kept, Nested
  <2>6. To(calls, p - 1, "fun") \in Nat /\ Len(tree) \in Nat
    BY <1>4, <2>3, SubsFacts
  <2>7. Len(tree') - To(calls', p, "fun") = Len(tree) - To(calls, p - 1, "fun")
    BY <1>4, <2>3, <2>6
  <2>8. QED
    BY <2>5, <2>7
<1>6. SavedExist'
  BY <1>1, <1>3, <1>4 DEF Kept, SavedExist
<1>7. QED
  BY <1>3, <1>5, <1>6 DEF Kept

(* The variables of a function that ends were saved by the innermost subshell alone,
   which forgets them. *)
LEMMA KeptReturn ==
    ASSUME Typed, Kept, FunctionReturn
    PROVE  Kept'
<1>1. /\ calls # <<>> /\ Head(calls) = "fun" /\ calls' = Tail(calls)
      /\ tree' = SubSeq(tree, 1, Len(tree) - 1) /\ UNCHANGED subshare
  BY DEF FunctionReturn
<1>2. Subshell' = Subshell /\ \A i \in DOMAIN data : data'[i].subshare = data[i].subshare
  BY ReturnShape
<1>3. Levels' = Levels /\ SharedOuter'
  BY <1>1, <1>2, LevelsSame DEF Kept
<1>4. \A i \in DOMAIN data : \A n \in DOMAIN data'[i].svar :
         n \in DOMAIN data[i].svar /\ (n[1] # Len(tree) \/ Saver(n) # i)
  <2> DEFINE kept(i) == {n \in DOMAIN data[i].svar : n[1] # Len(tree) \/ Saver(n) # i}
             new(i) == [data[i] EXCEPT !.svar = [n \in kept(i) |-> data[i].svar[n]]]
  <2>1. \A i \in DOMAIN data : data'[i] = new(i)
    BY DEF FunctionReturn
  <2>2. ASSUME NEW i \in DOMAIN data
        PROVE  DOMAIN new(i).svar = kept(i)
    <3>1. data[i] \in SubshellData
      BY DEF Typed
    <3> HIDE DEF kept
    <3>2. QED
      BY <3>1 DEF SubshellData
  <2> HIDE DEF new
  <2>3. QED
    BY <2>1, <2>2
<1>5. ASSUME NEW i \in Levels
      PROVE  Virtual /\ i \in 1..Subshell /\ i \in DOMAIN data /\ Subshell > 0
  <2>1. Virtual
    BY NoLevels DEF Kept
  <2>2. QED
    BY <2>1, LevelFacts DEF Virtual
<1>6. Len(tree) \in Nat /\ Len(tree) > 1 /\ tree \in Seq(Scope)
  <2>1. Cardinality(Funs') \in Nat /\ Cardinality(Funs') = Cardinality(Funs) - 1
    <3>1. calls' \in Seq(Frame)
      BY TypedReturn DEF Typed, TypeOK
    <3>2. QED
      BY <3>1, CountPush, ReturnShape DEF Frame, Funs
  <2>2. QED
    BY <2>1, CountsAreNumbers DEF Typed, TypeOK, Counted
<1>7. /\ Len(tree') = Len(tree) - 1 /\ DOMAIN tree' = 1..Len(tree) - 1
      /\ \A s \in 1..Len(tree) - 1 : s \in DOMAIN tree' /\ tree'[s] = tree[s]
  BY <1>1, <1>6
<1>8. Nested'
  <2>1. SUFFICES ASSUME NEW p \in Subs', NEW i \in Levels, To(calls', p, "sub") < i,
                        NEW n \in DOMAIN data'[i].svar
                 PROVE  n[1] <= Len(tree') - To(calls', p, "fun")
    BY <1>3 DEF Nested
  <2>2. /\ p + 1 \in Subs /\ To(calls, p + 1, "sub") = To(calls', p, "sub") + 0
        /\ To(calls, p + 1, "fun") = To(calls', p, "fun") + 1
        /\ To(calls', p, "fun") \in Nat /\ To(calls', p, "sub") \in Nat
    BY <1>1, PoppedSubs
  <2>3. To(calls, p + 1, "sub") < i
    BY <2>1, <2>2
  <2>4. n \in DOMAIN data[i].svar
    BY <1>4, <1>5
  <2>5. n[1] <= Len(tree) - To(calls, p + 1, "fun")
    BY <2>2, <2>3, <2>4 DEF Kept, Nested
  <2>6. Len(tree') - To(calls', p, "fun") = Len(tree) - To(calls, p + 1, "fun")
    BY <1>6, <1>7, <2>2
  <2>7. QED
    BY <2>5, <2>6
<1>9. SavedExist'
  <2>1. SUFFICES ASSUME NEW i \in Levels, NEW n \in DOMAIN data'[i].svar
                 PROVE  n[1] \in DOMAIN tree' /\ tree'[n[1]][n[2]] # Absent
    BY <1>3 DEF SavedExist
  <2>2. n \in DOMAIN data[i].svar /\ (n[1] # Len(tree) \/ Saver(n) # i)
    BY <1>4, <1>5
  <2>3. n[1] \in DOMAIN tree /\ tree[n[1]][n[2]] # Absent
    BY <2>2 DEF Kept, SavedExist
  <2>4. n[1] # Len(tree)
    <3>1. CASE i = 1
      BY <1>5, <2>2, <3>1 DEF Saver
    <3>2. CASE i # 1
      <4>1. PICK p \in Subs : /\ To(calls, p, "sub") = 1 /\ To(calls, p, "fun") \in Nat
                              /\ To(calls, p, "fun") >= 1
        BY <1>1, <1>5, InnermostSub
      <4>2. 1 < i
        BY <1>5, <3>2, LevelFacts
      <4>3. n[1] <= Len(tree) - To(calls, p, "fun")
        BY <2>2, <4>1, <4>2 DEF Kept, Nested
      <4>4. QED
        BY <1>6, <2>3, <4>1, <4>3
    <3>3. QED
      BY <3>1, <3>2
  <2>5. n[1] \in 1..Len(tree) - 1
    BY <1>6, <2>3, <2>4
  <2>6. QED
    BY <1>7, <2>3, <2>5
<1>10. QED
  BY <1>3, <1>8, <1>9 DEF Kept

LEMMA KeptEnter ==
    ASSUME Typed, Kept, NEW share \in BOOLEAN, SubshellEnter(share)
    PROVE  Kept'
<1>1. /\ share => ~ Virtual
      /\ calls' = <<"sub">> \o calls /\ subshare' = share /\ UNCHANGED tree
  BY DEF SubshellEnter
<1>2. /\ Subshell \in Nat /\ Subshell' = Subshell + 1
      /\ data'[1].subshare = subshare /\ DOMAIN data'[1].svar = {}
      /\ \A i \in 1..Subshell : data'[i + 1] = data[i]
  <2>1. data \in Seq(SubshellData)
    BY DEF Typed
  <2>2. data'[1].svar = <<>>
    BY <2>1 DEF SubshellEnter
  <2>3. DOMAIN data'[1].svar = {}
    BY <2>2
  <2>4. Subshell \in Nat /\ \A i \in 1..Subshell : i \in DOMAIN data
    BY LevelFacts
  <2>5. \A i \in 1..Subshell : data'[i + 1] = data[i]
    BY <2>4, EnterShape
  <2>6. Subshell' = Subshell + 1 /\ data'[1].subshare = subshare
    BY EnterShape
  <2>7. QED
    BY <2>3, <2>4, <2>5, <2>6
<1>3. /\ IsShared(1)' = share
      /\ \A i \in 1..Subshell : IsShared(i + 1)' = IsShared(i)
  <2>1. IsShared(1)' = share
    BY <1>1 DEF IsShared
  <2>2. ASSUME NEW i \in 1..Subshell
        PROVE  IsShared(i + 1)' = IsShared(i)
    <3>1. i \in Nat /\ i >= 1 /\ i + 1 # 1 /\ (i + 1) - 1 = i
      BY LevelFacts
    <3>2. IsShared(i + 1)' = data'[i].subshare
      BY <3>1 DEF IsShared
    <3>3. i # 1 => i - 1 \in 1..Subshell /\ (i - 1) + 1 = i
      BY <1>2, <3>1
    <3>4. QED
      BY <1>2, <3>2, <3>3 DEF IsShared
  <2>3. QED
    BY <2>1, <2>2
<1>4. \A j \in 1..Subshell' : j \in Nat /\ (j = 1 \/ (j - 1 \in 1..Subshell /\ j = (j - 1) + 1))
  BY <1>2
<1>5. share => Levels = {}
  BY <1>1, NoLevels DEF Kept
<1>6. SharedOuter'
  <2>1. SUFFICES ASSUME NEW i \in 1..Subshell', NEW j \in 1..Subshell', i < j, IsShared(i)'
                 PROVE  IsShared(j)'
    BY DEF SharedOuter
  <2>2. j - 1 \in 1..Subshell /\ IsShared(j)' = IsShared(j - 1) /\ i \in Nat /\ j \in Nat
    BY <1>2, <1>3, <1>4, <2>1
  <2>3. CASE i = 1
    BY <1>3, <1>5, <2>1, <2>2, <2>3 DEF Levels
  <2>4. CASE i # 1
    <3>1. i - 1 \in 1..Subshell /\ i = (i - 1) + 1
      BY <1>4, <2>1, <2>4
    <3>2. IsShared(i - 1)
      BY <1>3, <2>1, <3>1
    <3>3. i - 1 < j - 1
      BY <2>1, <2>2
    <3>4. QED
      BY <2>2, <3>1, <3>2, <3>3 DEF Kept, SharedOuter
  <2>5. QED
    BY <2>3, <2>4
<1>7. ASSUME NEW i \in Levels', i # 1
      PROVE  i - 1 \in Levels /\ data'[i] = data[i - 1] /\ i \in Nat
  <2>1. i \in 1..Subshell' /\ ~ IsShared(i)'
    BY DEF Levels
  <2>2. i - 1 \in 1..Subshell /\ i = (i - 1) + 1 /\ i \in Nat
    BY <1>4, <1>7, <2>1
  <2>3. ~ IsShared(i - 1) /\ data'[i] = data[i - 1]
    BY <1>2, <1>3, <2>1, <2>2
  <2>4. QED
    BY <2>2, <2>3 DEF Levels
<1>8. Nested'
  <2>1. SUFFICES ASSUME NEW p \in Subs', NEW i \in Levels', To(calls', p, "sub") < i,
                        NEW n \in DOMAIN data'[i].svar
                 PROVE  n[1] <= Len(tree) - To(calls', p, "fun")
    BY <1>1 DEF Nested
  <2>2. i # 1
    BY <1>2
  <2>3. i - 1 \in Levels /\ n \in DOMAIN data[i - 1].svar /\ i \in Nat
    BY <1>7, <2>2
  <2>4. CASE p = 1
    <3>1. To(calls', p, "fun") = 0
      <4>1. calls \in Seq(Frame) /\ "sub" \in Frame /\ 0 \in 0..Len(calls)
        BY DEF Typed, TypeOK, Frame
      <4>2. To(<<"sub">> \o calls, 0 + 1, "fun") = To(calls, 0, "fun") + 0
        BY <4>1, PrefixPush
      <4>3. Positions(SubSeq(calls, 1, 0), "fun") = {}
        BY <4>1 DEF Positions
      <4>4. To(calls, 0, "fun") = 0
        BY <4>3, FS_EmptySet DEF To
      <4>5. QED
        BY <1>1, <2>4, <4>2, <4>4
    <3>2. n[1] \in DOMAIN tree /\ tree \in Seq(Scope)
      BY <2>3 DEF Kept, SavedExist, Typed, TypeOK
    <3>3. n[1] <= Len(tree)
      BY <3>2
    <3>4. QED
      BY <3>1, <3>2, <3>3
  <2>5. CASE p # 1
    <3>1. /\ p - 1 \in Subs /\ To(calls', p, "sub") = To(calls, p - 1, "sub") + 1
          /\ To(calls', p, "fun") = To(calls, p - 1, "fun") + 0
      BY <1>1, <2>5, PushedSubs DEF Frame
    <3>2. To(calls, p - 1, "sub") \in Nat /\ To(calls, p - 1, "fun") \in Nat
      BY <3>1, SubsFacts
    <3>3. To(calls, p - 1, "sub") < i - 1
      BY <2>1, <2>3, <3>1, <3>2
    <3>4. n[1] <= Len(tree) - To(calls, p - 1, "fun")
      BY <2>3, <3>1, <3>3 DEF Kept, Nested
    <3>5. QED
      BY <3>1, <3>2, <3>4
  <2>6. QED
    BY <2>4, <2>5
<1>9. SavedExist'
  BY <1>1, <1>2, <1>7 DEF Kept, SavedExist
<1>10. QED
  BY <1>6, <1>8, <1>9 DEF Kept

(* What a subshell puts back exists. *)
LEMMA KeptLeave ==
    ASSUME Typed, Kept, SubshellLeave
    PROVE  Kept'
<1>1. /\ calls # <<>> /\ Head(calls) = "sub" /\ calls' = Tail(calls)
      /\ tree' = Restored(data[1]) /\ subshare' = data[1].subshare
  BY DEF SubshellLeave
<1>2. /\ Subshell \in Nat /\ Subshell >= 1 /\ Subshell' = Subshell - 1
      /\ \A i \in 1..Subshell' : /\ i \in Nat /\ i + 1 \in 1..Subshell /\ i \in 1..Subshell
                                 /\ data'[i] = data[i + 1]
  <2>1. /\ Subshell \in Nat /\ Subshell <= Len(data) /\ Subshell >= 1
        /\ Subshell' = Subshell - 1 /\ Len(data) \in Nat
    BY LeaveShape, CountsAreNumbers
  <2>2. DOMAIN data' = 1..Len(data) - 1
    BY LeaveShape
  <2>3. \A i \in 1..Subshell - 1 : i \in DOMAIN data'
    BY <2>1, <2>2
  <2>4. QED
    BY <2>1, <2>3, LeaveShape
<1>3. \A i \in 1..Subshell' : IsShared(i)' = IsShared(i + 1)
  <2>1. SUFFICES ASSUME NEW i \in 1..Subshell'
                 PROVE  IsShared(i)' = IsShared(i + 1)
    OBVIOUS
  <2>2. i + 1 # 1 /\ (i + 1) - 1 = i
    BY <1>2
  <2>3. i # 1 => i - 1 \in 1..Subshell' /\ (i - 1) + 1 = i
    BY <1>2
  <2>4. QED
    BY <1>1, <1>2, <2>2, <2>3 DEF IsShared
<1>4. SharedOuter'
  <2>1. SUFFICES ASSUME NEW i \in 1..Subshell', NEW j \in 1..Subshell', i < j, IsShared(i)'
                 PROVE  IsShared(j)'
    BY DEF SharedOuter
  <2>2. i + 1 < j + 1 /\ i + 1 \in 1..Subshell /\ j + 1 \in 1..Subshell
    BY <1>2, <2>1
  <2>3. QED
    BY <1>3, <2>1, <2>2 DEF Kept, SharedOuter
<1>5. \A i \in Levels' : i + 1 \in Levels /\ data'[i] = data[i + 1] /\ i \in Nat
  BY <1>2, <1>3 DEF Levels
<1>6. /\ tree \in Seq(Scope) /\ DOMAIN tree' = DOMAIN tree /\ tree' \in Seq(Scope)
      /\ \A s \in DOMAIN tree, n \in Name : tree[s][n] # Absent => tree'[s][n] # Absent
  <2>1. tree \in Seq(Scope) /\ tree' \in Seq(Scope)
    BY TypedLeave DEF Typed, TypeOK
  <2>2. DOMAIN tree' = DOMAIN tree
    BY <1>1 DEF Restored
  <2>3. SUFFICES ASSUME NEW s \in DOMAIN tree, NEW n \in Name, tree[s][n] # Absent
                 PROVE  tree'[s][n] # Absent
    BY <2>1, <2>2
  <2>4. tree'[s][n] = IF <<s, n>> \in DOMAIN data[1].svar THEN data[1].svar[<<s, n>>] ELSE tree[s][n]
    BY <1>1 DEF Restored
  <2>5. 1 \in 1..Subshell
    BY <1>2
  <2>6. QED
    BY <2>3, <2>4, <2>5, SavedFacts
<1>7. Len(tree') = Len(tree) /\ Len(tree) \in Nat
  BY <1>6
<1>8. Nested'
  <2>1. SUFFICES ASSUME NEW p \in Subs', NEW i \in Levels', To(calls', p, "sub") < i,
                        NEW n \in DOMAIN data'[i].svar
                 PROVE  n[1] <= Len(tree') - To(calls', p, "fun")
    BY DEF Nested
  <2>2. /\ p + 1 \in Subs /\ To(calls, p + 1, "sub") = To(calls', p, "sub") + 1
        /\ To(calls, p + 1, "fun") = To(calls', p, "fun") + 0
        /\ To(calls', p, "fun") \in Nat /\ To(calls', p, "sub") \in Nat
    BY <1>1, PoppedSubs
  <2>3. To(calls, p + 1, "sub") < i + 1 /\ i + 1 \in Levels
    BY <1>5, <2>1, <2>2
  <2>4. n \in DOMAIN data[i + 1].svar
    BY <1>5
  <2>5. n[1] <= Len(tree) - To(calls, p + 1, "fun")
    BY <2>2, <2>3, <2>4 DEF Kept, Nested
  <2>6. QED
    BY <1>7, <2>2, <2>5
<1>9. SavedExist'
  <2>1. SUFFICES ASSUME NEW i \in Levels', NEW n \in DOMAIN data'[i].svar
                 PROVE  n[1] \in DOMAIN tree' /\ tree'[n[1]][n[2]] # Absent
    BY DEF SavedExist
  <2>2. i + 1 \in Levels /\ n \in DOMAIN data[i + 1].svar /\ i + 1 \in 1..Subshell
    BY <1>5 DEF Levels
  <2>3. n[1] \in DOMAIN tree /\ tree[n[1]][n[2]] # Absent
    BY <2>2 DEF Kept, SavedExist
  <2>4. n[2] \in Name
    BY <2>2, SavedFacts
  <2>5. QED
    BY <1>6, <2>3, <2>4
<1>10. QED
  BY <1>4, <1>8, <1>9 DEF Kept

LEMMA KeptAlone ==
    ASSUME Subshell = 0
    PROVE  Kept
<1>1. Levels = {} /\ SharedOuter
  BY DEF Levels, SharedOuter
<1>2. QED
  BY <1>1 DEF Kept, Nested, SavedExist

LEMMA KeptNext ==
    ASSUME Typed, Kept, [Next]_vars
    PROVE  Kept'
<1>1. tree \in Seq(Scope) /\ tree # <<>>
  BY DEF Typed, TypeOK
<1>2. CASE \E n \in Name : Unset(n) \/ \E v \in Value : Assign(n, v) \/ Typeset(n, v)
  <2>1. \E n \in Name : \E s \in DOMAIN tree : \E v \in Value \cup {Null} : Put(<<s, n>>, v)
    <3>1. /\ Len(tree) \in DOMAIN tree
          /\ \A n \in Name : \E s \in DOMAIN tree : Found(n) = <<s, n>>
      BY <1>1 DEF Found
    <3>2. QED
      BY <1>2, <3>1 DEF Unset, Assign, Typeset
  <2>2. QED
    BY <2>1, KeptPut
<1>3. CASE \/ \E f \in Function : UnsetFunction(f) \/ \E b \in Body : DefineFunction(f, b)
           \/ \E d \in Dir : Cd(d)
           \/ UNCHANGED vars
  BY <1>3, KeptElsewhere
<1>4. CASE FunctionCall \/ FunctionReturn
  BY <1>4, KeptCall, KeptReturn
<1>5. CASE \E share \in BOOLEAN : SubshellEnter(share)
  BY <1>5, KeptEnter
<1>6. CASE SubshellLeave
  BY <1>6, KeptLeave
<1>7. CASE Fork \/ Subfork
  <2>1. Subshell' = 0
    <3>1. CASE Fork
      <4>1. Subs' = {}
        BY <3>1 DEF Fork, Subs
      <4>2. QED
        BY <4>1, FS_EmptySet DEF Subshell
    <3>2. CASE Subfork
      BY <3>2, SubforkShape
    <3>3. QED
      BY <1>7, <3>1, <3>2
  <2>2. (Levels = {} /\ SharedOuter)'
    BY <2>1 DEF Levels, SharedOuter
  <2>3. QED
    BY <2>2 DEF Kept, Nested, SavedExist
<1>8. QED
  BY <1>2, <1>3, <1>4, <1>5, <1>6, <1>7 DEF Next

(* Whatever subshells and functions begin and end, what a virtual subshell has saved of
   variables it can put back: the variable is still there.  The end of a function
   (sh_funscope, nv_subsaved) takes out of the list what belongs to its scope, from one
   list only, and no other list has it. *)
THEOREM SavedStay == Spec => []SavedExist
<1>1. Init => Kept
  <2>1. SUFFICES ASSUME Init
                 PROVE  Kept
    OBVIOUS
  <2>2. Subs = {}
    BY <2>1 DEF Init, Subs
  <2>3. QED
    BY <2>2, FS_EmptySet, KeptAlone DEF Subshell
<1>2. Typed /\ Kept /\ [Next]_vars => Typed' /\ Kept'
  BY TypedNext, KeptNext
<1>3. Kept => SavedExist
  BY DEF Kept
<1>4. QED
  BY <1>1, <1>2, <1>3, TypedInit, PTL DEF Spec

--------------------------------------------------------------------------------
(* That a virtual subshell is a forked one. *)

(* Where subshell i is in the list of frames s, and how many functions run inside of it. *)
Place(s, i) ==
    CHOOSE p \in Positions(s, "sub") : Cardinality({q \in Positions(s, "sub") : q <= p}) = i
Inside(s, i) == Cardinality({p \in 1..Place(s, i) : s[p] = "fun"})

(* The subshells up to i that have saved a variable, and that have a table. *)
Savers(d, i, node) == {j \in 1..i : node \in DOMAIN d[j].svar}
TabsTo(d, i) == {j \in 1..i : d[j].sfun}

(* The environment that subshell i has found, in terms of what it is computed from. *)
Of(t, d, i, node) ==
    IF Savers(d, i, node) = {} THEN t[node[1]][node[2]]
    ELSE d[CHOOSE j \in Savers(d, i, node) : \A m \in Savers(d, i, node) : m <= j].svar[node]
Variables(t, d, s, i) == [k \in 1..Len(t) - Inside(s, i) |-> [n \in Name |-> Of(t, d, i, <<k, n>>)]]
TablesOf(u, d, i) == SubSeq(u, 1, Len(u) - Cardinality(TabsTo(d, i)))
Functions(u) == [f \in Function |-> Lookup(u, f)]
Origin(t, u, d, s, i) ==
    [tree |-> Variables(t, d, s, i), funs |-> Functions(TablesOf(u, d, i)), cwd |-> d[i].pwd]
Env(t, u, c) == [tree |-> t, funs |-> Functions(u), cwd |-> c]

Parents == [i \in 1..Cardinality(Levels) |-> Environment(i)]

LEMMA InTerms ==
    /\ \A i : Environment(i) = Origin(tree, funs, data, calls, i)
    /\ \A i : Environment(i)' = Origin(tree', funs', data', calls', i)
    /\ Current = Env(tree, funs, cwd) /\ Current' = Env(tree', funs', cwd')
<1>1. \A i : ScopesAt(i) = Len(tree) - Inside(calls, i)
  BY DEF ScopesAt, Inside, Place, Subs, Positions
<1>2. \A i : ScopesAt(i)' = Len(tree') - Inside(calls', i)
  BY DEF ScopesAt, Inside, Place, Subs, Positions
<1>3. \A i, node : Saved(i, node) = Of(tree, data, i, node)
  BY DEF Saved, Of, Savers
<1>4. \A i, node : Saved(i, node)' = Of(tree', data', i, node)
  BY DEF Saved, Of, Savers
<1>5. \A i : TablesAt(i) = TablesOf(funs, data, i) /\ TablesAt(i)' = TablesOf(funs', data', i)
  BY DEF TablesAt, TablesOf, TabsTo
<1>6. \A i : Environment(i) = Origin(tree, funs, data, calls, i)
  BY <1>1, <1>3, <1>5 DEF Environment, Origin, Variables, Functions
<1>7. \A i : Environment(i)' = Origin(tree', funs', data', calls', i)
  BY <1>2, <1>4, <1>5 DEF Environment, Origin, Variables, Functions
<1>8. Current = Env(tree, funs, cwd) /\ Current' = Env(tree', funs', cwd')
  BY DEF Current, Env, Functions
<1>9. QED
  BY <1>6, <1>7, <1>8

(* The places of the subshells are found by counting. *)
LEMMA CountTo ==
    ASSUME NEW s \in Seq(Frame), NEW p \in DOMAIN s, NEW x
    PROVE  /\ To(s, p, x) = Cardinality({q \in Positions(s, x) : q <= p})
           /\ To(s, p, x) = Cardinality({q \in 1..p : s[q] = x})
<1>1. SubSeq(s, 1, p) \in Seq(Frame) /\ Len(SubSeq(s, 1, p)) = p /\ p \in 1..Len(s)
      /\ \A q \in 1..p : SubSeq(s, 1, p)[q] = s[q]
  OBVIOUS
<1>2. Positions(SubSeq(s, 1, p), x) = {q \in 1..p : s[q] = x}
  BY <1>1 DEF Positions
<1>3. {q \in Positions(s, x) : q <= p} = {q \in 1..p : s[q] = x}
  BY <1>1 DEF Positions
<1>4. QED
  BY <1>2, <1>3 DEF To

LEMMA PlaceIs ==
    ASSUME NEW s \in Seq(Frame), NEW p \in Positions(s, "sub")
    PROVE  Place(s, To(s, p, "sub")) = p
<1> DEFINE P == Positions(s, "sub")
           upto(q) == {r \in P : r <= q}
<1>1. P \in SUBSET Nat /\ IsFiniteSet(P) /\ \A q \in P : q \in DOMAIN s
  <2>1. IsFiniteSet(P)
    BY CountPush DEF Frame
  <2>2. QED
    BY <2>1 DEF Positions
<1>2. \A q \in P : IsFiniteSet(upto(q)) /\ Cardinality(upto(q)) \in Nat
  <2>1. \A q \in P : upto(q) \subseteq P
    OBVIOUS
  <2> HIDE DEF upto, P
  <2>2. QED
    BY <1>1, <2>1, FS_Subset, FS_CardinalityType
<1>3. ASSUME NEW q \in P, NEW r \in P, q < r
      PROVE  Cardinality(upto(q)) < Cardinality(upto(r))
  <2>1. upto(q) \subseteq upto(r) /\ r \in upto(r) /\ r \notin upto(q)
    BY <1>1, <1>3
  <2>2. upto(q) # upto(r)
    BY <2>1, Zenon
  <2> HIDE DEF upto, P
  <2>3. QED
    BY <1>2, <2>1, <2>2, FS_Subset, FS_CardinalityType
<1>4. \A q, r \in P : Cardinality(upto(q)) = Cardinality(upto(r)) => q = r
  <2>1. SUFFICES ASSUME NEW q \in P, NEW r \in P, Cardinality(upto(q)) = Cardinality(upto(r)), q # r
                 PROVE  FALSE
    OBVIOUS
  <2>2. q < r \/ r < q
    BY <1>1, <2>1
  <2> HIDE DEF upto, P
  <2>3. QED
    BY <1>2, <1>3, <2>1, <2>2
<1>5. To(s, p, "sub") = Cardinality(upto(p))
  BY <1>1, CountTo
<1>6. Place(s, To(s, p, "sub")) = CHOOSE q \in P : Cardinality(upto(q)) = Cardinality(upto(p))
  BY <1>5, Zenon DEF Place
<1> HIDE DEF upto, P
<1>7. QED
  BY <1>4, <1>6 DEF P

LEMMA PlaceExists ==
    ASSUME NEW s \in Seq(Frame), NEW i \in Nat, i >= 1, i <= Cardinality(Positions(s, "sub"))
    PROVE  \E p \in Positions(s, "sub") : To(s, p, "sub") = i
<1> DEFINE P == Positions(s, "sub")
           upto(q) == {r \in P : r <= q}
           S == {q \in P : i <= Cardinality(upto(q))}
<1>1. /\ P \in SUBSET (0..Len(s)) /\ Len(s) \in Nat /\ P \in SUBSET Nat
      /\ IsFiniteSet(P) /\ Cardinality(P) \in Nat /\ \A q \in P : q \in DOMAIN s
  <2>1. IsFiniteSet(P) /\ Cardinality(P) \in Nat
    BY CountPush DEF Frame
  <2>2. QED
    BY <2>1 DEF Positions
<1>2. \A q \in P : IsFiniteSet(upto(q)) /\ Cardinality(upto(q)) \in Nat
  <2>1. \A q \in P : upto(q) \subseteq P
    OBVIOUS
  <2> HIDE DEF upto, P
  <2>2. QED
    BY <1>1, <2>1, FS_Subset, FS_CardinalityType
<1>3. S # {}
  <2>1. P # {}
    BY FS_EmptySet
  <2> HIDE DEF P
  <2>2. PICK q \in P : \A r \in P : r <= q
    BY <1>1, <2>1, Greatest
  <2>3. upto(q) = P
    BY <2>2
  <2> HIDE DEF upto
  <2>4. q \in S
    BY <2>2, <2>3 DEF P
  <2>5. QED
    BY <2>4
<1>4. PICK p \in S : \A q \in S : p <= q
  <2>1. S \in SUBSET Nat
    BY <1>1
  <2> HIDE DEF S
  <2>2. QED
    BY <1>3, <2>1, Least
<1>5. p \in P /\ i <= Cardinality(upto(p)) /\ p \in Nat
  BY <1>1, <1>4
<1>6. Cardinality(upto(p)) = i
  <2>1. SUFFICES ASSUME i < Cardinality(upto(p))
                 PROVE  FALSE
    <3> HIDE DEF upto, P
    <3>1. QED
      BY <1>2, <1>5
  <2> DEFINE before == upto(p) \ {p}
  <2>2. p \in upto(p) /\ IsFiniteSet(upto(p)) /\ Cardinality(upto(p)) \in Nat
    BY <1>2, <1>5
  <2>3. IsFiniteSet(before) /\ Cardinality(before) = Cardinality(upto(p)) - 1
    <3> HIDE DEF upto
    <3>1. QED
      BY <2>2, FS_RemoveElement
  <2>4. before # {}
    <3>1. Cardinality(before) # 0
      BY <2>1, <2>2, <2>3
    <3> HIDE DEF before
    <3>2. QED
      BY <3>1, FS_EmptySet
  <2>5. before \in SUBSET (0..Len(s))
    BY <1>1
  <2>6. PICK q \in before : \A r \in before : r <= q
    <3> HIDE DEF before
    <3>1. QED
      BY <1>1, <2>4, <2>5, Greatest
  <2>7. q \in P /\ q < p /\ q \in Nat
    BY <1>1, <1>5, <2>6
  <2>8. upto(q) = before
    <3>1. \A r \in upto(q) : r \in before
      BY <1>1, <1>5, <2>7
    <3>2. \A r \in before : r \in upto(q)
      BY <2>6
    <3>3. QED
      BY <3>1, <3>2
  <2>9. i <= Cardinality(upto(q))
    <3> HIDE DEF upto, before
    <3>1. QED
      BY <2>1, <2>2, <2>3, <2>8
  <2>10. q \in S
    BY <2>7, <2>9
  <2>11. p <= q
    <3> HIDE DEF S
    <3>1. QED
      BY <1>4, <2>10
  <2>12. QED
    BY <1>5, <2>7, <2>11
<1>7. To(s, p, "sub") = Cardinality(upto(p))
  BY <1>1, <1>5, CountTo
<1>8. QED
  BY <1>5, <1>6, <1>7

LEMMA InsideAt ==
    ASSUME NEW s \in Seq(Frame), NEW p \in Positions(s, "sub")
    PROVE  Inside(s, To(s, p, "sub")) = To(s, p, "fun")
<1> DEFINE i == To(s, p, "sub")
<1>1. p \in DOMAIN s /\ Place(s, i) = p
  BY PlaceIs DEF Positions
<1> HIDE DEF i
<1>2. Inside(s, i) = To(s, p, "fun")
  BY <1>1, CountTo, Zenon DEF Inside
<1>3. QED
  BY <1>2 DEF i

(* A frame that is pushed is inside of the subshells that there are. *)
LEMMA InsidePush ==
    ASSUME NEW s \in Seq(Frame), NEW i \in Nat, i >= 1, i <= Cardinality(Positions(s, "sub"))
    PROVE  /\ Inside(s, i) \in Nat /\ Inside(s, i) <= Cardinality(Positions(s, "fun"))
           /\ Inside(<<"fun">> \o s, i) = Inside(s, i) + 1
           /\ Inside(<<"sub">> \o s, i + 1) = Inside(s, i)
<1>1. PICK p \in Positions(s, "sub") : To(s, p, "sub") = i
  BY PlaceExists
<1>2. p \in DOMAIN s /\ s[p] = "sub" /\ p \in 0..Len(s) /\ p \in Nat
  BY <1>1 DEF Positions
<1>3. Place(s, i) = p
  BY <1>1, PlaceIs
<1>4. Inside(s, i) = To(s, p, "fun")
  BY <1>1, InsideAt
<1>5. To(s, p, "fun") \in Nat /\ To(s, p, "fun") <= Cardinality(Positions(s, "fun"))
  <2> DEFINE F == Positions(s, "fun")
             G == {q \in F : q <= p}
  <2>1. IsFiniteSet(F) /\ G \subseteq F
    BY CountPush DEF Frame
  <2>2. Cardinality(G) <= Cardinality(F) /\ Cardinality(G) \in Nat
    <3> HIDE DEF F, G
    <3>1. QED
      BY <2>1, FS_Subset, FS_CardinalityType
  <2>3. To(s, p, "fun") = Cardinality(G)
    BY <1>2, CountTo
  <2>4. QED
    BY <2>2, <2>3
<1>6. ASSUME NEW e \in Frame
      PROVE  /\ Place(<<e>> \o s, i + (IF e = "sub" THEN 1 ELSE 0)) = p + 1
             /\ Inside(<<e>> \o s, i + (IF e = "sub" THEN 1 ELSE 0))
                   = Inside(s, i) + (IF e = "fun" THEN 1 ELSE 0)
  <2> DEFINE t == <<e>> \o s
  <2>1. t \in Seq(Frame) /\ p + 1 \in DOMAIN t /\ t[p + 1] = "sub"
    BY <1>2
  <2>2. p + 1 \in Positions(t, "sub")
    BY <2>1 DEF Positions
  <2>3. /\ To(t, p + 1, "sub") = To(s, p, "sub") + (IF e = "sub" THEN 1 ELSE 0)
        /\ To(t, p + 1, "fun") = To(s, p, "fun") + (IF e = "fun" THEN 1 ELSE 0)
    BY <1>2, PrefixPush
  <2> HIDE DEF t
  <2>4. Place(t, i + (IF e = "sub" THEN 1 ELSE 0)) = p + 1
    <3>1. Place(t, To(t, p + 1, "sub")) = p + 1
      BY <2>1, <2>2, PlaceIs
    <3>2. QED
      BY <1>1, <2>3, <3>1
  <2>5. Inside(t, i + (IF e = "sub" THEN 1 ELSE 0)) = To(t, p + 1, "fun")
    <3>1. To(t, p + 1, "sub") = i + (IF e = "sub" THEN 1 ELSE 0)
      BY <1>1, <2>3
    <3>2. Inside(t, To(t, p + 1, "sub")) = To(t, p + 1, "fun")
      BY <2>1, <2>2, InsideAt
    <3>3. QED
      BY <3>1, <3>2
  <2>6. QED
    BY <1>4, <2>3, <2>4, <2>5 DEF t
<1>7. Inside(<<"fun">> \o s, i + 0) = Inside(s, i) + 1
  <2>1. "fun" \in Frame /\ "fun" # "sub"
    BY DEF Frame
  <2>2. QED
    BY <1>6, <2>1
<1>8. Inside(<<"sub">> \o s, i + 1) = Inside(s, i) + 0
  <2>1. "sub" \in Frame /\ "fun" # "sub"
    BY DEF Frame
  <2>2. QED
    BY <1>6, <2>1
<1>9. i + 0 = i /\ Inside(s, i) + 0 = Inside(s, i)
  BY <1>4, <1>5
<1>10. QED
  BY <1>4, <1>5, <1>7, <1>8, <1>9, Zenon

LEMMA InsideFirst ==
    ASSUME NEW s \in Seq(Frame)
    PROVE  Inside(<<"sub">> \o s, 1) = 0
<1> DEFINE t == <<"sub">> \o s
<1>1. t \in Seq(Frame) /\ 1 \in DOMAIN t /\ t[1] = "sub" /\ "sub" \in Frame
  BY DEF Frame
<1>2. 1 \in Positions(t, "sub")
  BY <1>1 DEF Positions
<1> HIDE DEF t
<1>3. To(t, 1, "sub") = 1
  <2>1. To(s, 0, "sub") = 0
    <3>1. SubSeq(s, 1, 0) = <<>>
      OBVIOUS
    <3>2. Positions(SubSeq(s, 1, 0), "sub") = {}
      BY <3>1 DEF Positions
    <3>3. QED
      BY <3>2, FS_EmptySet DEF To
  <2>2. To(<<"sub">> \o s, 0 + 1, "sub") = To(s, 0, "sub") + 1
    BY <1>1, PrefixPush
  <2>3. QED
    BY <2>1, <2>2 DEF t
<1>4. Place(t, 1) = 1
  BY <1>1, <1>2, <1>3, PlaceIs
<1>5. {p \in 1..Place(t, 1) : t[p] = "fun"} = {}
  BY <1>1, <1>4
<1>6. QED
  BY <1>5, FS_EmptySet DEF Inside, t

(* What subshell i has found depends on what has been saved, and on the rest where
   nothing has. *)
Content(t, node) == t[node[1]][node[2]]
SavedAlike(d, e, i, node) ==
    \A j \in 1..i : /\ node \in DOMAIN e[j].svar <=> node \in DOMAIN d[j].svar
                    /\ node \in DOMAIN d[j].svar => e[j].svar[node] = d[j].svar[node]

LEMMA OfSame ==
    ASSUME NEW t, NEW u, NEW d, NEW e, NEW i \in Nat, NEW node, SavedAlike(d, e, i, node),
           Savers(d, i, node) # {} \/ Content(u, node) = Content(t, node)
    PROVE  Of(u, e, i, node) = Of(t, d, i, node)
<1> DEFINE D == Savers(d, i, node)
           last == CHOOSE j \in D : \A m \in D : m <= j
<1>1. Savers(e, i, node) = D
  BY DEF Savers, SavedAlike
<1>2. CASE D = {}
  BY <1>1, <1>2 DEF Of, Content
<1>3. CASE D # {}
  <2>1. D \in SUBSET (0..i) /\ \A j \in D : j \in 1..i /\ node \in DOMAIN d[j].svar
    BY DEF Savers
  <2>2. last \in D
    <3> HIDE DEF D
    <3>1. \E j \in D : \A m \in D : m <= j
      BY <1>3, <2>1, Greatest
    <3>2. QED
      BY <3>1
  <2>3. Of(u, e, i, node) = e[last].svar[node] /\ Of(t, d, i, node) = d[last].svar[node]
    BY <1>1, <1>3, Zenon DEF Of
  <2> HIDE DEF D, last
  <2>4. QED
    BY <2>1, <2>2, <2>3 DEF SavedAlike
<1>4. QED
  BY <1>2, <1>3

(* What sp puts back into u. *)
PutBack(u, sp, node) == IF node \in DOMAIN sp.svar THEN sp.svar[node] ELSE u[node[1]][node[2]]
IsPushed(e, d, i) == \A j \in 1..i : e[j + 1] = d[j]

(* Where one more subshell is in front, it counts where no other has saved. *)
LEMMA OfPush ==
    ASSUME NEW t, NEW u, NEW d, NEW e, NEW i \in Nat, NEW k, k = i + 1, NEW node,
           IsPushed(e, d, i), t[node[1]][node[2]] = PutBack(u, e[1], node)
    PROVE  Of(u, e, k, node) = Of(t, d, i, node)
<1> DEFINE D == Savers(d, i, node)
           E == Savers(e, k, node)
           last == CHOOSE j \in D : \A m \in D : m <= j
<1>1. \A j \in 1..i + 1 : j \in Nat /\ (j = 1 \/ (j - 1 \in 1..i /\ j = (j - 1) + 1))
  OBVIOUS
<1>2. /\ \A j \in D : j \in 1..i /\ j + 1 \in E
      /\ \A j \in E : j = 1 \/ j - 1 \in D
      /\ \A j \in E : j \in 1..i + 1
      /\ 1 \in E <=> node \in DOMAIN e[1].svar
  <2>1. \A j \in 1..i : j + 1 \in 1..i + 1
    OBVIOUS
  <2>2. 1 \in 1..i + 1
    OBVIOUS
  <2>3. QED
    BY <1>1, <2>1, <2>2 DEF Savers, IsPushed
<1>3. CASE D = {} /\ E = {}
  <2>1. node \notin DOMAIN e[1].svar
    BY <1>2, <1>3
  <2>2. QED
    BY <1>3, <2>1, Zenon DEF Of, PutBack
<1>4. CASE D = {} /\ E # {}
  <2>1. E = {1}
    BY <1>2, <1>4
  <2>2. (CHOOSE j \in E : \A m \in E : m <= j) = 1
    <3> HIDE DEF E
    <3>1. QED
      BY <2>1
  <2>3. Of(u, e, k, node) = e[1].svar[node]
    BY <1>4, <2>2, Zenon DEF Of
  <2>4. 1 \in E
    <3> HIDE DEF E
    <3>1. QED
      BY <2>1
  <2>5. Of(t, d, i, node) = t[node[1]][node[2]]
    BY <1>4, Zenon DEF Of
  <2>6. QED
    BY <1>2, <2>3, <2>4, <2>5, Zenon DEF PutBack
<1>5. CASE D # {}
  <2> HIDE DEF D, E
  <2>1. D \in SUBSET (0..i)
    BY <1>2
  <2>2. last \in D /\ \A m \in D : m <= last
    <3>1. \E j \in D : \A m \in D : m <= j
      BY <1>5, <2>1, Greatest
    <3>2. QED
      BY <3>1
  <2> HIDE DEF last
  <2>3. last + 1 \in E /\ last \in 1..i /\ \A m \in E : m <= last + 1
    <3>1. SUFFICES ASSUME NEW m \in E
                   PROVE  m <= last + 1
      BY <1>2, <2>2
    <3>2. m \in Nat /\ last \in Nat /\ last >= 1
      BY <1>2, <2>2
    <3>3. CASE m = 1
      BY <3>2, <3>3
    <3>4. CASE m - 1 \in D
      BY <2>2, <3>2, <3>4
    <3>5. QED
      BY <1>2, <3>3, <3>4
  <2>4. \A j \in E : (\A m \in E : m <= j) => j = last + 1
    <3>1. \A j \in E : j \in Nat
      BY <1>2
    <3>2. last \in Nat
      BY <2>3
    <3>3. QED
      BY <2>3, <3>1, <3>2
  <2>5. (CHOOSE j \in E : \A m \in E : m <= j) = last + 1
    BY <2>3, <2>4
  <2>6. E # {}
    BY <2>3
  <2>7. Of(u, e, k, node) = e[last + 1].svar[node]
    BY <2>5, <2>6, Zenon DEF Of, E
  <2>8. Of(t, d, i, node) = d[last].svar[node]
    BY <1>5, Zenon DEF Of, D, last
  <2>9. QED
    BY <2>3, <2>7, <2>8 DEF IsPushed
<1>6. QED
  BY <1>3, <1>4, <1>5

(* The tables of the subshells up to i. *)
LEMMA TabsToFacts ==
    ASSUME NEW d, NEW i \in Nat
    PROVE  IsFiniteSet(TabsTo(d, i)) /\ Cardinality(TabsTo(d, i)) \in Nat /\ TabsTo(d, i) \in SUBSET Nat
<1>1. TabsTo(d, i) \subseteq 1..i /\ IsFiniteSet(1..i)
  BY FS_Interval DEF TabsTo
<1>2. QED
  BY <1>1, FS_Subset, FS_CardinalityType

LEMMA TabsPush ==
    ASSUME NEW d, NEW e, NEW i \in Nat, NEW k, k = i + 1, IsPushed(e, d, i)
    PROVE  Cardinality(TabsTo(e, k)) = Cardinality(TabsTo(d, i)) + (IF e[1].sfun THEN 1 ELSE 0)
<1> DEFINE T == TabsTo(d, i)
           S == {j + 1 : j \in T}
<1>1. IsFiniteSet(T) /\ Cardinality(T) \in Nat /\ T \in SUBSET Nat
  BY TabsToFacts
<1>2. IsFiniteSet(S) /\ Cardinality(S) = Cardinality(T)
  BY <1>1, CountShift
<1>3. \A j \in S : j \in 2..i + 1 /\ e[j].sfun
  BY DEF TabsTo, IsPushed
<1>4. \A j \in 1..i + 1 : j # 1 /\ e[j].sfun => j \in S
  <2>1. SUFFICES ASSUME NEW j \in 1..i + 1, j # 1, e[j].sfun
                 PROVE  j \in S
    OBVIOUS
  <2>2. j - 1 \in 1..i /\ j = (j - 1) + 1
    BY <2>1
  <2>3. j - 1 \in T
    BY <2>1, <2>2 DEF TabsTo, IsPushed
  <2>4. QED
    BY <2>2, <2>3
<1>5. 1 \notin S
  BY <1>3
<1>6. TabsTo(e, k) = IF e[1].sfun THEN S \cup {1} ELSE S
  <2> HIDE DEF S
  <2>1. \A j \in S : j \in 1..i + 1
    BY <1>3
  <2>2. 1 \in 1..i + 1
    OBVIOUS
  <2>3. QED
    BY <1>3, <1>4, <2>1, <2>2 DEF TabsTo
<1> HIDE DEF S
<1>7. Cardinality(S \cup {1}) = Cardinality(S) + 1
  BY <1>2, <1>5, FS_AddElement
<1>8. QED
  BY <1>1, <1>2, <1>6, <1>7

(* Saving a variable in the innermost subshell keeps what was found. *)
LEMMA OfSaved ==
    ASSUME NEW t, NEW u, NEW d, NEW e, NEW i \in Nat \ {0}, NEW node,
           \A j \in 2..i : e[j] = d[j],
           node \notin DOMAIN d[1].svar, node \in DOMAIN e[1].svar,
           e[1].svar[node] = t[node[1]][node[2]]
    PROVE  Of(u, e, i, node) = Of(t, d, i, node)
<1>1. PICK k \in Nat : i = k + 1 /\ \A j \in 1..k : j + 1 \in 2..i
  <2>1. i - 1 \in Nat /\ i = (i - 1) + 1 /\ \A j \in 1..i - 1 : j + 1 \in 2..i
    OBVIOUS
  <2>2. QED
    BY <2>1
<1> DEFINE r == [j \in 1..k |-> d[j + 1]]
<1>2. IsPushed(d, r, k) /\ IsPushed(e, r, k)
  BY <1>1 DEF IsPushed
<1> HIDE DEF r
<1>3. Of(u, e, i, node) = Of(t, r, k, node)
  <2>1. t[node[1]][node[2]] = PutBack(u, e[1], node)
    BY Zenon DEF PutBack
  <2>2. QED
    BY <1>1, <1>2, <2>1, OfPush
<1>4. Of(t, d, i, node) = Of(t, r, k, node)
  <2>1. t[node[1]][node[2]] = PutBack(t, d[1], node)
    BY Zenon DEF PutBack
  <2>2. QED
    BY <1>1, <1>2, <2>1, OfPush
<1>5. QED
  BY <1>3, <1>4

LEMMA PrefixSame ==
    ASSUME NEW S, NEW p \in Seq(S), NEW q \in Seq(S), NEW k \in Nat, k <= Len(p), k <= Len(q),
           \A j \in 1..k : p[j] = q[j]
    PROVE  SubSeq(p, 1, k) = SubSeq(q, 1, k)
OBVIOUS

IsList(p, m) == p = [i \in 1..m |-> p[i]]

LEMMA Pushed ==
    ASSUME NEW m \in Nat, NEW k, k = m + 1, NEW e, NEW p, NEW q, IsList(p, m), IsList(q, k),
           q[1] = e, \A i \in 1..m : q[i + 1] = p[i]
    PROVE  q = <<e>> \o p /\ q # <<>> /\ Head(q) = e /\ Tail(q) = p
<1> DEFINE S == {p[i] : i \in 1..m} \cup {e}
<1>1. \A i \in 1..m : p[i] \in S
  OBVIOUS
<1>2. e \in S
  OBVIOUS
<1> HIDE DEF S
<1>3. p \in Seq(S) /\ Len(p) = m
  BY <1>1 DEF IsList
<1>4. \A i \in 1..m + 1 : i = 1 \/ (i - 1 \in 1..m /\ i = (i - 1) + 1)
  OBVIOUS
<1>5. \A i \in 1..m + 1 : q[i] \in S
  BY <1>1, <1>2, <1>4
<1>6. q \in Seq(S) /\ Len(q) = m + 1
  BY <1>5 DEF IsList
<1> DEFINE c == <<e>> \o p
<1>7. /\ c \in Seq(S) /\ Len(c) = m + 1 /\ c[1] = e /\ \A i \in 1..m : c[i + 1] = p[i]
  BY <1>2, <1>3
<1> HIDE DEF c
<1>8. \A i \in 1..m + 1 : q[i] = c[i]
  BY <1>4, <1>7
<1>9. q = c
  BY <1>6, <1>7, <1>8
<1>10. Head(c) = e /\ Tail(c) = p
  BY <1>2, <1>3 DEF c
<1>11. q # <<>>
  BY <1>6
<1>12. QED
  BY <1>9, <1>10, <1>11 DEF c

--------------------------------------------------------------------------------
(* Functions in a list of tables. *)

LEMMA LookupOfAppended ==
    ASSUME NEW tables \in Seq(FunTable), NEW top \in FunTable, NEW f \in Function, top[f] = Absent
    PROVE  Lookup(Append(tables, top), f) = Lookup(tables, f)
<1> DEFINE others == Append(tables, top)
           in == {i \in DOMAIN tables : tables[i][f] # Absent}
           on == {i \in DOMAIN others : others[i][f] # Absent}
           last(S) == CHOOSE i \in S : \A j \in S : j <= i
<1>1. /\ Len(others) = Len(tables) + 1 /\ others[Len(tables) + 1] = top /\ others \in Seq(FunTable)
      /\ \A i \in DOMAIN tables : i \in DOMAIN others /\ others[i] = tables[i]
      /\ \A i \in DOMAIN others : i \in DOMAIN tables \/ i = Len(tables) + 1
  OBVIOUS
<1>2. in = on
  <2> HIDE DEF others
  <2>1. QED
    BY <1>1
<1>3. Lookup(tables, f) = IF in = {} \/ tables[last(in)][f] = Dummy THEN Absent
                          ELSE tables[last(in)][f]
  BY Zenon DEF Lookup
<1>4. Lookup(others, f) = IF on = {} \/ others[last(on)][f] = Dummy THEN Absent
                          ELSE others[last(on)][f]
  BY Zenon DEF Lookup
<1>5. in # {} => last(in) \in DOMAIN tables
  <2>1. in \in SUBSET (0..Len(tables)) /\ Len(tables) \in Nat /\ in \subseteq DOMAIN tables
    OBVIOUS
  <2> HIDE DEF in
  <2>2. in # {} => \E i \in in : \A j \in in : j <= i
    BY <2>1, Greatest
  <2>3. QED
    BY <2>1, <2>2
<1>6. in # {} => others[last(in)] = tables[last(in)]
  <2> HIDE DEF others, in, last
  <2>1. QED
    BY <1>1, <1>5
<1> HIDE DEF in, on, last, others
<1>7. Lookup(others, f) = Lookup(tables, f)
  BY <1>2, <1>3, <1>4, <1>6
<1>8. QED
  BY <1>7 DEF others

LEMMA LookupOfTop ==
    ASSUME NEW tables \in Seq(FunTable), tables # <<>>, NEW f \in Function,
           tables[Len(tables)][f] # Absent, tables[Len(tables)][f] # Dummy
    PROVE  Lookup(tables, f) = tables[Len(tables)][f]
<1> DEFINE in == {i \in DOMAIN tables : tables[i][f] # Absent}
<1>1. Len(tables) \in in /\ \A i \in in : i \in Nat /\ i <= Len(tables)
  OBVIOUS
<1>2. \A i \in in : (\A j \in in : j <= i) => i = Len(tables)
  BY <1>1
<1> HIDE DEF in
<1>3. (CHOOSE i \in in : \A j \in in : j <= i) = Len(tables)
  BY <1>1, <1>2
<1>4. in # {}
  BY <1>1
<1>5. QED
  BY <1>3, <1>4 DEF Lookup, in

LEMMA LookupInTables ==
    ASSUME Typed, NEW f \in Function
    PROVE  Lookup(Tables, f) = Lookup(funs, f)
<1> DEFINE empty == [g \in Function |-> Absent]
<1>1. funs \in Seq(FunTable) /\ empty \in FunTable /\ empty[f] = Absent
  BY DEF Typed, TypeOK, FunTable
<1> HIDE DEF empty
<1>2. Lookup(Append(funs, empty), f) = Lookup(funs, f)
  BY <1>1, LookupOfAppended
<1>3. Tables = IF NewTable THEN Append(funs, empty) ELSE funs
  BY DEF Tables, empty
<1>4. QED
  BY <1>2, <1>3

--------------------------------------------------------------------------------
(* The shells that wait. *)

LEMMA LevelsAre ==
    ASSUME Typed, SharedOuter
    PROVE  \E m \in 0..Subshell : /\ Levels = 1..m /\ Cardinality(Levels) = m /\ m \in Nat
                                  /\ Virtual => m >= 1
<1>1. Subshell \in Nat /\ Levels \subseteq 1..Subshell
  BY LevelFacts
<1>2. CASE Levels = {}
  <2>1. ~ Virtual
    BY <1>2, FirstLevel
  <2>2. Levels = 1..0 /\ 0 \in 0..Subshell
    BY <1>1, <1>2
  <2>3. QED
    BY <1>2, <2>1, <2>2, FS_EmptySet
<1>3. CASE Levels # {}
  <2>1. PICK m \in Levels : \A i \in Levels : i <= m
    <3>1. Levels \in SUBSET (0..Subshell)
      BY <1>1
    <3>2. QED
      BY <1>1, <1>3, <3>1, Greatest
  <2>2. m \in 1..Subshell /\ ~ IsShared(m) /\ m \in Nat /\ m >= 1
    BY <1>1, <2>1 DEF Levels
  <2>3. \A i \in 1..m : i \in Levels
    <3>1. SUFFICES ASSUME NEW i \in 1..m
                   PROVE  i \in Levels
      OBVIOUS
    <3>2. i \in 1..Subshell /\ (i = m \/ i < m)
      BY <1>1, <2>2
    <3>3. ~ IsShared(i)
      BY <2>2, <3>2 DEF SharedOuter
    <3>4. QED
      BY <3>2, <3>3 DEF Levels
  <2>4. \A i \in Levels : i \in 1..m
    BY <1>1, <2>1, <2>2
  <2>5. Levels = 1..m
    BY <2>3, <2>4
  <2>6. Cardinality(1..m) = m
    BY <2>2, FS_Interval
  <2>7. QED
    BY <1>1, <2>2, <2>5, <2>6
<1>4. QED
  BY <1>2, <1>3

LEMMA ParentsSame ==
    ASSUME Typed, SharedOuter, Levels' = Levels,
           \A i \in Levels : Environment(i)' = Environment(i)
    PROVE  Parents' = Parents
<1>1. PICK m \in Nat : Levels = 1..m /\ Cardinality(Levels) = m
  BY LevelsAre
<1>2. Parents = [i \in 1..m |-> Environment(i)]
  BY <1>1 DEF Parents
<1>3. Cardinality(Levels)' = m
  BY <1>1
<1>4. Parents' = [i \in 1..m |-> Environment(i)']
  BY <1>3 DEF Parents
<1>5. QED
  BY <1>1, <1>2, <1>4

LEMMA ParentsNone ==
    ASSUME Levels = {}
    PROVE  Parents = <<>>
BY FS_EmptySet DEF Parents

(* What is outside of subshell i, and how much it is. *)
LEMMA LevelIs ==
    ASSUME Typed, SharedOuter, NEW i \in Levels
    PROVE  /\ Virtual /\ i \in Nat /\ i >= 1 /\ i \in DOMAIN data /\ i \in 1..Subshell
           /\ calls \in Seq(Frame) /\ i <= Cardinality(Positions(calls, "sub"))
           /\ Inside(calls, i) \in Nat /\ Inside(calls, i) < Len(tree) /\ Len(tree) \in Nat
           /\ Cardinality(TabsTo(data, i)) \in Nat /\ Cardinality(TabsTo(data, i)) < Len(funs)
           /\ Len(funs) \in Nat
<1>1. Virtual /\ i \in 1..Subshell /\ i \in Nat /\ i >= 1 /\ i \in DOMAIN data
  BY LevelFacts, NoLevels
<1>2. calls \in Seq(Frame) /\ Subshell = Cardinality(Positions(calls, "sub")) /\ Subshell \in Nat
  BY CountsAreNumbers DEF Typed, TypeOK
<1>3. i <= Cardinality(Positions(calls, "sub"))
  BY <1>1, <1>2
<1>4. Inside(calls, i) \in Nat /\ Inside(calls, i) <= Cardinality(Funs)
  BY <1>1, <1>2, <1>3, InsidePush DEF Funs
<1>5. Len(tree) \in Nat /\ Len(funs) \in Nat
  BY DEF Typed, TypeOK
<1>6. Inside(calls, i) < Len(tree)
  BY <1>4, <1>5, CountsAreNumbers DEF Typed, Counted
<1>7. Cardinality(TabsTo(data, i)) \in Nat /\ Cardinality(TabsTo(data, i)) <= Cardinality(Tabs)
  <2>1. TabsTo(data, i) \subseteq Tabs
    BY <1>1, <1>2 DEF TabsTo, Tabs
  <2>2. QED
    BY <2>1, <1>1, TabsToFacts, CountsAreNumbers, FS_Subset
<1>8. Cardinality(TabsTo(data, i)) < Len(funs)
  BY <1>5, <1>7, CountsAreNumbers DEF Typed, Counted
<1>9. QED
  BY <1>1, <1>2, <1>3, <1>4, <1>5, <1>6, <1>7, <1>8

(* Inside of what the innermost function or subshell is. *)
LEMMA InsideTail ==
    ASSUME NEW s \in Seq(Frame), s # <<>>, Head(s) = "fun",
           NEW i \in Nat, i >= 1, i <= Cardinality(Positions(s, "sub"))
    PROVE  Inside(s, i) = Inside(Tail(s), i) + 1 /\ Inside(Tail(s), i) \in Nat
<1> DEFINE t == Tail(s)
<1>1. t \in Seq(Frame) /\ s = <<"fun">> \o t
  OBVIOUS
<1>2. Cardinality(Positions(s, "sub")) = Cardinality(Positions(t, "sub")) + 0
  BY CountTail
<1> HIDE DEF t
<1>3. Cardinality(Positions(t, "sub")) \in Nat
  BY <1>1, CountPush DEF Frame
<1>4. i <= Cardinality(Positions(t, "sub"))
  BY <1>2, <1>3
<1>5. Inside(<<"fun">> \o t, i) = Inside(t, i) + 1 /\ Inside(t, i) \in Nat
  BY <1>1, <1>4, InsidePush
<1>6. QED
  BY <1>1, <1>5, Zenon DEF t

(* The innermost subshell saves a variable of the scopes that there are. *)
LEMMA PutSaves ==
    ASSUME Typed, NEW s \in DOMAIN tree, NEW n \in Name, NEW v, Put(<<s, n>>, v)
    PROVE  /\ ~ Virtual \/ IsKept(<<s, n>>) => data' = data
           /\ Virtual /\ ~ IsKept(<<s, n>>) =>
                /\ 1 \in DOMAIN data /\ \A i \in DOMAIN data : i # 1 => data'[i] = data[i]
                /\ DOMAIN data'[1].svar = DOMAIN data[1].svar \cup {<<s, n>>}
                /\ \A m \in DOMAIN data[1].svar : data'[1].svar[m] = data[1].svar[m]
                /\ data'[1].svar[<<s, n>>] = ValueOf(<<s, n>>)
<1> DEFINE node == <<s, n>>
<1>1. data' = sh_assignok(node)
  BY DEF Put
<1>2. CASE ~ Virtual \/ IsKept(node)
  BY <1>1, <1>2 DEF sh_assignok
<1>3. CASE Virtual /\ ~ IsKept(node)
  <2> DEFINE svar == [m \in DOMAIN data[1].svar \cup {node} |-> IF m = node THEN ValueOf(m)
                                                                ELSE data[1].svar[m]]
             new == [data[1] EXCEPT !.svar = svar]
  <2>1. 1 \in DOMAIN data /\ data[1] \in SubshellData /\ data \in Seq(SubshellData)
    BY <1>3, SavedInVirtual DEF Typed
  <2>2. data' = [data EXCEPT ![1] = new]
    BY <1>1, <1>3, <2>1 DEF sh_assignok
  <2>3. new.svar = svar
    BY <2>1 DEF SubshellData
  <2>4. node \notin DOMAIN data[1].svar
    BY <1>3 DEF IsKept
  <2> HIDE DEF new, node
  <2>5. /\ \A i \in DOMAIN data : i # 1 => data'[i] = data[i]
        /\ data'[1] = new
    BY <2>1, <2>2
  <2>6. /\ DOMAIN svar = DOMAIN data[1].svar \cup {node} /\ svar[node] = ValueOf(node)
        /\ \A m \in DOMAIN data[1].svar : svar[m] = data[1].svar[m]
    BY <2>4
  <2> HIDE DEF svar
  <2>7. data'[1].svar = svar
    BY <2>3, <2>5, Zenon
  <2>8. QED
    BY <1>3, <2>1, <2>5, <2>6, <2>7, Zenon DEF node
<1>4. QED
  BY <1>2, <1>3

--------------------------------------------------------------------------------
(* The variables. *)

LEMMA OfSameNow ==
    ASSUME NEW i \in Nat, NEW node, SavedAlike(data, data', i, node),
           Content(tree', node) = Content(tree, node)
    PROVE  Of(tree', data', i, node) = Of(tree, data, i, node)
BY OfSame

LEMMA OriginPut ==
    ASSUME Typed, SharedOuter, NEW s \in DOMAIN tree, NEW n \in Name, NEW v, Put(<<s, n>>, v),
           Virtual /\ tree[s][n] = Absent => s = Len(tree) /\ calls # <<>> /\ Head(calls) = "fun",
           NEW i \in Levels
    PROVE  Origin(tree', funs', data', calls', i) = Origin(tree, funs, data, calls, i)
<1> DEFINE node == <<s, n>>
<1>1. /\ tree' = [tree EXCEPT ![s][n] = v] /\ funs' = funs /\ calls' = calls
      /\ data' = sh_assignok(<<s, n>>)
  BY DEF Put
<1>2. tree \in Seq(Scope) /\ \A k \in DOMAIN tree : tree[k] \in Scope
  BY DEF Typed, TypeOK
<1>3. /\ Len(tree') = Len(tree)
      /\ \A k \in DOMAIN tree, m \in Name : <<k, m>> # node => tree'[k][m] = tree[k][m]
  <2>1. tree' = [tree EXCEPT ![s] = [tree[s] EXCEPT ![n] = v]]
    BY <1>1
  <2>2. \A m \in Name : [tree[s] EXCEPT ![n] = v][m] = IF m = n THEN v ELSE tree[s][m]
    BY <1>2 DEF Scope
  <2>3. QED
    BY <1>2, <2>1, <2>2
<1>4. /\ Virtual /\ i \in Nat /\ i >= 1 /\ i \in DOMAIN data /\ i \in 1..Subshell
      /\ calls \in Seq(Frame) /\ i <= Cardinality(Positions(calls, "sub"))
      /\ Inside(calls, i) \in Nat /\ Len(tree) \in Nat
  BY LevelIs
<1>5. \A j \in 1..i : j \in DOMAIN data
  BY <1>4 DEF Typed
<1>6. /\ IsKept(node) => data' = data
      /\ ~ IsKept(node) =>
           /\ 1 \in DOMAIN data /\ \A j \in DOMAIN data : j # 1 => data'[j] = data[j]
           /\ DOMAIN data'[1].svar = DOMAIN data[1].svar \cup {node}
           /\ \A m \in DOMAIN data[1].svar : data'[1].svar[m] = data[1].svar[m]
           /\ data'[1].svar[node] = ValueOf(node)
  BY <1>4, PutSaves
<1>7. \A j \in 1..i : data'[j].sfun = data[j].sfun /\ data'[j].pwd = data[j].pwd
  BY <1>1, <1>5, AssignokType
<1>8. ASSUME NEW k \in 1..Len(tree) - Inside(calls, i), NEW m \in Name,
             NEW other, other = <<k, m>>
      PROVE  Of(tree', data', i, other) = Of(tree, data, i, other)
  <2>1. k \in DOMAIN tree
    BY <1>2, <1>4
  <2>2. other[1] = k /\ other[2] = m
    BY <1>8
  <2>3. CASE other # node
    <3>1. tree'[k][m] = tree[k][m]
      BY <1>3, <1>8, <2>1, <2>3
    <3> HIDE DEF node
    <3>2. Content(tree', other) = Content(tree, other)
      BY <2>2, <3>1 DEF Content
    <3>3. SavedAlike(data, data', i, other)
      BY <1>5, <1>6, <2>3 DEF SavedAlike
    <3>4. Of(tree', data', i, other) = Of(tree, data, i, other)
      BY <1>4, <3>2, <3>3, OfSameNow
    <3>5. QED
      BY <3>4
  <2>4. CASE other = node /\ IsKept(node)
    <3> HIDE DEF node
    <3>1. data' = data
      BY <1>6, <2>4
    <3>2. Savers(data, i, other) # {}
      BY <1>4, <2>4 DEF Savers, IsKept
    <3>3. SavedAlike(data, data', i, other)
      BY <3>1, Zenon DEF SavedAlike
    <3>4. Of(tree', data', i, other) = Of(tree, data, i, other)
      BY <1>4, <3>2, <3>3, OfSame
    <3>5. QED
      BY <3>4
  <2>5. CASE other = node /\ ~ IsKept(node)
    <3>1. k = s /\ m = n
      BY <1>8, <2>5
    <3>2. tree[s][n] # Absent
      <4>1. SUFFICES ASSUME tree[s][n] = Absent
                     PROVE  FALSE
        OBVIOUS
      <4>2. s = Len(tree) /\ calls # <<>> /\ Head(calls) = "fun"
        BY <1>4, <4>1
      <4>3. Inside(calls, i) = Inside(Tail(calls), i) + 1 /\ Inside(Tail(calls), i) \in Nat
        BY <1>4, <4>2, InsideTail
      <4>4. k <= Len(tree) - Inside(calls, i)
        BY <1>4
      <4>5. QED
        BY <1>4, <3>1, <4>2, <4>3, <4>4
    <3>3. ValueOf(node) = tree[s][n]
      BY <3>2 DEF ValueOf
    <3>4. tree[other[1]][other[2]] = tree[s][n]
      BY <2>2, <3>1
    <3> HIDE DEF node
    <3>5. /\ other \notin DOMAIN data[1].svar /\ other \in DOMAIN data'[1].svar
          /\ data'[1].svar[other] = tree[other[1]][other[2]]
      BY <1>6, <2>5, <3>3, <3>4 DEF IsKept
    <3>6. \A j \in 2..i : data'[j] = data[j]
      <4>1. \A j \in 2..i : j \in 1..i /\ j # 1
        BY <1>4
      <4>2. QED
        BY <1>5, <1>6, <2>5, <4>1
    <3>7. i \in Nat \ {0}
      BY <1>4
    <3>8. Of(tree', data', i, other) = Of(tree, data, i, other)
      BY <3>5, <3>6, <3>7, OfSaved
    <3>9. QED
      BY <3>8
  <2>6. QED
    BY <2>3, <2>4, <2>5
<1>9. TabsTo(data', i) = TabsTo(data, i)
  BY <1>7 DEF TabsTo
<1>10. TablesOf(funs', data', i) = TablesOf(funs, data, i)
  BY <1>1, <1>9 DEF TablesOf
<1>11. data'[i].pwd = data[i].pwd
  <2>1. i \in 1..i
    BY <1>4
  <2>2. QED
    BY <1>7, <2>1
<1> HIDE DEF node
<1>12. \A k \in 1..Len(tree) - Inside(calls, i), m \in Name :
          Of(tree', data', i, <<k, m>>) = Of(tree, data, i, <<k, m>>)
  BY <1>8, Zenon
<1>13. Variables(tree', data', calls', i) = Variables(tree, data, calls, i)
  BY <1>1, <1>3, <1>12 DEF Variables
<1>14. QED
  BY <1>10, <1>11, <1>13 DEF Origin


LEMMA ParentsKept ==
    ASSUME Typed, SharedOuter, Levels' = Levels,
           \A i \in Levels : Origin(tree', funs', data', calls', i) = Origin(tree, funs, data, calls, i)
    PROVE  Parents' = Parents
<1>1. \A i \in Levels : Environment(i)' = Environment(i)
  BY InTerms
<1>2. QED
  BY <1>1, ParentsSame

LEMMA RunsPut ==
    ASSUME Typed, SharedOuter, NEW s \in {1, Len(tree)}, NEW n \in Name,
           NEW v \in Value \cup {Null}, Put(<<s, n>>, v),
           Virtual /\ tree[s][n] = Absent => s = Len(tree) /\ calls # <<>> /\ Head(calls) = "fun"
    PROVE  Forked!Next
<1>1. s \in DOMAIN tree /\ UNCHANGED subshare
  BY DEF Put, Typed, TypeOK
<1>2. Levels' = Levels
  <2>1. \A i \in DOMAIN data : data'[i].subshare = data[i].subshare
    BY <1>1, AssignokType DEF Put
  <2>2. Subshell' = Subshell
    BY DEF Put, Subshell, Subs
  <2>3. QED
    BY <1>1, <2>1, <2>2, LevelsSame
<1>3. Parents' = Parents
  <2>1. \A i \in Levels : Origin(tree', funs', data', calls', i) = Origin(tree, funs, data, calls, i)
    BY <1>1, OriginPut
  <2>2. QED
    BY <1>2, <2>1, ParentsKept
<1>4. Current' = [Current EXCEPT !.tree[s][n] = v]
  <2>1. tree' = [tree EXCEPT ![s][n] = v] /\ funs' = funs /\ cwd' = cwd
    BY DEF Put
  <2>2. Env(tree', funs', cwd') = [Env(tree, funs, cwd) EXCEPT !.tree[s][n] = v]
    BY <2>1 DEF Env
  <2>3. QED
    BY <2>2, InTerms
<1>5. Forked!Assign
  <2>1. Current.tree = tree
    BY DEF Current
  <2>2. QED
    BY <1>4, <2>1 DEF Forked!Assign
<1>6. QED
  BY <1>3, <1>5 DEF Forked!Next, Forked!Change, Parents

(* No program declares variables in a subshell inside of a function. *)
NoDeclare == \A program \in Programs : "subtypeset" \notin program

LEMMA RunsVariables ==
    ASSUME Typed, SharedOuter, NoDeclare, NEW n \in Name,
           Unset(n) \/ \E v \in Value : Assign(n, v) \/ Typeset(n, v)
    PROVE  Forked!Next
<1>1. tree \in Seq(Scope) /\ tree # <<>> /\ tree[1][n] # Absent /\ Len(tree) \in Nat
  BY DEF Typed, TypeOK
<1>2. CASE \E v \in Value \cup {Null} : Put(Found(n), v)
  <2>1. PICK v \in Value \cup {Null} : Put(Found(n), v)
    BY <1>2
  <2>2. PICK s \in {1, Len(tree)} : Found(n) = <<s, n>> /\ tree[s][n] # Absent
    BY <1>1 DEF Found
  <2>3. QED
    BY <2>1, <2>2, RunsPut
<1>3. CASE \E v \in Value : Typeset(n, v)
  <2>1. PICK v \in Value : Typeset(n, v)
    BY <1>3
  <2>2. Put(<<Len(tree), n>>, v) /\ tree[Len(tree)][n] = Absent
    BY <2>1 DEF Typeset
  <2>3. Len(tree) # 1
    BY <1>1, <2>2
  <2>5. Virtual => calls # <<>> /\ Head(calls) = "fun"
    <3>1. SUFFICES ASSUME Virtual
                   PROVE  calls # <<>> /\ Head(calls) = "fun"
      OBVIOUS
    <3>2. calls \in Seq(Frame) /\ calls # <<>>
      <4>1. calls = <<>> => Subs = {}
        BY DEF Subs
      <4>2. Subs # {}
        BY <3>1, FS_EmptySet DEF Virtual, Subshell
      <4>3. QED
        BY <4>1, <4>2 DEF Typed, TypeOK
    <3>3. "subtypeset" \notin ops
      BY DEF NoDeclare, Typed, TypeOK
    <3>4. QED
      BY <2>1, <3>1, <3>2, <3>3 DEF Typeset, Frame
  <2>6. QED
    BY <2>2, <2>5, RunsPut
<1>4. QED
  BY <1>2, <1>3 DEF Unset, Assign


--------------------------------------------------------------------------------
(* The functions and the directory. *)

(* A table that is made is no other's, and what is defined goes into the last. *)
LEMMA TabledKeeps ==
    ASSUME Typed, NEW j \in DOMAIN data
    PROVE  /\ Tabled[j].svar = data[j].svar
           /\ Tabled[j].sfun = IF NewTable /\ j = 1 THEN TRUE ELSE data[j].sfun
<1>1. CASE ~ NewTable
  BY <1>1 DEF Tabled
<1>2. CASE NewTable
  <2>1. 1 \in DOMAIN data /\ data[1] \in SubshellData /\ data \in Seq(SubshellData)
    BY <1>2, SavedInVirtual DEF NewTable, Typed
  <2> DEFINE new == [data[1] EXCEPT !.sfun = TRUE]
  <2>2. new.sfun = TRUE /\ new.svar = data[1].svar
    BY <2>1 DEF SubshellData
  <2>3. Tabled = [data EXCEPT ![1] = new]
    BY <1>2, <2>1 DEF Tabled
  <2> HIDE DEF new
  <2>4. Tabled[1] = new /\ (j # 1 => Tabled[j] = data[j])
    BY <2>1, <2>3
  <2>5. QED
    BY <1>2, <2>2, <2>4
<1>3. QED
  BY <1>1, <1>2

LEMMA TablesMade ==
    ASSUME Typed, SharedOuter, NEW f \in Function, NEW x \in Body \cup {Absent, Dummy},
           funs' = [Tables EXCEPT ![Len(Tables)][f] = x], data' = Tabled, NEW i \in Levels
    PROVE  TablesOf(funs', data', i) = TablesOf(funs, data, i)
<1> DEFINE T == TabsTo(data, i)
           top == [Tables[Len(Tables)] EXCEPT ![f] = x]
<1>1. /\ Virtual /\ i \in Nat /\ i >= 1 /\ i \in DOMAIN data /\ Len(funs) \in Nat
      /\ Cardinality(T) \in Nat /\ Cardinality(T) < Len(funs) /\ IsFiniteSet(T)
  BY LevelIs, TabsToFacts
<1>2. /\ Tables \in Seq(FunTable) /\ Len(Tables) \in Nat /\ Tables # <<>> /\ funs \in Seq(FunTable)
      /\ Len(Tables) = Len(funs) + (IF NewTable THEN 1 ELSE 0)
      /\ \A j \in DOMAIN funs : Tables[j] = funs[j]
  <2>1. \A j \in DOMAIN funs : Tables[j] = funs[j]
    BY DEF Tables, Typed, TypeOK
  <2>2. QED
    BY <2>1, TablesType DEF Typed, TypeOK
<1>3. /\ funs' \in Seq(FunTable) /\ Len(funs') = Len(Tables)
      /\ \A j \in DOMAIN Tables : j # Len(Tables) => funs'[j] = Tables[j]
  <2>1. Len(Tables) \in DOMAIN Tables
    BY <1>2
  <2>2. top \in FunTable
    BY <1>2, <2>1 DEF FunTable
  <2>3. funs' = [Tables EXCEPT ![Len(Tables)] = top]
    BY <1>2, <2>1
  <2> HIDE DEF top
  <2>4. QED
    BY <1>2, <2>1, <2>2, <2>3
<1>4. \A j \in 1..i : j \in DOMAIN data
  BY <1>1 DEF Typed
<1>5. TabsTo(data', i) = IF NewTable THEN T \cup {1} ELSE T
  <2>1. \A j \in 1..i : data'[j].sfun = IF NewTable /\ j = 1 THEN TRUE ELSE data[j].sfun
    BY <1>4, TabledKeeps
  <2>2. 1 \in 1..i
    BY <1>1
  <2>3. QED
    BY <2>1, <2>2 DEF TabsTo
<1>6. /\ NewTable => 1 \notin T
      /\ ~ NewTable => 1 \in T
  BY <1>1 DEF NewTable, TabsTo
<1> DEFINE L == Len(funs) - Cardinality(T)
<1>7. Len(funs') - Cardinality(TabsTo(data', i)) = L
  <2>1. CASE NewTable
    <3>1. Cardinality(T \cup {1}) = Cardinality(T) + 1
      <4> HIDE DEF T
      <4>1. QED
        BY <1>1, <1>6, <2>1, FS_AddElement
    <3> HIDE DEF T
    <3>2. QED
      BY <1>1, <1>2, <1>3, <1>5, <2>1, <3>1
  <2>2. CASE ~ NewTable
    BY <1>1, <1>2, <1>3, <1>5, <2>2
  <2>3. QED
    BY <2>1, <2>2
<1>8. L \in Nat /\ L <= Len(funs) /\ L < Len(Tables)
  <2>1. CASE NewTable
    BY <1>1, <1>2, <2>1
  <2>2. CASE ~ NewTable
    <3>1. Cardinality(T) # 0
      <4> HIDE DEF T
      <4>1. QED
        BY <1>1, <1>6, <2>2, FS_EmptySet
    <3> HIDE DEF T
    <3>2. QED
      BY <1>1, <1>2, <2>2, <3>1
  <2>3. QED
    BY <2>1, <2>2
<1> HIDE DEF L
<1>9. \A j \in 1..L : funs'[j] = funs[j]
  BY <1>2, <1>3, <1>8
<1>10. SubSeq(funs', 1, L) = SubSeq(funs, 1, L)
  BY <1>2, <1>3, <1>8, <1>9, PrefixSame
<1>11. QED
  BY <1>7, <1>10 DEF TablesOf, L


LEMMA OriginTables ==
    ASSUME Typed, SharedOuter, NEW f \in Function, NEW x \in Body \cup {Absent, Dummy},
           funs' = [Tables EXCEPT ![Len(Tables)][f] = x], data' = Tabled,
           UNCHANGED <<tree, calls>>, NEW i \in Levels
    PROVE  Origin(tree', funs', data', calls', i) = Origin(tree, funs, data, calls, i)
<1>1. i \in Nat /\ i \in DOMAIN data
  BY LevelIs
<1>2. \A j \in 1..i : j \in DOMAIN data /\ data'[j].svar = data[j].svar
  <2>1. \A j \in 1..i : j \in DOMAIN data
    BY <1>1 DEF Typed
  <2>2. QED
    BY <2>1, TabledKeeps
<1>3. ASSUME NEW node
      PROVE  Of(tree', data', i, node) = Of(tree, data, i, node)
  <2>1. SavedAlike(data, data', i, node)
    BY <1>2 DEF SavedAlike
  <2>2. Content(tree', node) = Content(tree, node)
    BY DEF Content
  <2>3. QED
    BY <1>1, <2>1, <2>2, OfSameNow
<1>4. Variables(tree', data', calls', i) = Variables(tree, data, calls, i)
  BY <1>3 DEF Variables
<1>5. TablesOf(funs', data', i) = TablesOf(funs, data, i)
  BY TablesMade
<1>6. data'[i].pwd = data[i].pwd
  BY <1>1, TablesType
<1>7. QED
  BY <1>4, <1>5, <1>6 DEF Origin

LEMMA RunsFunctions ==
    ASSUME Typed, SharedOuter, NEW f \in Function,
           UnsetFunction(f) \/ \E b \in Body : DefineFunction(f, b)
    PROVE  Forked!Next
<1>1. PICK x \in Body \cup {Absent, Dummy} :
         /\ funs' = [Tables EXCEPT ![Len(Tables)][f] = x] /\ data' = Tabled
         /\ UNCHANGED <<tree, calls, cwd, subshare>>
         /\ x \in Body \/ UnsetFunction(f)
  BY DEF DefineFunction, UnsetFunction, Removed
<1>2. Parents' = Parents
  <2>1. \A i \in Levels : Origin(tree', funs', data', calls', i) = Origin(tree, funs, data, calls, i)
    BY <1>1, OriginTables
  <2>2. \A i \in DOMAIN data : data'[i].subshare = data[i].subshare
    BY <1>1, TablesType
  <2>3. Subshell' = Subshell
    BY <1>1 DEF Subshell, Subs
  <2>4. Levels' = Levels
    BY <1>1, <2>2, <2>3, LevelsSame
  <2>5. QED
    BY <2>1, <2>4, ParentsKept
<1>3. /\ Tables \in Seq(FunTable) /\ Len(Tables) \in DOMAIN Tables /\ funs' \in Seq(FunTable)
      /\ funs' # <<>> /\ Len(funs') = Len(Tables) /\ DOMAIN funs' = DOMAIN Tables
      /\ funs'[Len(Tables)][f] = x
      /\ \A j \in DOMAIN Tables, g \in Function : g # f => funs'[j][g] = Tables[j][g]
  <2> DEFINE top == [Tables[Len(Tables)] EXCEPT ![f] = x]
  <2>1. Tables \in Seq(FunTable) /\ Len(Tables) \in DOMAIN Tables
    BY TablesType
  <2>2. /\ top \in FunTable /\ top[f] = x
        /\ \A g \in Function : g # f => top[g] = Tables[Len(Tables)][g]
    BY <2>1 DEF FunTable
  <2>3. funs' = [Tables EXCEPT ![Len(Tables)] = top]
    BY <1>1, <2>1
  <2> HIDE DEF top
  <2>4. /\ funs' \in Seq(FunTable) /\ Len(funs') = Len(Tables) /\ DOMAIN funs' = DOMAIN Tables
        /\ funs'[Len(Tables)] = top /\ funs' # <<>>
        /\ \A j \in DOMAIN Tables : j # Len(Tables) => funs'[j] = Tables[j]
    BY <2>1, <2>2, <2>3
  <2>5. QED
    BY <2>1, <2>2, <2>4
<1>4. \A g \in Function : g # f => Lookup(funs', g) = Lookup(funs, g)
  <2>1. SUFFICES ASSUME NEW g \in Function, g # f
                 PROVE  Lookup(funs', g) = Lookup(funs, g)
    OBVIOUS
  <2>2. Lookup(Tables, g) = Lookup(funs', g)
    <3>1. \A j \in DOMAIN Tables : Tables[j][g] = funs'[j][g]
      BY <1>3, <2>1
    <3>2. QED
      BY <1>3, <3>1, LookupOfSame
  <2>3. QED
    BY <2>2, LookupInTables
<1>5. PICK b \in Body \cup {Absent} : Lookup(funs', f) = b
  <2>1. CASE UnsetFunction(f)
    BY <2>1, UnsetHides
  <2>2. CASE x \in Body
    <3>1. x # Absent /\ x # Dummy
      BY <2>2, SubshellAssumption
    <3>2. Lookup(funs', f) = x
      BY <1>3, <3>1, LookupOfTop
    <3>3. QED
      BY <2>2, <3>2
  <2>3. QED
    BY <1>1, <2>1, <2>2
<1>6. Functions(funs') = [Functions(funs) EXCEPT ![f] = b]
  BY <1>4, <1>5 DEF Functions
<1>7. Env(tree', funs', cwd') = [Env(tree, funs, cwd) EXCEPT !.funs[f] = b]
  BY <1>1, <1>6 DEF Env
<1>8. Forked!Define
  BY <1>7, InTerms DEF Forked!Define
<1>9. QED
  BY <1>2, <1>8 DEF Forked!Next, Forked!Change, Parents

LEMMA RunsCd ==
    ASSUME NEW d \in Dir, Cd(d)
    PROVE  Forked!Next
<1>1. UNCHANGED <<tree, funs, subshare, calls, data>> /\ cwd' = d
  BY DEF Cd
<1>2. Env(tree', funs', cwd') = [Env(tree, funs, cwd) EXCEPT !.cwd = d]
  BY <1>1 DEF Env
<1>3. Forked!Cd
  BY <1>2, InTerms DEF Forked!Cd
<1>4. \A i : Environment(i)' = Environment(i)
  BY <1>1, InTerms
<1>5. Cardinality(Levels)' = Cardinality(Levels)
  BY <1>1 DEF Levels, IsShared, Subshell, Subs
<1>6. Parents' = Parents
  BY <1>4, <1>5 DEF Parents
<1>7. QED
  BY <1>3, <1>6 DEF Forked!Next, Forked!Change, Parents


--------------------------------------------------------------------------------
(* Functions called, that return. *)

LEMMA RunsCall ==
    ASSUME Typed, SharedOuter, FunctionCall
    PROVE  Forked!Next
<1> DEFINE scope == [n \in Name |-> Absent]
<1>1. /\ tree' = Append(tree, scope) /\ calls' = <<"fun">> \o calls
      /\ UNCHANGED <<funs, cwd, data, subshare>>
  BY DEF FunctionCall
<1> HIDE DEF scope
<1>2. tree \in Seq(Scope) /\ scope \in Scope
  BY DEF Typed, TypeOK, Scope, scope
<1>3. Len(tree') = Len(tree) + 1 /\ \A k \in DOMAIN tree : tree'[k] = tree[k]
  BY <1>1, <1>2
<1>4. Levels' = Levels
  <2>1. \A i \in DOMAIN data : data'[i].subshare = data[i].subshare
    BY <1>1
  <2>2. QED
    BY <1>1, <2>1, CallCount, LevelsSame
<1>5. ASSUME NEW i \in Levels
      PROVE  Origin(tree', funs', data', calls', i) = Origin(tree, funs, data, calls, i)
  <2>1. /\ i \in Nat /\ i >= 1 /\ i <= Cardinality(Positions(calls, "sub")) /\ calls \in Seq(Frame)
        /\ Inside(calls, i) \in Nat /\ Len(tree) \in Nat
    BY LevelIs
  <2>2. Inside(calls', i) = Inside(calls, i) + 1
    BY <1>1, <2>1, InsidePush
  <2>3. Len(tree') - Inside(calls', i) = Len(tree) - Inside(calls, i)
    BY <1>3, <2>1, <2>2
  <2>4. ASSUME NEW k \in 1..Len(tree) - Inside(calls, i), NEW m \in Name,
               NEW node, node = <<k, m>>
        PROVE  Of(tree', data', i, node) = Of(tree, data, i, node)
    <3>1. k \in DOMAIN tree /\ node[1] = k
      BY <1>2, <2>1, <2>4
    <3>2. Content(tree', node) = Content(tree, node)
      BY <1>3, <3>1 DEF Content
    <3>3. SavedAlike(data, data', i, node)
      BY <1>1 DEF SavedAlike
    <3>4. QED
      BY <2>1, <3>2, <3>3, OfSameNow
  <2>5. \A k \in 1..Len(tree) - Inside(calls, i), m \in Name :
           Of(tree', data', i, <<k, m>>) = Of(tree, data, i, <<k, m>>)
    BY <2>4, Zenon
  <2>6. Variables(tree', data', calls', i) = Variables(tree, data, calls, i)
    BY <2>3, <2>5 DEF Variables
  <2>7. QED
    BY <1>1, <2>6 DEF Origin
<1>6. Parents' = Parents
  BY <1>4, <1>5, ParentsKept
<1>7. Env(tree', funs', cwd') = [Env(tree, funs, cwd) EXCEPT !.tree = Append(@, scope)]
  <2>1. Env(tree', funs', cwd') = [Env(tree, funs, cwd) EXCEPT !.tree = tree']
    <3>1. funs' = funs /\ cwd' = cwd
      BY <1>1
    <3>2. QED
      BY <3>1 DEF Env
  <2>2. Env(tree, funs, cwd).tree = tree
    BY DEF Env
  <2>3. QED
    BY <1>1, <2>1, <2>2
<1>8. Forked!Call
  BY <1>7, InTerms DEF Forked!Call, scope
<1>9. QED
  BY <1>6, <1>8 DEF Forked!Next, Forked!Change, Parents

(* What the end of a function takes out of the lists is of a scope that no subshell
   that began before it has. *)
LEMMA ReturnSaves ==
    ASSUME Typed, FunctionReturn, NEW i \in DOMAIN data, NEW node
    PROVE  /\ node \in DOMAIN data'[i].svar => node \in DOMAIN data[i].svar
           /\ node[1] # Len(tree) /\ node \in DOMAIN data[i].svar =>
                 node \in DOMAIN data'[i].svar /\ data'[i].svar[node] = data[i].svar[node]
<1> DEFINE svar == data[i].svar
           kept == {n \in DOMAIN svar : n[1] # Len(tree) \/ Saver(n) # i}
           new == [data[i] EXCEPT !.svar = [n \in kept |-> svar[n]]]
<1>1. data'[i] = new
  BY DEF FunctionReturn
<1>2. new.svar = [n \in kept |-> svar[n]]
  <2>1. data[i] \in SubshellData
    BY DEF Typed
  <2> HIDE DEF kept
  <2>2. QED
    BY <2>1 DEF SubshellData
<1>3. /\ node \in kept => node \in DOMAIN svar
      /\ node[1] # Len(tree) /\ node \in DOMAIN svar => node \in kept
  OBVIOUS
<1> HIDE DEF new, kept, svar
<1>4. data'[i].svar = [n \in kept |-> svar[n]]
  BY <1>1, <1>2, Zenon
<1>5. QED
  BY <1>3, <1>4 DEF svar

LEMMA RunsReturn ==
    ASSUME Typed, SharedOuter, FunctionReturn
    PROVE  Forked!Next
<1>1. /\ tree' = SubSeq(tree, 1, Len(tree) - 1) /\ calls' = Tail(calls)
      /\ calls # <<>> /\ Head(calls) = "fun"
      /\ UNCHANGED <<funs, cwd, subshare>>
  BY DEF FunctionReturn
<1>2. tree \in Seq(Scope) /\ Len(tree) \in Nat /\ Len(tree) > 1
  <2>1. Cardinality(Funs') \in Nat /\ Cardinality(Funs') = Cardinality(Funs) - 1
    <3>1. calls' \in Seq(Frame)
      BY TypedReturn DEF Typed, TypeOK
    <3>2. QED
      BY <3>1, CountPush, ReturnShape DEF Frame, Funs
  <2>2. QED
    BY <2>1, CountsAreNumbers DEF Typed, TypeOK, Counted
<1>3. Len(tree') = Len(tree) - 1 /\ \A k \in 1..Len(tree) - 1 : tree'[k] = tree[k]
  BY <1>1, <1>2
<1>4. Levels' = Levels
  BY <1>1, ReturnShape, LevelsSame
<1>5. ASSUME NEW i \in Levels
      PROVE  Origin(tree', funs', data', calls', i) = Origin(tree, funs, data, calls, i)
  <2>1. /\ i \in Nat /\ i >= 1 /\ i <= Cardinality(Positions(calls, "sub")) /\ calls \in Seq(Frame)
        /\ Inside(calls, i) \in Nat /\ i \in DOMAIN data
    BY LevelIs
  <2>2. Inside(calls, i) = Inside(calls', i) + 1 /\ Inside(calls', i) \in Nat
    BY <1>1, <2>1, InsideTail
  <2>3. Len(tree') - Inside(calls', i) = Len(tree) - Inside(calls, i)
    BY <1>2, <1>3, <2>2
  <2>4. \A j \in 1..i : j \in DOMAIN data
    BY <2>1 DEF Typed
  <2>5. ASSUME NEW k \in 1..Len(tree) - Inside(calls, i), NEW m \in Name,
               NEW node, node = <<k, m>>
        PROVE  Of(tree', data', i, node) = Of(tree, data, i, node)
    <3>1. k \in 1..Len(tree) - 1 /\ node[1] = k /\ k # Len(tree)
      BY <1>2, <2>2, <2>5
    <3>2. Content(tree', node) = Content(tree, node)
      BY <1>3, <3>1 DEF Content
    <3>3. SavedAlike(data, data', i, node)
      BY <2>4, <3>1, ReturnSaves DEF SavedAlike
    <3>4. QED
      BY <2>1, <3>2, <3>3, OfSameNow
  <2>6. \A k \in 1..Len(tree) - Inside(calls, i), m \in Name :
           Of(tree', data', i, <<k, m>>) = Of(tree, data, i, <<k, m>>)
    BY <2>5, Zenon
  <2>7. Variables(tree', data', calls', i) = Variables(tree, data, calls, i)
    BY <2>3, <2>6 DEF Variables
  <2>8. TabsTo(data', i) = TabsTo(data, i) /\ data'[i].pwd = data[i].pwd
    BY <2>1, <2>4, ReturnShape DEF TabsTo
  <2>9. QED
    BY <1>1, <2>7, <2>8 DEF Origin, TablesOf
<1>6. Parents' = Parents
  BY <1>4, <1>5, ParentsKept
<1>7. Env(tree', funs', cwd') = [Env(tree, funs, cwd) EXCEPT !.tree = SubSeq(@, 1, Len(@) - 1)]
  <2>1. Env(tree', funs', cwd') = [Env(tree, funs, cwd) EXCEPT !.tree = tree']
    <3>1. funs' = funs /\ cwd' = cwd
      BY <1>1
    <3>2. QED
      BY <3>1 DEF Env
  <2>2. Env(tree, funs, cwd).tree = tree
    BY DEF Env
  <2>3. QED
    BY <1>1, <2>1, <2>2
<1>8. Forked!Return
  <2>1. Env(tree, funs, cwd).tree = tree
    BY DEF Env
  <2>2. QED
    BY <1>2, <1>7, <2>1, InTerms DEF Forked!Return
<1>9. QED
  BY <1>6, <1>8 DEF Forked!Next, Forked!Change, Parents


--------------------------------------------------------------------------------
(* Subshells that begin. *)

LEMMA EnterLevels ==
    ASSUME Typed, NEW share \in BOOLEAN, SubshellEnter(share)
    PROVE  /\ Subshell \in Nat /\ Subshell' = Subshell + 1
           /\ DOMAIN data'[1].svar = {} /\ \A i \in 1..Subshell : data'[i + 1] = data[i]
           /\ IsShared(1)' = share
           /\ \A i \in 1..Subshell : IsShared(i + 1)' = IsShared(i)
           /\ \A j \in 1..Subshell' : j = 1 \/ (j - 1 \in 1..Subshell /\ j = (j - 1) + 1)
<1>1. subshare' = share
  BY DEF SubshellEnter
<1>2. /\ Subshell \in Nat /\ Subshell' = Subshell + 1
      /\ data'[1].subshare = subshare /\ DOMAIN data'[1].svar = {}
      /\ \A i \in 1..Subshell : data'[i + 1] = data[i]
  <2>1. data \in Seq(SubshellData)
    BY DEF Typed
  <2>2. data'[1].svar = <<>>
    BY <2>1 DEF SubshellEnter
  <2>3. DOMAIN data'[1].svar = {}
    BY <2>2
  <2>4. Subshell \in Nat /\ \A i \in 1..Subshell : i \in DOMAIN data
    BY LevelFacts
  <2>5. \A i \in 1..Subshell : data'[i + 1] = data[i]
    BY <2>4, EnterShape
  <2>6. Subshell' = Subshell + 1 /\ data'[1].subshare = subshare
    BY EnterShape
  <2>7. QED
    BY <2>3, <2>4, <2>5, <2>6
<1>3. IsShared(1)' = share
  BY <1>1 DEF IsShared
<1>4. ASSUME NEW i \in 1..Subshell
      PROVE  IsShared(i + 1)' = IsShared(i)
  <2>1. i \in Nat /\ i >= 1 /\ i + 1 # 1 /\ (i + 1) - 1 = i
    BY LevelFacts
  <2>2. IsShared(i + 1)' = data'[i].subshare
    BY <2>1 DEF IsShared
  <2>3. i # 1 => i - 1 \in 1..Subshell /\ (i - 1) + 1 = i
    BY <1>2, <2>1
  <2>4. QED
    BY <1>2, <2>2, <2>3 DEF IsShared
<1>5. \A j \in 1..Subshell' : j = 1 \/ (j - 1 \in 1..Subshell /\ j = (j - 1) + 1)
  BY <1>2
<1>6. QED
  BY <1>2, <1>3, <1>4, <1>5

(* A subshell that begins finds what there is. *)
LEMMA OriginFirst ==
    ASSUME Typed, PwdHeld, NEW share \in BOOLEAN, SubshellEnter(share)
    PROVE  Origin(tree', funs', data', calls', 1) = Env(tree, funs, cwd)
<1>1. /\ calls' = <<"sub">> \o calls /\ tree' = tree /\ funs' = funs
      /\ calls \in Seq(Frame) /\ tree \in Seq(Scope) /\ Len(tree) \in Nat /\ funs \in Seq(FunTable)
  BY DEF SubshellEnter, Typed, TypeOK
<1>2. Inside(calls', 1) = 0
  BY <1>1, InsideFirst
<1>3. DOMAIN data'[1].svar = {} /\ data'[1].sfun = FALSE /\ data'[1].pwd = cwd
  BY EnterLevels, EnterShape DEF PwdHeld
<1>4. \A j \in 1..1 : j = 1
  OBVIOUS
<1>5. \A node : Of(tree', data', 1, node) = tree[node[1]][node[2]]
  <2>1. \A node : Savers(data', 1, node) = {}
    BY <1>3, <1>4 DEF Savers
  <2>2. QED
    BY <1>1, <2>1 DEF Of
<1>6. Variables(tree', data', calls', 1) = tree
  <2>1. Len(tree') - Inside(calls', 1) = Len(tree)
    BY <1>1, <1>2
  <2>2. \A k \in 1..Len(tree), n \in Name : Of(tree', data', 1, <<k, n>>) = tree[k][n]
    BY <1>5
  <2>3. Variables(tree', data', calls', 1) = [k \in 1..Len(tree) |-> [n \in Name |-> tree[k][n]]]
    BY <2>1, <2>2 DEF Variables
  <2>4. \A k \in 1..Len(tree) : tree[k] = [n \in Name |-> tree[k][n]]
    BY <1>1 DEF Scope
  <2>5. tree = [k \in 1..Len(tree) |-> tree[k]]
    BY <1>1
  <2>6. QED
    BY <2>3, <2>4, <2>5
<1>7. TablesOf(funs', data', 1) = funs
  <2>1. TabsTo(data', 1) = {}
    BY <1>3, <1>4 DEF TabsTo
  <2>2. Cardinality(TabsTo(data', 1)) = 0
    BY <2>1, FS_EmptySet
  <2>3. SubSeq(funs, 1, Len(funs) - 0) = funs
    BY <1>1
  <2>4. QED
    BY <1>1, <2>2, <2>3 DEF TablesOf
<1>8. QED
  BY <1>3, <1>6, <1>7 DEF Origin, Env

(* And those outside of it find what they did. *)
LEMMA OriginEnter ==
    ASSUME Typed, SharedOuter, NEW share \in BOOLEAN, SubshellEnter(share), NEW i \in Levels
    PROVE  Origin(tree', funs', data', calls', i + 1) = Origin(tree, funs, data, calls, i)
<1>1. /\ calls' = <<"sub">> \o calls /\ tree' = tree /\ funs' = funs
  BY DEF SubshellEnter
<1>2. PICK k \in Nat : k = i + 1
  BY LevelIs
<1>3. /\ i \in Nat /\ i >= 1 /\ i <= Cardinality(Positions(calls, "sub")) /\ calls \in Seq(Frame)
      /\ i \in 1..Subshell /\ Subshell \in Nat
  BY LevelIs, CountsAreNumbers
<1>4. Inside(calls', k) = Inside(calls, i)
  BY <1>1, <1>2, <1>3, InsidePush
<1>5. DOMAIN data'[1].svar = {} /\ data'[1].sfun = FALSE /\ data'[k] = data[i]
  BY <1>2, <1>3, EnterLevels, EnterShape
<1>6. IsPushed(data', data, i)
  <2>1. \A j \in 1..i : j \in 1..Subshell
    BY <1>3
  <2>2. QED
    BY <2>1, EnterLevels DEF IsPushed
<1>7. ASSUME NEW node
      PROVE  Of(tree', data', k, node) = Of(tree, data, i, node)
  <2>1. tree[node[1]][node[2]] = PutBack(tree', data'[1], node)
    BY <1>1, <1>5 DEF PutBack
  <2>2. QED
    BY <1>2, <1>3, <1>6, <2>1, OfPush
<1>8. Variables(tree', data', calls', k) = Variables(tree, data, calls, i)
  BY <1>1, <1>4, <1>7 DEF Variables
<1>9. Cardinality(TabsTo(data', k)) = Cardinality(TabsTo(data, i))
  <2>1. Cardinality(TabsTo(data', k)) = Cardinality(TabsTo(data, i)) + 0
    BY <1>2, <1>3, <1>5, <1>6, TabsPush
  <2>2. QED
    BY <1>3, <2>1, TabsToFacts
<1>10. Origin(tree', funs', data', calls', k) = Origin(tree, funs, data, calls, i)
  BY <1>1, <1>5, <1>8, <1>9 DEF Origin, TablesOf
<1>11. QED
  BY <1>2, <1>10


LEMMA RunsEnter ==
    ASSUME Typed, SharedOuter, PwdHeld, SubshellEnter(FALSE)
    PROVE  Forked!Next
<1>1. PICK m \in Nat : m \in 0..Subshell /\ Levels = 1..m /\ Cardinality(Levels) = m
  BY LevelsAre
<1>2. Levels' = 1..m + 1
  <2>1. \A j \in 1..m + 1 : j \in Levels'
    <3>1. SUFFICES ASSUME NEW j \in 1..m + 1
                   PROVE  j \in 1..Subshell' /\ ~ IsShared(j)'
      BY DEF Levels
    <3>2. Subshell \in Nat /\ Subshell' = Subshell + 1
      BY EnterLevels
    <3>3. j \in 1..Subshell' /\ (j # 1 => j - 1 \in 1..m)
      BY <1>1, <3>2
    <3>4. j = 1 \/ (j - 1 \in Levels /\ j - 1 \in 1..Subshell /\ j = (j - 1) + 1)
      BY <1>1, <3>3, EnterLevels
    <3>5. CASE j = 1
      BY <3>3, <3>5, EnterLevels
    <3>6. CASE j # 1
      <4>1. ~ IsShared(j - 1)
        BY <3>4, <3>6 DEF Levels
      <4>2. IsShared((j - 1) + 1)' = IsShared(j - 1)
        BY <3>4, <3>6, EnterLevels
      <4>3. QED
        BY <3>3, <3>4, <3>6, <4>1, <4>2
    <3>7. QED
      BY <3>5, <3>6
  <2>2. \A j \in Levels' : j \in 1..m + 1
    <3>1. SUFFICES ASSUME NEW j \in 1..Subshell', ~ IsShared(j)'
                   PROVE  j \in 1..m + 1
      BY DEF Levels
    <3>2. CASE j = 1
      BY <1>1, <3>2
    <3>3. CASE j # 1
      <4>1. j - 1 \in 1..Subshell /\ j = (j - 1) + 1
        BY <3>3, EnterLevels
      <4>2. IsShared((j - 1) + 1)' = IsShared(j - 1)
        BY <4>1, EnterLevels
      <4>3. j - 1 \in Levels
        BY <3>1, <4>1, <4>2 DEF Levels
      <4>4. QED
        BY <1>1, <4>1, <4>3
    <3>4. QED
      BY <3>2, <3>3
  <2>3. QED
    BY <2>1, <2>2
<1>3. Cardinality(Levels)' = m + 1
  BY <1>2, FS_Interval
<1>4. Parents = [i \in 1..m |-> Environment(i)] /\ Parents' = [i \in 1..m + 1 |-> Environment(i)']
  BY <1>1, <1>3 DEF Parents
<1>5. Environment(1)' = Current
  <2>1. Origin(tree', funs', data', calls', 1) = Env(tree, funs, cwd)
    BY OriginFirst
  <2>2. QED
    BY <2>1, InTerms
<1>6. \A i \in 1..m : Environment(i + 1)' = Environment(i)
  <2>1. \A i \in 1..m : Origin(tree', funs', data', calls', i + 1) = Origin(tree, funs, data, calls, i)
    BY <1>1, OriginEnter
  <2>2. QED
    BY <2>1, InTerms
<1>7. Parents' = <<Current>> \o Parents
  <2>1. IsList(Parents, m) /\ IsList(Parents', m + 1)
    BY <1>4 DEF IsList
  <2>2. 1 \in 1..m + 1 /\ \A i \in 1..m : i + 1 \in 1..m + 1
    OBVIOUS
  <2>3. Parents'[1] = Current /\ \A i \in 1..m : Parents'[i + 1] = Parents[i]
    BY <1>4, <1>5, <1>6, <2>2
  <2>4. QED
    BY <2>1, <2>3, Pushed
<1>8. Current' = Current
  BY DEF SubshellEnter, Current
<1>9. Forked!Enter
  BY <1>7, <1>8 DEF Forked!Enter, Parents
<1>10. QED
  BY <1>9 DEF Forked!Next

(* A subshell that shares the environment of its parent is none of ForkedShell. *)
LEMMA RunsShare ==
    ASSUME Typed, SharedOuter, SubshellEnter(TRUE)
    PROVE  UNCHANGED <<Current, Parents>>
<1>1. ~ Virtual
  BY DEF SubshellEnter
<1>2. Levels = {}
  BY <1>1, NoLevels
<1>3. Levels' = {}
  <2>1. SUFFICES ASSUME NEW j \in 1..Subshell', ~ IsShared(j)'
                 PROVE  FALSE
    BY DEF Levels
  <2>2. j # 1 /\ j - 1 \in 1..Subshell /\ j = (j - 1) + 1
    BY <2>1, EnterLevels
  <2>3. IsShared((j - 1) + 1)' = IsShared(j - 1)
    BY <2>2, EnterLevels
  <2>4. QED
    BY <1>2, <2>1, <2>2, <2>3 DEF Levels
<1>4. Parents = <<>> /\ Parents' = <<>>
  BY <1>2, <1>3, FS_EmptySet DEF Parents
<1>5. Current' = Current
  BY DEF SubshellEnter, Current
<1>6. QED
  BY <1>4, <1>5

LEMMA RunsFork ==
    ASSUME Typed, Fork \/ Subfork
    PROVE  Forked!Next
<1>1. Subshell' = 0
  <2>1. CASE Fork
    <3>1. Subs' = {}
      BY <2>1 DEF Fork, Subs
    <3>2. QED
      BY <3>1, FS_EmptySet DEF Subshell
  <2>2. CASE Subfork
    BY <2>2, SubforkShape
  <2>3. QED
    BY <2>1, <2>2
<1>2. Levels' = {}
  BY <1>1 DEF Levels
<1>3. Parents' = <<>>
  BY <1>2, FS_EmptySet DEF Parents
<1>4. Current' = Current
  BY DEF Fork, Subfork, Current
<1>5. QED
  BY <1>3, <1>4 DEF Forked!Next, Forked!Fork, Parents


--------------------------------------------------------------------------------
(* Subshells that end. *)

LEMMA LeaveLevels ==
    ASSUME Typed, SubshellLeave
    PROVE  /\ Subshell \in Nat /\ Subshell >= 1 /\ Subshell' = Subshell - 1
           /\ \A i \in 1..Subshell' : /\ i \in Nat /\ i + 1 \in 1..Subshell
                                      /\ data'[i] = data[i + 1] /\ IsShared(i)' = IsShared(i + 1)
<1>1. subshare' = data[1].subshare
  BY DEF SubshellLeave
<1>2. /\ Subshell \in Nat /\ Subshell >= 1 /\ Subshell' = Subshell - 1
      /\ \A i \in 1..Subshell' : /\ i \in Nat /\ i + 1 \in 1..Subshell
                                 /\ data'[i] = data[i + 1]
  <2>1. /\ Subshell \in Nat /\ Subshell <= Len(data) /\ Subshell >= 1
        /\ Subshell' = Subshell - 1 /\ Len(data) \in Nat
    BY LeaveShape, CountsAreNumbers
  <2>2. DOMAIN data' = 1..Len(data) - 1
    BY LeaveShape
  <2>3. \A i \in 1..Subshell - 1 : i \in DOMAIN data'
    BY <2>1, <2>2
  <2>4. QED
    BY <2>1, <2>3, LeaveShape
<1>3. ASSUME NEW i \in 1..Subshell'
      PROVE  IsShared(i)' = IsShared(i + 1)
  <2>1. i + 1 # 1 /\ (i + 1) - 1 = i
    BY <1>2
  <2>2. i # 1 => i - 1 \in 1..Subshell' /\ (i - 1) + 1 = i
    BY <1>2
  <2>3. QED
    BY <1>1, <1>2, <2>1, <2>2 DEF IsShared
<1>4. QED
  BY <1>2, <1>3

(* What a subshell puts back is what it found. *)
LEMMA LeaveTree ==
    ASSUME Typed, SubshellLeave
    PROVE  /\ tree' \in Seq(Scope) /\ Len(tree') = Len(tree) /\ tree \in Seq(Scope)
           /\ \A k \in DOMAIN tree, n \in Name : tree'[k][n] = PutBack(tree, data[1], <<k, n>>)
<1>1. tree \in Seq(Scope) /\ tree' \in Seq(Scope)
  BY TypedLeave DEF Typed, TypeOK
<1>2. tree' = Restored(data[1])
  BY DEF SubshellLeave
<1>3. Len(tree') = Len(tree)
  <2>1. DOMAIN tree' = DOMAIN tree
    BY <1>2 DEF Restored
  <2>2. QED
    BY <1>1, <2>1
<1>4. ASSUME NEW k \in DOMAIN tree, NEW n \in Name
      PROVE  tree'[k][n] = PutBack(tree, data[1], <<k, n>>)
  BY <1>2 DEF Restored, PutBack
<1>5. QED
  BY <1>1, <1>3, <1>4

LEMMA LeaveDirectory ==
    ASSUME Typed, PwdHeld, NoneOutside, 1 \in Levels, ~ subshare, SubshellLeave
    PROVE  cwd' = data[1].pwd
<1>1. data[1].pwdfd \in Fd \cup {NoFd} /\ pwdfd \in Fd \cup {NoFd} /\ 1 \in Nat
  BY LevelFacts
<1>2. data[1].pwdfd = NoFd => pwdfd = NoFd /\ data[1].pwd = cwd
  <2>1. At(1) = data[1].pwdfd /\ At(0) = pwdfd
    BY DEF At
  <2>2. 0 \in Shells /\ 1 \in Shells /\ 0 < 1
    BY DEF Shells
  <2>3. QED
    BY <2>1, <2>2 DEF NoneOutside
<1>3. data[1].pwdfd # NoFd => fd[data[1].pwdfd] = data[1].pwd
  BY DEF PwdHeld
<1>4. CASE pwdfd # data[1].pwdfd
  BY <1>2, <1>3, <1>4 DEF SubshellLeave
<1>5. CASE pwdfd = data[1].pwdfd
  BY <1>2, <1>3, <1>5 DEF SubshellLeave, PwdHeld
<1>6. QED
  BY <1>4, <1>5

LEMMA LeaveFuns ==
    ASSUME Typed, 1 \in Levels, ~ subshare, SubshellLeave
    PROVE  /\ funs' = TablesOf(funs, data, 1)
           /\ Cardinality(TabsTo(data, 1)) = IF data[1].sfun THEN 1 ELSE 0
<1>1. \A j \in 1..1 : j = 1
  OBVIOUS
<1>2. TabsTo(data, 1) = IF data[1].sfun THEN {1} ELSE {}
  BY <1>1 DEF TabsTo
<1>3. Cardinality({1}) = 1 /\ Cardinality({}) = 0
  BY FS_EmptySet, FS_Singleton
<1>4. Cardinality(TabsTo(data, 1)) = IF data[1].sfun THEN 1 ELSE 0
  BY <1>2, <1>3
<1>5. SubSeq(funs, 1, Len(funs) - 0) = funs
  BY DEF Typed, TypeOK
<1>6. funs' = IF data[1].sfun THEN SubSeq(funs, 1, Len(funs) - 1) ELSE funs
  BY DEF SubshellLeave
<1>7. QED
  BY <1>4, <1>5, <1>6 DEF TablesOf


LEMMA OriginLeave ==
    ASSUME Typed, SharedOuter, ~ subshare, SubshellLeave, NEW i \in Levels'
    PROVE  Origin(tree', funs', data', calls', i) = Origin(tree, funs, data, calls, i + 1)
<1>1. /\ calls # <<>> /\ Head(calls) = "sub" /\ calls' = Tail(calls) /\ calls \in Seq(Frame)
  BY DEF SubshellLeave, Typed, TypeOK
<1>2. /\ i \in 1..Subshell' /\ ~ IsShared(i)' /\ i \in Nat /\ i >= 1 /\ i <= Subshell'
      /\ Subshell' \in Nat
  <2>1. i \in 1..Subshell' /\ ~ IsShared(i)'
    BY DEF Levels
  <2>2. QED
    BY <2>1, LeaveLevels
<1>3. PICK k \in Nat : k = i + 1
  BY <1>2
<1>4. k \in Levels /\ data'[i] = data[k]
  BY <1>2, <1>3, LeaveLevels DEF Levels
<1>5. /\ Cardinality(TabsTo(data, k)) \in Nat /\ Cardinality(TabsTo(data, k)) < Len(funs)
      /\ Len(funs) \in Nat /\ Inside(calls, k) \in Nat /\ Len(tree) \in Nat
  BY <1>4, LevelIs
<1>6. Inside(calls, k) = Inside(calls', i)
  <2>1. calls' \in Seq(Frame) /\ calls = <<"sub">> \o calls'
    BY <1>1
  <2>2. Subshell' = Cardinality(Positions(calls', "sub"))
    BY DEF Subshell, Subs, Positions
  <2>3. Inside(<<"sub">> \o calls', i + 1) = Inside(calls', i)
    BY <1>2, <2>1, <2>2, InsidePush
  <2>4. QED
    BY <1>3, <2>1, <2>3, Zenon
<1>7. IsPushed(data, data', i)
  <2>1. \A j \in 1..i : j \in 1..Subshell'
    BY <1>2
  <2>2. QED
    BY <2>1, LeaveLevels DEF IsPushed
<1>8. ASSUME NEW s \in 1..Len(tree) - Inside(calls, k), NEW n \in Name, NEW node, node = <<s, n>>
      PROVE  Of(tree', data', i, node) = Of(tree, data, k, node)
  <2>1. s \in DOMAIN tree /\ node[1] = s /\ node[2] = n
    BY <1>5, <1>8, LeaveTree
  <2>2. tree'[node[1]][node[2]] = PutBack(tree, data[1], node)
    BY <1>8, <2>1, LeaveTree
  <2>3. QED
    BY <1>2, <1>3, <1>7, <2>2, OfPush
<1>9. \A s \in 1..Len(tree) - Inside(calls, k), n \in Name :
         Of(tree', data', i, <<s, n>>) = Of(tree, data, k, <<s, n>>)
  BY <1>8, Zenon
<1>10. Variables(tree', data', calls', i) = Variables(tree, data, calls, k)
  BY <1>6, <1>9, LeaveTree DEF Variables
<1>11. TablesOf(funs', data', i) = TablesOf(funs, data, k)
  <2> DEFINE L == Len(funs) - Cardinality(TabsTo(data, k))
  <2>1. Cardinality(TabsTo(data, k)) = Cardinality(TabsTo(data', i)) + (IF data[1].sfun THEN 1 ELSE 0)
    BY <1>2, <1>3, <1>7, TabsPush
  <2>2. Cardinality(TabsTo(data', i)) \in Nat
    BY <1>2, TabsToFacts
  <2>3. /\ funs \in Seq(FunTable) /\ funs' \in Seq(FunTable)
        /\ funs' = IF data[1].sfun THEN SubSeq(funs, 1, Len(funs) - 1) ELSE funs
    BY TypedLeave DEF SubshellLeave, Typed, TypeOK
  <2>4. /\ Len(funs') = Len(funs) - (IF data[1].sfun THEN 1 ELSE 0)
        /\ \A j \in 1..Len(funs') : funs'[j] = funs[j]
    BY <1>5, <2>3
  <2>5. Len(funs') - Cardinality(TabsTo(data', i)) = L
    BY <1>5, <2>1, <2>2, <2>4
  <2>6. L \in Nat /\ L <= Len(funs) /\ L <= Len(funs')
    BY <1>5, <2>1, <2>2, <2>4
  <2> HIDE DEF L
  <2>7. \A j \in 1..L : funs'[j] = funs[j]
    BY <1>5, <2>3, <2>4, <2>6
  <2>8. SubSeq(funs', 1, L) = SubSeq(funs, 1, L)
    BY <2>3, <2>6, <2>7, PrefixSame
  <2>9. QED
    BY <2>5, <2>8 DEF TablesOf, L
<1>12. QED
  BY <1>3, <1>4, <1>10, <1>11 DEF Origin

LEMMA RunsLeave ==
    ASSUME Typed, Held, ~ subshare, SubshellLeave
    PROVE  Forked!Next
<1>1. SharedOuter /\ PwdHeld /\ NoneOutside
  BY DEF Held
<1>2. Virtual
  BY LeaveLevels DEF Virtual
<1>3. 1 \in Levels
  BY <1>2, FirstLevel
<1>4. PICK m \in Nat : m \in 0..Subshell /\ Levels = 1..m /\ Cardinality(Levels) = m /\ m >= 1
  BY <1>1, <1>2, LevelsAre
<1>5. PICK k \in Nat : m = k + 1
  <2>1. m - 1 \in Nat /\ m = (m - 1) + 1
    BY <1>4
  <2>2. QED
    BY <2>1
<1>6. Levels' = 1..k
  <2>1. \A i \in Levels' : i \in 1..k
    <3>1. SUFFICES ASSUME NEW i \in 1..Subshell', ~ IsShared(i)'
                   PROVE  i \in 1..k
      BY DEF Levels
    <3>2. i \in Nat /\ i + 1 \in Levels
      BY <3>1, LeaveLevels DEF Levels
    <3>3. QED
      BY <1>4, <1>5, <3>1, <3>2
  <2>2. \A i \in 1..k : i \in Levels'
    <3>1. SUFFICES ASSUME NEW i \in 1..k
                   PROVE  i \in 1..Subshell' /\ ~ IsShared(i)'
      BY DEF Levels
    <3>2. i + 1 \in Levels
      BY <1>4, <1>5
    <3>3. i \in 1..Subshell'
      BY <1>4, <1>5, LeaveLevels
    <3>4. QED
      BY <3>2, <3>3, LeaveLevels DEF Levels
  <2>3. QED
    BY <2>1, <2>2
<1>7. Cardinality(Levels)' = k
  BY <1>6, FS_Interval
<1>8. Parents = [i \in 1..k + 1 |-> Environment(i)] /\ Parents' = [i \in 1..k |-> Environment(i)']
  BY <1>4, <1>5, <1>7 DEF Parents
<1>9. Current' = Environment(1)
  <2>1. Inside(calls, 1) = 0
    <3>1. calls # <<>> /\ Head(calls) = "sub" /\ calls \in Seq(Frame)
      BY DEF SubshellLeave, Typed, TypeOK
    <3>2. Tail(calls) \in Seq(Frame) /\ calls = <<"sub">> \o Tail(calls)
      BY <3>1
    <3>3. QED
      BY <3>2, InsideFirst
  <2>2. \A j \in 1..1 : j = 1
    OBVIOUS
  <2>3. \A node : Of(tree, data, 1, node) = PutBack(tree, data[1], node)
    <3>1. SUFFICES ASSUME NEW node
                   PROVE  Of(tree, data, 1, node) = PutBack(tree, data[1], node)
      OBVIOUS
    <3>2. CASE node \in DOMAIN data[1].svar
      <4>1. Savers(data, 1, node) = {1}
        BY <2>2, <3>2 DEF Savers
      <4>2. (CHOOSE j \in {1} : \A n \in {1} : n <= j) = 1
        OBVIOUS
      <4>3. QED
        BY <3>2, <4>1, <4>2 DEF Of, PutBack
    <3>3. CASE node \notin DOMAIN data[1].svar
      <4>1. Savers(data, 1, node) = {}
        BY <2>2, <3>3 DEF Savers
      <4>2. QED
        BY <3>3, <4>1 DEF Of, PutBack
    <3>4. QED
      BY <3>2, <3>3
  <2>4. Variables(tree, data, calls, 1) = tree'
    <3>1. /\ Len(tree) - Inside(calls, 1) = Len(tree) /\ tree' \in Seq(Scope)
          /\ Len(tree') = Len(tree) /\ DOMAIN tree = 1..Len(tree)
      BY <2>1, LeaveTree
    <3>2. \A k2 \in 1..Len(tree), n \in Name : Of(tree, data, 1, <<k2, n>>) = tree'[k2][n]
      BY <2>3, <3>1, LeaveTree
    <3>3. Variables(tree, data, calls, 1) = [k2 \in 1..Len(tree) |-> [n \in Name |-> tree'[k2][n]]]
      BY <3>1, <3>2 DEF Variables
    <3>4. \A k2 \in 1..Len(tree) : tree'[k2] = [n \in Name |-> tree'[k2][n]]
      BY <3>1 DEF Scope
    <3>5. tree' = [k2 \in 1..Len(tree) |-> tree'[k2]]
      BY <3>1
    <3>6. QED
      BY <3>3, <3>4, <3>5
  <2>5. funs' = TablesOf(funs, data, 1) /\ cwd' = data[1].pwd
    BY <1>1, <1>3, LeaveFuns, LeaveDirectory
  <2>6. Env(tree', funs', cwd') = Origin(tree, funs, data, calls, 1)
    BY <2>4, <2>5 DEF Env, Origin
  <2>7. QED
    BY <2>6, InTerms
<1>10. \A i \in 1..k : Environment(i + 1) = Environment(i)'
  <2>1. \A i \in 1..k : Origin(tree', funs', data', calls', i) = Origin(tree, funs, data, calls, i + 1)
    BY <1>1, <1>6, OriginLeave
  <2>2. QED
    BY <2>1, InTerms
<1>11. Parents # <<>> /\ Head(Parents) = Environment(1) /\ Tail(Parents) = Parents'
  <2>1. IsList(Parents', k) /\ IsList(Parents, k + 1)
    BY <1>8 DEF IsList
  <2>2. 1 \in 1..k + 1 /\ \A i \in 1..k : i + 1 \in 1..k + 1
    OBVIOUS
  <2>3. Parents[1] = Environment(1) /\ \A i \in 1..k : Parents[i + 1] = Parents'[i]
    BY <1>8, <1>10, <2>2
  <2>4. /\ Parents = <<Environment(1)>> \o Parents'
        /\ Parents # <<>> /\ Head(Parents) = Environment(1) /\ Tail(Parents) = Parents'
    BY <1>5, <2>1, <2>3, Pushed
  <2>5. QED
    BY <2>4
<1>12. Forked!Leave
  BY <1>9, <1>11 DEF Forked!Leave, Parents
<1>13. QED
  BY <1>12 DEF Forked!Next

--------------------------------------------------------------------------------
(* Shared subshells have saved nothing, so that leaving them changes nothing. *)
SharedEmpty == \A i \in 1..Subshell : IsShared(i) => DOMAIN data[i].svar = {}

LEMMA RunsUnshare ==
    ASSUME Typed, SharedOuter, SharedEmpty, subshare, SubshellLeave
    PROVE  UNCHANGED <<Current, Parents>>
<1>1. Levels = {}
  BY NoLevels DEF Virtual
<1>2. IsShared(1) /\ 1 \in 1..Subshell
  BY LeaveLevels DEF IsShared
<1>3. Levels' = {}
  <2>1. SUFFICES ASSUME NEW i \in 1..Subshell', ~ IsShared(i)'
                 PROVE  FALSE
    BY DEF Levels
  <2>2. i + 1 \in Levels
    BY <2>1, LeaveLevels DEF Levels
  <2>3. QED
    BY <1>1, <2>2
<1>4. Parents = <<>> /\ Parents' = <<>>
  BY <1>1, <1>3, FS_EmptySet DEF Parents
<1>5. DOMAIN data[1].svar = {}
  BY <1>2 DEF SharedEmpty
<1>6. tree' = tree
  <2>1. \A k \in DOMAIN tree, n \in Name : tree'[k][n] = tree[k][n]
    BY <1>5, LeaveTree DEF PutBack
  <2>2. \A k \in DOMAIN tree : tree'[k] \in Scope /\ tree[k] \in Scope
    BY LeaveTree
  <2>3. \A k \in DOMAIN tree : tree'[k] = tree[k]
    BY <2>1, <2>2 DEF Scope
  <2>4. QED
    BY <2>3, LeaveTree
<1>7. UNCHANGED <<funs, cwd>>
  BY DEF SubshellLeave
<1>8. Current' = Current
  BY <1>6, <1>7 DEF Current
<1>9. QED
  BY <1>4, <1>8


LEMMA EmptyStays ==
    ASSUME Typed, SharedEmpty, UNCHANGED subshare, Subshell' = Subshell,
           \A i \in DOMAIN data : data'[i].subshare = data[i].subshare,
           \A i \in 1..Subshell : IsShared(i) => DOMAIN data'[i].svar \subseteq DOMAIN data[i].svar
    PROVE  SharedEmpty'
<1>1. \A i \in 1..Subshell : IsShared(i)' = IsShared(i)
  BY LevelsSame
<1>2. QED
  BY <1>1 DEF SharedEmpty

LEMMA EmptyPut ==
    ASSUME Typed, SharedEmpty, NEW s \in DOMAIN tree, NEW n \in Name, NEW v, Put(<<s, n>>, v)
    PROVE  SharedEmpty'
<1>1. /\ UNCHANGED <<subshare, calls>>
      /\ \A i \in DOMAIN data : data'[i].subshare = data[i].subshare
  BY AssignokType DEF Put
<1>2. Subshell' = Subshell
  BY <1>1 DEF Subshell, Subs
<1>3. \A i \in 1..Subshell : i \in DOMAIN data
  BY LevelFacts
<1>4. Virtual => ~ IsShared(1)
  BY DEF Virtual, IsShared
<1>5. \A i \in 1..Subshell : IsShared(i) => data'[i] = data[i]
  BY <1>3, <1>4, PutSaves
<1>6. QED
  BY <1>1, <1>2, <1>5, EmptyStays

LEMMA EmptyNext ==
    ASSUME Typed, SharedEmpty, [Next]_vars
    PROVE  SharedEmpty'
<1>1. tree \in Seq(Scope) /\ tree # <<>> /\ \A i \in 1..Subshell : i \in DOMAIN data
  BY LevelFacts DEF Typed, TypeOK
<1>2. CASE \E n \in Name : Unset(n) \/ \E v \in Value : Assign(n, v) \/ Typeset(n, v)
  <2>1. \E n \in Name : \E s \in DOMAIN tree : \E v \in Value \cup {Null} : Put(<<s, n>>, v)
    <3>1. /\ Len(tree) \in DOMAIN tree
          /\ \A n \in Name : \E s \in DOMAIN tree : Found(n) = <<s, n>>
      BY <1>1 DEF Found
    <3>2. QED
      BY <1>2, <3>1 DEF Unset, Assign, Typeset
  <2>2. QED
    BY <2>1, EmptyPut
<1>3. CASE \E f \in Function : UnsetFunction(f) \/ \E b \in Body : DefineFunction(f, b)
  <2>1. data' = Tabled /\ UNCHANGED <<subshare, calls>>
    BY <1>3 DEF UnsetFunction, DefineFunction
  <2>2. Subshell' = Subshell
    BY <2>1 DEF Subshell, Subs
  <2>3. \A i \in DOMAIN data : data'[i].subshare = data[i].subshare /\ data'[i].svar = data[i].svar
    BY <2>1, TablesType, TabledKeeps
  <2>4. QED
    BY <1>1, <2>1, <2>2, <2>3, EmptyStays
<1>4. CASE (\E d \in Dir : Cd(d)) \/ UNCHANGED vars \/ FunctionCall
  <2>1. UNCHANGED <<data, subshare>>
    BY <1>4 DEF Cd, FunctionCall, vars
  <2>2. Subshell' = Subshell
    <3>1. CASE FunctionCall
      BY <3>1, CallCount
    <3>2. CASE UNCHANGED calls
      BY <3>2 DEF Subshell, Subs
    <3>3. QED
      BY <1>4, <3>1, <3>2 DEF Cd, vars
  <2>3. QED
    BY <2>1, <2>2, EmptyStays
<1>5. CASE FunctionReturn
  <2>1. UNCHANGED subshare
    BY <1>5 DEF FunctionReturn
  <2>2. \A i \in 1..Subshell : DOMAIN data'[i].svar \subseteq DOMAIN data[i].svar
    BY <1>1, <1>5, ReturnSaves
  <2>3. QED
    BY <1>5, <2>1, <2>2, ReturnShape, EmptyStays
<1>6. ASSUME NEW share \in BOOLEAN, SubshellEnter(share)
      PROVE  SharedEmpty'
  <2>1. SUFFICES ASSUME NEW i \in 1..Subshell', IsShared(i)'
                 PROVE  DOMAIN data'[i].svar = {}
    BY DEF SharedEmpty
  <2>2. CASE i = 1
    BY <1>6, <2>2, EnterLevels
  <2>3. CASE i # 1
    <3>1. i - 1 \in 1..Subshell /\ i = (i - 1) + 1
      BY <1>6, <2>3, EnterLevels
    <3>2. data'[i] = data[i - 1] /\ IsShared(i - 1)
      BY <1>6, <2>1, <3>1, EnterLevels
    <3>3. QED
      BY <3>1, <3>2 DEF SharedEmpty
  <2>4. QED
    BY <2>2, <2>3
<1>7. CASE SubshellLeave
  BY <1>7, LeaveLevels DEF SharedEmpty
<1>8. CASE Fork \/ Subfork
  <2>1. Subshell' = 0
    <3>1. CASE Fork
      <4>1. Subs' = {}
        BY <3>1 DEF Fork, Subs
      <4>2. QED
        BY <4>1, FS_EmptySet DEF Subshell
    <3>2. CASE Subfork
      BY <3>2, SubforkShape
    <3>3. QED
      BY <1>8, <3>1, <3>2
  <2>2. QED
    BY <2>1 DEF SharedEmpty
<1>9. QED
  BY <1>2, <1>3, <1>4, <1>5, <1>6, <1>7, <1>8 DEF Next

LEMMA RunsNext ==
    ASSUME NoDeclare, Typed, Held, SharedEmpty, [Next]_vars
    PROVE  [Forked!Next]_<<Current, Parents>>
<1>1. SharedOuter /\ PwdHeld
  BY DEF Held
<1>2. CASE \E n \in Name : Unset(n) \/ \E v \in Value : Assign(n, v) \/ Typeset(n, v)
  BY <1>1, <1>2, RunsVariables
<1>3. CASE \E f \in Function : UnsetFunction(f) \/ \E b \in Body : DefineFunction(f, b)
  BY <1>1, <1>3, RunsFunctions
<1>4. CASE \E d \in Dir : Cd(d)
  BY <1>4, RunsCd
<1>5. CASE FunctionCall \/ FunctionReturn
  BY <1>1, <1>5, RunsCall, RunsReturn
<1>6. CASE \E share \in BOOLEAN : SubshellEnter(share)
  BY <1>1, <1>6, RunsEnter, RunsShare
<1>7. CASE SubshellLeave
  BY <1>1, <1>7, RunsLeave, RunsUnshare DEF Typed, TypeOK
<1>8. CASE Fork \/ Subfork
  BY <1>8, RunsFork
<1>9. CASE UNCHANGED vars
  <2>1. UNCHANGED <<tree, funs, cwd, subshare, calls, data>>
    BY <1>9 DEF vars
  <2>2. Current' = Current
    BY <2>1 DEF Current
  <2>3. \A i : Environment(i)' = Environment(i)
    BY <2>1, InTerms
  <2>4. Cardinality(Levels)' = Cardinality(Levels)
    BY <2>1 DEF Levels, IsShared, Subshell, Subs
  <2>5. Parents' = Parents
    BY <2>3, <2>4 DEF Parents
  <2>6. QED
    BY <2>2, <2>5
<1>10. QED
  BY <1>2, <1>3, <1>4, <1>5, <1>6, <1>7, <1>8, <1>9 DEF Next

(* However subshells, functions, changes of directory and forks are nested, a virtual
   subshell does what a forked one would: every step changes the environment of the
   shell that runs as it says, and no other, and a subshell that ends leaves its
   parent with the environment that it had (sh_subshell).  Left out are the two ways in
   which the code departs from that: declarations of variables in a subshell inside of a
   function (sh_assignok in setall), and a second fork with a stale list of subshells. *)
THEOREM Implements == ASSUME ForkOnce, NoDeclare PROVE Spec => RunsAsForked
<1>1. Init => SharedEmpty /\ Forked!Init
  <2>1. SUFFICES ASSUME Init
                 PROVE  SharedEmpty /\ Forked!Init
    OBVIOUS
  <2>2. Subs = {}
    BY <2>1 DEF Init, Subs
  <2>3. Subshell = 0
    BY <2>2, FS_EmptySet DEF Subshell
  <2>4. Levels = {} /\ SharedEmpty
    BY <2>3 DEF Levels, SharedEmpty
  <2>5. Parents = <<>>
    BY <2>4, ParentsNone
  <2>6. QED
    BY <2>4, <2>5 DEF Forked!Init, Parents
<1>2. IInv /\ SharedEmpty /\ [Next]_vars => SharedEmpty' /\ [Forked!Next]_<<Current, Parents>>
  BY EmptyNext, RunsNext DEF IInv
<1>3. Spec => []IInv
  BY Invariance
<1>4. QED
  BY <1>1, <1>2, <1>3, PTL DEF Spec, RunsAsForked, Forked!Spec, Parents

================================================================================
