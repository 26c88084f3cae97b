------------------------ MODULE ExecutionStateProofs ------------------------
(***************************************************************************)
(* What an answer to a management command means, for every device: any     *)
(* number of resources, groups and blocks, nested to any depth, with the   *)
(* execution states in any mixture when the command comes in.              *)
(***************************************************************************)
EXTENDS ExecutionState, TLAPS

\* A block whose call is under way has taken the command; the loop over its children
\* starts with the first one.
FramesInv ==
    \A k \in 1 .. Len(stack) :
        /\ stack[k].next >= 1
        /\ stack[k].node \in Blocks => mFBState[stack[k].node] = Target(command)

\* The outermost call is the one for the node the command was sent to.
TargetInv == stack # <<>> => stack[Len(stack)].node = target

\* S holds what the innermost k calls have dealt with: their nodes, the children their
\* loops have passed, and below these everything that the command reaches; the threads of
\* the resources among them whose call has returned have followed.
Settled(S, k) ==
    /\ S \in SUBSET Node
    /\ \A j \in 1 .. k :
          /\ stack[j].node \in S
          /\ \A i \in 1 .. Len(mChildren[stack[j].node]) :
                i < stack[j].next => mChildren[stack[j].node][i] \in S
    /\ \A n \in S \cap Blocks : mFBState[n] \in Satisfying(command)
    /\ \A n \in S :
          TookCommand(n) /\ (\A j \in 1 .. k : stack[j].node # n) =>
              /\ \A i \in 1 .. Len(mChildren[n]) : mChildren[n][i] \in S
              /\ n \in Resources => ThreadFollowed(n)

\* As long as nobody has refused, what the calls have dealt with satisfies the command.
SettledInv ==
    retVal = "Ready" => \A k \in 1 .. Len(stack) : \E S \in SUBSET Node : Settled(S, k)

\* The same for a command that has been answered.
DoneInv ==
    stack = <<>> /\ retVal = "Ready" => \E S \in SUBSET Node : target \in S /\ Settled(S, 0)

IInv == TypeOK /\ FramesInv /\ TargetInv /\ SettledInv /\ DoneInv

-----------------------------------------------------------------------------
(* The commands *)

\* The commanded state satisfies the command, and a block that satisfies a command is in
\* none of the states in which it would be taken: it is not moved a second time.
LEMMA CommandFacts ==
    ASSUME NEW c \in Commands
    PROVE  /\ Target(c) \in Satisfying(c) \cap States
           /\ \A s \in Satisfying(c) : ~Legal(c, s)
           /\ c = "Start" => Satisfying(c) = {Target(c)}
           /\ c \in {"Stop", "Kill"} => "Running" \notin Satisfying(c)
  BY DEF Commands, States, Target, Satisfying, Legal

\* A refusal that passes for success: the block satisfies the command without having
\* taken it.
LEMMA EquivalentFacts ==
    ASSUME TypeOK, NEW n \in Blocks, checkForActionEquivalentState(n) = "Ready"
    PROVE  mFBState[n] \in Satisfying(command) /\ mFBState[n] # Target(command)
  BY DEF TypeOK, Commands, States, checkForActionEquivalentState, Target, Satisfying

\* The children of a node are nodes.
LEMMA ChildFacts ==
    ASSUME NEW n \in Node
    PROVE  /\ Len(mChildren[n]) \in Nat
           /\ \A i \in 1 .. Len(mChildren[n]) : mChildren[n][i] \in Node
  BY ContainmentAssumption

\* Everything that is contained in a node: the node itself, and with each node its children.
LEMMA ContainedFacts ==
    ASSUME NEW n
    PROVE  /\ n \in Node => n \in Contained(n)
           /\ Contained(n) \subseteq Node
           /\ \A m \in Contained(n) : \A i \in 1 .. Len(mChildren[m]) :
                 mChildren[m][i] \in Contained(n)
  <1>1. (n \in Node => n \in Contained(n)) /\ Contained(n) \subseteq Node
    BY DEF Contained
  <1>2. ASSUME NEW m \in Contained(n), NEW i \in 1 .. Len(mChildren[m])
        PROVE  mChildren[m][i] \in Contained(n)
    <2>1. mChildren[m][i] \in Node
      BY <1>1, ChildFacts
    <2>2. ASSUME NEW S \in SUBSET Node, n \in S, Closed(S, LAMBDA x : TRUE)
          PROVE  mChildren[m][i] \in S
      <3>1. m \in S
        BY <1>2, <2>2 DEF Contained
      <3> QED BY <2>2, <3>1 DEF Closed
    <2> QED BY <2>1, <2>2 DEF Contained
  <1> QED BY <1>1, <1>2

-----------------------------------------------------------------------------
(* The stack of calls *)

\* The frame on top, and what its loop is about to call.
LEMMA TopFacts ==
    ASSUME IInv, stack # <<>>
    PROVE  /\ Len(stack) \in Nat /\ Len(stack) >= 1
           /\ Top = stack[1] /\ Top \in Frame /\ Top.next >= 1
           /\ loopGoesOn => /\ Top.next \in 1 .. Len(mChildren[Top.node])
                            /\ Child \in Node
  <1>1. stack \in Seq(Frame)
    BY DEF IInv, TypeOK
  <1>2. Len(stack) \in Nat /\ Len(stack) >= 1 /\ Top = stack[1] /\ Top \in Frame
    BY <1>1 DEF Top
  <1>3. Top.next >= 1 /\ Top.node \in Node /\ Top.next \in Nat
    BY <1>2 DEF IInv, FramesInv, Frame
  <1>4. loopGoesOn => Top.next \in 1 .. Len(mChildren[Top.node])
    BY <1>3, ChildFacts DEF loopGoesOn
  <1> QED BY <1>2, <1>3, <1>4, ChildFacts DEF Child

\* The loop of the frame on top has passed one more child.
LEMMA AdvancedFacts ==
    ASSUME IInv, stack # <<>>
    PROVE  /\ Advanced \in Seq(Frame)
           /\ Len(Advanced) = Len(stack)
           /\ Advanced[1].node = stack[1].node
           /\ Advanced[1].next = stack[1].next + 1
           /\ \A k \in 2 .. Len(stack) : Advanced[k] = stack[k]
  <1>1. stack \in Seq(Frame)
    BY DEF IInv, TypeOK
  <1>2. Top \in Frame /\ Top = stack[1] /\ Len(stack) \in Nat /\ Len(stack) >= 1
    BY TopFacts
  <1> DEFINE f == [Top EXCEPT !.next = @ + 1]
  <1>3. f \in Frame /\ f.node = Top.node /\ f.next = Top.next + 1
    BY <1>2 DEF Frame
  <1> HIDE DEF f
  <1>4. Advanced = <<f>> \o Tail(stack)
    BY DEF Advanced, f
  <1>5. Tail(stack) \in Seq(Frame) /\ Len(Tail(stack)) = Len(stack) - 1
    BY <1>1, <1>2
  <1>6. \A k \in 1 .. Len(stack) - 1 : Tail(stack)[k] = stack[k + 1]
    BY <1>1, <1>2
  <1>7. <<f>> \in Seq(Frame) /\ Len(<<f>>) = 1 /\ <<f>>[1] = f
    BY <1>3
  <1>8. Advanced \in Seq(Frame) /\ Len(Advanced) = Len(stack) /\ Advanced[1] = f
    BY <1>2, <1>4, <1>5, <1>7
  <1>9. \A k \in 2 .. Len(stack) : Advanced[k] = Tail(stack)[k - 1]
    BY <1>2, <1>4, <1>5, <1>7
  <1>10. \A k \in 2 .. Len(stack) : Advanced[k] = stack[k]
    BY <1>2, <1>6, <1>9
  <1> QED BY <1>2, <1>3, <1>8, <1>10

-----------------------------------------------------------------------------
(* The steps *)

\* A new command: nothing is settled but the block it was sent to.
LEMMA CommandKeepsIInv ==
    ASSUME IInv, NEW n \in Blocks, NEW c \in Commands, handleExecutionStateCmd(n, c)
    PROVE  IInv'
  <1> USE DEF handleExecutionStateCmd
  <1>1. n \in Node /\ n # NoNode
    BY ContainmentAssumption DEF Blocks
  <1>2. Target(c) \in Satisfying(c) \cap States
    BY CommandFacts
  <1>3. CASE ~Legal(c, mFBState[n])
    <2>1. stack' = <<>> /\ retVal' = "InvalidState"
      BY <1>3
    <2>2. TypeOK'
      BY <1>3, <2>1 DEF IInv, TypeOK
    <2>3. FramesInv' /\ TargetInv' /\ SettledInv' /\ DoneInv'
      BY <2>1 DEF FramesInv, TargetInv, SettledInv, DoneInv
    <2> QED BY <2>2, <2>3 DEF IInv
  <1>4. CASE Legal(c, mFBState[n])
    <2>1. stack' = <<[node |-> n, next |-> 1]>> /\ command' = c /\ target' = n
      BY <1>4
    <2>2. /\ [node |-> n, next |-> 1] \in Frame
          /\ stack' \in Seq(Frame) /\ Len(stack') = 1 /\ stack' # <<>>
          /\ stack'[1].node = n /\ stack'[1].next = 1
      BY <1>1, <2>1 DEF Frame
    <2>3. mFBState' = [mFBState EXCEPT ![n] = Target(c)] /\ mFBState \in [Blocks -> States]
      BY <1>4 DEF moved, IInv, TypeOK
    <2>4. mFBState' \in [Blocks -> States] /\ mFBState'[n] = Target(c)
      BY <1>2, <2>3
    <2>5. TypeOK'
      BY <1>4, <2>1, <2>2, <2>4 DEF IInv, TypeOK
    <2>6. FramesInv' /\ TargetInv' /\ DoneInv'
      BY <2>1, <2>2, <2>4 DEF FramesInv, TargetInv, DoneInv
    <2>7. Settled({n}, 1)'
      <3>1. \A j \in 1 .. 1 : stack'[j].node = n /\ stack'[j].next = 1
        BY <2>2
      <3>2. \A m \in {n} \cap Blocks : mFBState'[m] \in Satisfying(command')
        BY <1>2, <2>1, <2>4
      <3>3. \A i \in 1 .. Len(mChildren[n]) : ~(i < 1)
        BY <1>1, ChildFacts
      <3> QED BY <1>1, <3>1, <3>2, <3>3 DEF Settled
    <2>8. SettledInv'
      BY <1>1, <2>2, <2>7 DEF SettledInv
    <2> QED BY <2>5, <2>6, <2>8 DEF IInv
  <1> QED BY <1>3, <1>4

\* A child takes the command and is called: it is settled in every call under way.
LEMMA CallKeepsIInv ==
    ASSUME IInv, callChild
    PROVE  IInv'
  <1>1. /\ stack # <<>> /\ loopGoesOn /\ retVal = "Ready"
        /\ command' = command /\ retVal' = retVal /\ target' = target
        /\ alive' = alive /\ handlers' = handlers
    BY DEF callChild, loopGoesOn
  <1>2. /\ Len(stack) \in Nat /\ Len(stack) >= 1
        /\ Top = stack[1] /\ Top \in Frame /\ Top.next >= 1
        /\ Top.next \in 1 .. Len(mChildren[Top.node])
        /\ Child \in Node /\ Child = mChildren[stack[1].node][stack[1].next]
    BY <1>1, TopFacts DEF Child
  <1>0. PICK kid \in Node : kid = Child /\ kid = mChildren[stack[1].node][stack[1].next]
    BY <1>2
  <1>3. command \in Commands /\ mFBState \in [Blocks -> States] /\ stack \in Seq(Frame)
    BY DEF IInv, TypeOK
  <1>4. /\ Target(command) \in Satisfying(command) \cap States
        /\ \A s \in Satisfying(command) : ~Legal(command, s)
    BY <1>3, CommandFacts
  <1> DEFINE f == [node |-> kid, next |-> 1]
  <1>5. /\ stack' \in Seq(Frame) /\ Len(stack') = Len(stack) + 1 /\ stack' # <<>>
        /\ stack'[1].node = kid /\ stack'[1].next = 1
        /\ \A k \in 1 .. Len(stack) : stack'[k + 1] = Advanced[k]
    <2>1. stack' = <<f>> \o Advanced /\ f \in Frame /\ f.node = kid /\ f.next = 1
      BY <1>0 DEF callChild, Frame
    <2> HIDE DEF f
    <2>2. Advanced \in Seq(Frame) /\ Len(Advanced) = Len(stack)
      BY <1>1, AdvancedFacts
    <2> QED BY <1>2, <2>1, <2>2
  <1>6. /\ \A k \in 1 .. Len(stack) : stack'[k + 1].node = stack[k].node
        /\ stack'[2].next = stack[1].next + 1
        /\ \A k \in 2 .. Len(stack) : stack'[k + 1].next = stack[k].next
    BY <1>1, <1>2, <1>5, AdvancedFacts
  <1>7. /\ mFBState' \in [Blocks -> States]
        /\ kid \in Blocks => mFBState'[kid] = Target(command)
        /\ \A m \in Blocks : m # kid => mFBState'[m] = mFBState[m]
    BY <1>0, <1>3, <1>4 DEF callChild, moved
  <1>8. \A m \in Blocks : mFBState[m] \in Satisfying(command) => mFBState'[m] = mFBState[m]
    BY <1>0, <1>4, <1>7 DEF callChild
  <1>9. TypeOK'
    BY <1>1, <1>5, <1>7 DEF IInv, TypeOK
  <1>10. FramesInv'
    <2>1. \A k \in 1 .. Len(stack) :
             /\ stack'[k + 1].next >= 1
             /\ stack'[k + 1].node \in Blocks =>
                   mFBState'[stack'[k + 1].node] = Target(command)
      <3> TAKE k \in 1 .. Len(stack)
      <3>1. stack[k] \in Frame /\ stack[1] \in Frame
        BY <1>2, <1>3
      <3>2. stack'[k + 1].next >= 1
        <4>1. CASE k = 1
          <5>1. stack[1].next \in Nat /\ k + 1 = 2
            BY <3>1, <4>1 DEF Frame
          <5> QED BY <1>6, <5>1
        <4>2. CASE k # 1
          <5>1. k \in 2 .. Len(stack)
            BY <1>2, <4>2
          <5> QED BY <1>6, <5>1 DEF IInv, FramesInv
        <4> QED BY <4>1, <4>2
      <3>3. stack[k].node \in Blocks => mFBState[stack[k].node] = Target(command)
        BY DEF IInv, FramesInv
      <3> QED BY <1>4, <1>6, <1>8, <3>2, <3>3
    <2> SUFFICES ASSUME NEW k \in 1 .. Len(stack')
                 PROVE  /\ stack'[k].next >= 1
                        /\ stack'[k].node \in Blocks =>
                              mFBState'[stack'[k].node] = Target(command)
      BY <1>1 DEF FramesInv
    <2>2. CASE k = 1
      BY <1>5, <1>7, <2>2
    <2>3. CASE k # 1
      <3>1. k - 1 \in 1 .. Len(stack) /\ (k - 1) + 1 = k
        BY <1>2, <1>5, <2>3
      <3> QED BY <2>1, <3>1
    <2> QED BY <2>2, <2>3
  <1>11. TargetInv'
    <2>1. Len(stack) \in 1 .. Len(stack)
      BY <1>2
    <2> QED BY <1>1, <1>5, <1>6, <2>1 DEF IInv, TargetInv
  <1>12. Settled({kid}, 1)'
    <2>1. \A j \in 1 .. 1 : stack'[j].node = kid /\ stack'[j].next = 1
      BY <1>5
    <2>2. \A m \in {kid} \cap Blocks : mFBState'[m] \in Satisfying(command')
      BY <1>1, <1>4, <1>7
    <2>3. \A i \in 1 .. Len(mChildren[kid]) : ~(i < 1)
      BY <1>2, ChildFacts
    <2> QED BY <1>2, <2>1, <2>2, <2>3 DEF Settled
  <1>13. ASSUME NEW k \in 1 .. Len(stack), NEW S \in SUBSET Node, Settled(S, k)
         PROVE  Settled(S \cup {kid}, k + 1)'
    <2> DEFINE T == S \cup {kid}
    <2>1. T \in SUBSET Node
      BY <1>2
    <2>2. \A j \in 1 .. k + 1 :
             /\ stack'[j].node \in T
             /\ \A i \in 1 .. Len(mChildren[stack'[j].node]) :
                   i < stack'[j].next => mChildren[stack'[j].node][i] \in T
      <3> TAKE j \in 1 .. k + 1
      <3>1. CASE j = 1
        <4>1. \A i \in 1 .. Len(mChildren[kid]) : ~(i < 1)
          BY <1>2, ChildFacts
        <4> QED BY <1>5, <3>1, <4>1
      <3>2. CASE j # 1
        <4> DEFINE l == j - 1
        <4>1. l \in 1 .. k /\ l \in 1 .. Len(stack) /\ j = l + 1
          BY <1>2, <3>2
        <4> HIDE DEF l
        <4>2. /\ stack[l].node \in S /\ stack[l] \in Frame /\ stack[l].node \in Node
              /\ \A i \in 1 .. Len(mChildren[stack[l].node]) :
                    i < stack[l].next => mChildren[stack[l].node][i] \in S
          <5>1. stack[l] \in Frame
            BY <1>3, <4>1
          <5> QED BY <1>13, <4>1, <5>1 DEF Settled, Frame
        <4>3. stack'[j].node = stack[l].node
          BY <1>6, <4>1
        <4>4. CASE l = 1
          <5>1. stack'[j].next = stack[1].next + 1
            <6>1. j = 2
              BY <4>1, <4>4
            <6> QED BY <1>6, <6>1
          <5>2. \A i \in 1 .. Len(mChildren[stack[1].node]) :
                   i < stack[1].next + 1 => i < stack[1].next \/ i = stack[1].next
            BY <1>2 DEF Frame
          <5> QED BY <1>0, <4>2, <4>3, <4>4, <5>1, <5>2
        <4>5. CASE l # 1
          <5>1. l \in 2 .. Len(stack)
            BY <4>1, <4>5
          <5>2. stack'[j].next = stack[l].next
            BY <1>6, <4>1, <5>1
          <5> QED BY <4>2, <4>3, <5>2
        <4> QED BY <4>4, <4>5
      <3> QED BY <3>1, <3>2
    <2>3. \A m \in T \cap Blocks : mFBState'[m] \in Satisfying(command)
      BY <1>4, <1>7, <1>8, <1>13 DEF Settled
    <2>4. \A m \in T :
             TookCommand(m)' /\ (\A j \in 1 .. k + 1 : stack'[j].node # m) =>
                 /\ \A i \in 1 .. Len(mChildren[m]) : mChildren[m][i] \in T
                 /\ m \in Resources => ThreadFollowed(m)'
      <3> SUFFICES ASSUME NEW m \in T, TookCommand(m)',
                          \A j \in 1 .. k + 1 : stack'[j].node # m
                   PROVE  /\ \A i \in 1 .. Len(mChildren[m]) : mChildren[m][i] \in T
                          /\ m \in Resources => ThreadFollowed(m)'
        OBVIOUS
      <3>1. m # kid
        <4>1. 1 \in 1 .. k + 1
          OBVIOUS
        <4> QED BY <1>5, <4>1
      <3>2. \A j \in 1 .. k : stack[j].node # m
        <4> TAKE j \in 1 .. k
        <4>1. j \in 1 .. Len(stack) /\ j + 1 \in 1 .. k + 1
          BY <1>2
        <4> QED BY <1>6, <4>1
      <3>3. TookCommand(m)
        BY <1>1, <1>7, <3>1 DEF TookCommand
      <3>4. ThreadFollowed(m) => ThreadFollowed(m)'
        BY <1>1 DEF ThreadFollowed
      <3> QED BY <1>13, <3>1, <3>2, <3>3, <3>4 DEF Settled
    <2> QED BY <1>1, <2>1, <2>2, <2>3, <2>4 DEF Settled
  <1>14. SettledInv'
    <2> SUFFICES ASSUME NEW k \in 1 .. Len(stack')
                 PROVE  \E S \in SUBSET Node : Settled(S, k)'
      BY DEF SettledInv
    <2>1. CASE k = 1
      BY <1>2, <1>12, <2>1
    <2>2. CASE k # 1
      <3> DEFINE l == k - 1
      <3>1. l \in 1 .. Len(stack) /\ k = l + 1
        BY <1>2, <1>5, <2>2
      <3> HIDE DEF l
      <3>2. PICK S \in SUBSET Node : Settled(S, l)
        BY <1>1, <3>1 DEF IInv, SettledInv
      <3>3. Settled(S \cup {kid}, k)'
        BY <1>13, <3>1, <3>2
      <3>4. S \cup {kid} \in SUBSET Node
        BY <1>2
      <3> QED BY <3>3, <3>4
    <2> QED BY <2>1, <2>2
  <1>15. DoneInv'
    BY <1>5 DEF DoneInv
  <1> QED BY <1>9, <1>10, <1>11, <1>14, <1>15 DEF IInv

\* A child refuses: when that passes for success the child is settled although it has not
\* taken the command, so nothing below it has to be.
LEMMA RefusalKeepsIInv ==
    ASSUME IInv, childRefuses
    PROVE  IInv'
  <1>1. /\ stack # <<>> /\ loopGoesOn /\ retVal = "Ready"
        /\ command' = command /\ target' = target /\ mFBState' = mFBState
        /\ alive' = alive /\ handlers' = handlers
        /\ stack' = Advanced /\ Child \in Blocks
        /\ retVal' = checkForActionEquivalentState(Child)
    BY DEF childRefuses, loopGoesOn
  <1>2. /\ Len(stack) \in Nat /\ Len(stack) >= 1
        /\ Top = stack[1] /\ Top \in Frame /\ Top.next >= 1
        /\ Top.next \in 1 .. Len(mChildren[Top.node])
        /\ Child \in Node /\ Child = mChildren[stack[1].node][stack[1].next]
    BY <1>1, TopFacts DEF Child
  <1>3. PICK kid \in Node : kid = Child /\ kid = mChildren[stack[1].node][stack[1].next]
    BY <1>2
  <1>4. stack \in Seq(Frame) /\ \A k \in 1 .. Len(stack) : stack[k] \in Frame
    BY DEF IInv, TypeOK
  <1>5. /\ stack' \in Seq(Frame) /\ Len(stack') = Len(stack) /\ stack' # <<>>
        /\ stack'[1].node = stack[1].node /\ stack'[1].next = stack[1].next + 1
        /\ \A k \in 2 .. Len(stack) : stack'[k] = stack[k]
    <2>1. /\ stack' \in Seq(Frame) /\ Len(stack') = Len(stack)
          /\ stack'[1].node = stack[1].node /\ stack'[1].next = stack[1].next + 1
          /\ \A k \in 2 .. Len(stack) : stack'[k] = stack[k]
      BY <1>1, AdvancedFacts
    <2> QED BY <1>2, <2>1
  <1>6. \A k \in 1 .. Len(stack) : stack'[k].node = stack[k].node
    <2> TAKE k \in 1 .. Len(stack)
    <2>1. k = 1 \/ k \in 2 .. Len(stack)
      BY <1>2
    <2> QED BY <1>5, <2>1
  <1>7. TypeOK'
    <2>1. retVal' \in {"Ready", "InvalidState"}
      BY <1>1 DEF checkForActionEquivalentState
    <2> QED BY <1>1, <1>5, <2>1 DEF IInv, TypeOK
  <1>8. FramesInv'
    <2> SUFFICES ASSUME NEW k \in 1 .. Len(stack)
                 PROVE  /\ stack'[k].next >= 1
                        /\ stack'[k].node \in Blocks =>
                              mFBState[stack'[k].node] = Target(command)
      BY <1>1, <1>5 DEF FramesInv
    <2>1. /\ stack[k].next >= 1
          /\ stack[k].node \in Blocks => mFBState[stack[k].node] = Target(command)
      BY DEF IInv, FramesInv
    <2>2. CASE k = 1
      <3>1. stack[1].next \in Nat
        BY <1>2 DEF Frame
      <3> QED BY <1>5, <2>1, <2>2, <3>1
    <2>3. CASE k # 1
      <3>1. k \in 2 .. Len(stack)
        BY <1>2, <2>3
      <3> QED BY <1>5, <2>1, <3>1
    <2> QED BY <2>2, <2>3
  <1>9. TargetInv'
    <2>1. Len(stack) \in 1 .. Len(stack)
      BY <1>2
    <2> QED BY <1>1, <1>5, <1>6, <2>1 DEF IInv, TargetInv
  <1>10. ASSUME retVal' = "Ready", NEW k \in 1 .. Len(stack), NEW S \in SUBSET Node,
                Settled(S, k)
         PROVE  Settled(S \cup {kid}, k)'
    <2> DEFINE T == S \cup {kid}
    <2>0. mFBState[kid] \in Satisfying(command) /\ mFBState[kid] # Target(command)
          /\ kid \in Blocks
      BY <1>1, <1>3, <1>10, EquivalentFacts DEF IInv
    <2>1. T \in SUBSET Node
      OBVIOUS
    <2>2. \A j \in 1 .. k :
             /\ stack'[j].node \in T
             /\ \A i \in 1 .. Len(mChildren[stack'[j].node]) :
                   i < stack'[j].next => mChildren[stack'[j].node][i] \in T
      <3> TAKE j \in 1 .. k
      <3>1. j \in 1 .. Len(stack)
        BY <1>2
      <3>2. /\ stack[j].node \in S /\ stack'[j].node = stack[j].node
            /\ \A i \in 1 .. Len(mChildren[stack[j].node]) :
                  i < stack[j].next => mChildren[stack[j].node][i] \in S
        BY <1>6, <1>10, <3>1 DEF Settled
      <3>3. CASE j = 1
        <4>1. \A i \in 1 .. Len(mChildren[stack[1].node]) :
                 i < stack[1].next + 1 => i < stack[1].next \/ i = stack[1].next
          BY <1>2 DEF Frame
        <4> QED BY <1>3, <1>5, <3>2, <3>3, <4>1
      <3>4. CASE j # 1
        <4>1. j \in 2 .. Len(stack)
          BY <3>1, <3>4
        <4> QED BY <1>5, <3>2, <4>1
      <3> QED BY <3>3, <3>4
    <2>3. \A m \in T \cap Blocks : mFBState[m] \in Satisfying(command)
      BY <1>10, <2>0 DEF Settled
    <2>4. \A m \in T :
             TookCommand(m) /\ (\A j \in 1 .. k : stack'[j].node # m) =>
                 /\ \A i \in 1 .. Len(mChildren[m]) : mChildren[m][i] \in T
                 /\ m \in Resources => ThreadFollowed(m)
      <3>1. ~TookCommand(kid)
        BY <2>0 DEF TookCommand
      <3>2. \A j \in 1 .. k : stack'[j].node = stack[j].node
        BY <1>2, <1>6
      <3> QED BY <1>10, <3>1, <3>2 DEF Settled
    <2>5. \A m \in T : TookCommand(m)' = TookCommand(m) /\ ThreadFollowed(m)' = ThreadFollowed(m)
      BY <1>1 DEF TookCommand, ThreadFollowed
    <2> QED BY <1>1, <2>1, <2>2, <2>3, <2>4, <2>5 DEF Settled
  <1>11. SettledInv'
    <2> SUFFICES ASSUME retVal' = "Ready", NEW k \in 1 .. Len(stack)
                 PROVE  \E S \in SUBSET Node : Settled(S, k)'
      BY <1>5 DEF SettledInv
    <2>1. PICK S \in SUBSET Node : Settled(S, k)
      BY <1>1 DEF IInv, SettledInv
    <2>2. Settled(S \cup {kid}, k)' /\ S \cup {kid} \in SUBSET Node
      BY <1>10, <2>1
    <2> QED BY <2>2
  <1>12. DoneInv'
    BY <1>5 DEF DoneInv
  <1> QED BY <1>7, <1>8, <1>9, <1>11, <1>12 DEF IInv

\* What the loop of the innermost call has dealt with when it is through: a closed set.
LEMMA LoopDone ==
    ASSUME IInv, stack # <<>>, ~loopGoesOn, retVal = "Ready", NEW k \in 1 .. Len(stack),
           NEW S \in SUBSET Node, Settled(S, k)
    PROVE  \A i \in 1 .. Len(mChildren[Top.node]) : mChildren[Top.node][i] \in S
  <1>1. /\ Top = stack[1] /\ Top \in Frame /\ Len(stack) \in Nat
        /\ Len(mChildren[Top.node]) \in Nat
    BY TopFacts, ChildFacts DEF Frame
  <1>2. \A i \in 1 .. Len(mChildren[Top.node]) : i < Top.next
    BY <1>1 DEF loopGoesOn, Frame
  <1>3. 1 \in 1 .. k
    BY <1>1
  <1> QED BY <1>1, <1>2, <1>3 DEF Settled

\* A call returns: what is settled in the calling one is settled without it, and a block
\* that took the command does not turn the refusal of one of its children into success.
LEMMA ReturnKeepsIInv ==
    ASSUME IInv, returnFromCall
    PROVE  IInv'
  <1>1. /\ stack # <<>> /\ ~loopGoesOn
        /\ command' = command /\ target' = target /\ mFBState' = mFBState
        /\ handlers' = handlers /\ stack' = Tail(stack)
    BY DEF returnFromCall
  <1>2. /\ Len(stack) \in Nat /\ Len(stack) >= 1
        /\ Top = stack[1] /\ Top \in Frame
    BY <1>1, TopFacts
  <1>3. stack \in Seq(Frame) /\ \A k \in 1 .. Len(stack) : stack[k] \in Frame
    BY DEF IInv, TypeOK
  <1>4. /\ stack' \in Seq(Frame) /\ Len(stack') = Len(stack) - 1
        /\ \A k \in 1 .. Len(stack) - 1 : stack'[k] = stack[k + 1]
    BY <1>1, <1>2, <1>3
  <1>5. retVal' \in {"Ready", "InvalidState"} /\ (retVal' = "Ready" => retVal = "Ready")
    <2>1. Top.node \in Blocks => checkForActionEquivalentState(Top.node) = "InvalidState"
      <3>1. 1 \in 1 .. Len(stack)
        BY <1>2
      <3>2. Top.node \in Blocks => mFBState[Top.node] = Target(command)
        BY <1>2, <3>1 DEF IInv, FramesInv
      <3> QED BY <3>2 DEF IInv, TypeOK, Commands, checkForActionEquivalentState, Target
    <2> QED BY <2>1 DEF returnFromCall, IInv, TypeOK
  <1>6. TypeOK'
    <2>1. alive' \subseteq Resources
      BY DEF returnFromCall, executionChanged, IInv, TypeOK, Commands
    <2> QED BY <1>1, <1>4, <1>5, <2>1 DEF IInv, TypeOK
  <1>7. FramesInv'
    <2> SUFFICES ASSUME NEW k \in 1 .. Len(stack) - 1
                 PROVE  /\ stack'[k].next >= 1
                        /\ stack'[k].node \in Blocks =>
                              mFBState[stack'[k].node] = Target(command)
      BY <1>1, <1>4 DEF FramesInv
    <2>1. k + 1 \in 1 .. Len(stack)
      BY <1>2
    <2> QED BY <1>4, <2>1 DEF IInv, FramesInv
  <1>8. TargetInv'
    <2> SUFFICES ASSUME stack' # <<>> PROVE stack'[Len(stack')].node = target
      BY <1>1 DEF TargetInv
    <2>1. Len(stack) - 1 \in 1 .. Len(stack) - 1 /\ (Len(stack) - 1) + 1 = Len(stack)
      BY <1>2, <1>4
    <2>2. stack'[Len(stack')] = stack[Len(stack)]
      BY <1>4, <2>1
    <2> QED BY <1>1, <2>2 DEF IInv, TargetInv
  <1>9. ASSUME retVal = "Ready", NEW k \in 0 .. Len(stack) - 1, NEW S \in SUBSET Node,
               Settled(S, k + 1)
        PROVE  Settled(S, k)'
    <2>1. k + 1 \in 1 .. Len(stack) /\ \A j \in 1 .. k : j + 1 \in 1 .. k + 1
      BY <1>2
    <2>2. \A j \in 1 .. k : stack'[j] = stack[j + 1]
      BY <1>2, <1>4
    <2>3. \A j \in 1 .. k :
             /\ stack'[j].node \in S
             /\ \A i \in 1 .. Len(mChildren[stack'[j].node]) :
                   i < stack'[j].next => mChildren[stack'[j].node][i] \in S
      BY <1>9, <2>1, <2>2 DEF Settled
    <2>4. \A m \in S :
             TookCommand(m) /\ (\A j \in 1 .. k : stack'[j].node # m) =>
                 /\ \A i \in 1 .. Len(mChildren[m]) : mChildren[m][i] \in S
                 /\ m \in Resources => ThreadFollowed(m)'
      <3> SUFFICES ASSUME NEW m \in S, TookCommand(m), \A j \in 1 .. k : stack'[j].node # m
                   PROVE  /\ \A i \in 1 .. Len(mChildren[m]) : mChildren[m][i] \in S
                          /\ m \in Resources => ThreadFollowed(m)'
        OBVIOUS
      <3>1. CASE m = Top.node
        <4>1. \A i \in 1 .. Len(mChildren[m]) : mChildren[m][i] \in S
          BY <1>1, <1>9, <2>1, <3>1, LoopDone
        <4>2. m \in Resources => alive' = executionChanged(m)
          BY <1>9, <3>1 DEF returnFromCall
        <4>3. m \in Resources => ThreadFollowed(m)'
          BY <1>1, <4>2 DEF ThreadFollowed, executionChanged
        <4> QED BY <4>1, <4>3
      <3>2. CASE m # Top.node
        <4>1. \A j \in 1 .. k + 1 : j = 1 \/ (j - 1 \in 1 .. k /\ (j - 1) + 1 = j)
          OBVIOUS
        <4>2. \A j \in 1 .. k + 1 : stack[j].node # m
          BY <1>2, <2>2, <3>2, <4>1
        <4>3. /\ \A i \in 1 .. Len(mChildren[m]) : mChildren[m][i] \in S
              /\ m \in Resources => ThreadFollowed(m)
          BY <1>9, <4>2 DEF Settled
        <4>4. m \in alive' <=> m \in alive
          BY <3>2 DEF returnFromCall, executionChanged, IInv, TypeOK, Commands
        <4>5. ThreadFollowed(m) => ThreadFollowed(m)'
          BY <1>1, <4>4 DEF ThreadFollowed
        <4> QED BY <4>3, <4>5
      <3> QED BY <3>1, <3>2
    <2>5. \A m \in S : TookCommand(m)' = TookCommand(m)
      BY <1>1 DEF TookCommand
    <2> QED BY <1>1, <1>9, <2>3, <2>4, <2>5 DEF Settled
  <1>10. ASSUME retVal' = "Ready", NEW k \in 0 .. Len(stack) - 1
         PROVE  \E S \in SUBSET Node : Settled(S, k + 1) /\ Settled(S, k)'
    <2>1. k + 1 \in 1 .. Len(stack)
      BY <1>2
    <2>2. PICK S \in SUBSET Node : Settled(S, k + 1)
      BY <1>5, <1>10, <2>1 DEF IInv, SettledInv
    <2> QED BY <1>5, <1>9, <1>10, <2>2
  <1>11. SettledInv'
    <2> SUFFICES ASSUME retVal' = "Ready", NEW k \in 1 .. Len(stack) - 1
                 PROVE  \E S \in SUBSET Node : Settled(S, k)'
      BY <1>4 DEF SettledInv
    <2>1. k \in 0 .. Len(stack) - 1
      BY <1>2
    <2> QED BY <1>10, <2>1
  <1>12. DoneInv'
    <2> SUFFICES ASSUME retVal' = "Ready", stack' = <<>>
                 PROVE  \E S \in SUBSET Node : target \in S /\ Settled(S, 0)'
      BY <1>1 DEF DoneInv
    <2>1. Len(stack) = 1 /\ 0 \in 0 .. Len(stack) - 1 /\ 1 \in 1 .. 0 + 1
      BY <1>2, <1>4
    <2>2. PICK S \in SUBSET Node : Settled(S, 0 + 1) /\ Settled(S, 0)'
      BY <1>10, <2>1
    <2>3. stack[1].node \in S
      BY <2>1, <2>2 DEF Settled
    <2> QED BY <1>1, <2>1, <2>2, <2>3 DEF IInv, TargetInv
  <1> QED BY <1>6, <1>7, <1>8, <1>11, <1>12 DEF IInv

-----------------------------------------------------------------------------
(* The results *)

\* The inductive invariant.
THEOREM ExecutionInductive == Spec => []IInv
  <1>1. Init => IInv
    <2> SUFFICES ASSUME Init PROVE IInv
      OBVIOUS
    <2>1. TypeOK
      BY DEF Init, TypeOK, States, Commands
    <2>2. Len(stack) = 0
      BY DEF Init
    <2> QED BY <2>1, <2>2 DEF Init, IInv, FramesInv, TargetInv, SettledInv, DoneInv
  <1>2. IInv /\ [Next]_vars => IInv'
    <2> SUFFICES ASSUME IInv, [Next]_vars PROVE IInv'
      OBVIOUS
    <2>1. CASE UNCHANGED vars
      <3>1. TypeOK' /\ FramesInv' /\ TargetInv'
        BY <2>1 DEF vars, IInv, TypeOK, FramesInv, TargetInv
      <3>2. ASSUME NEW S, NEW k, Settled(S, k) PROVE Settled(S, k)'
        BY <2>1, <3>2 DEF vars, Settled, TookCommand, ThreadFollowed
      <3>3. SettledInv' /\ DoneInv'
        BY <2>1, <3>2 DEF vars, IInv, SettledInv, DoneInv
      <3> QED BY <3>1, <3>3 DEF IInv
    <2> QED BY <2>1, CommandKeepsIInv, CallKeepsIInv, RefusalKeepsIInv, ReturnKeepsIInv
            DEF Next
  <1> QED BY <1>1, <1>2, PTL DEF Spec

\* Type correctness of the execution states, the threads and the calls.
THEOREM ExecutionTypeCorrect == Spec => []TypeOK
  BY ExecutionInductive, PTL DEF IInv

\* A command answered Ready has been carried out by every block at every depth of every
\* containment, and followed by the threads, but for what lies below a block that refused it
\* in a state held to be as good, to which the code does not hand it on.
THEOREM ExecutionReadyMeansDone == Spec => []ReadyMeansDone
  <1>1. IInv => ReadyMeansDone
    <2> SUFFICES ASSUME IInv, stack = <<>>, retVal = "Ready",
                        NEW n \in (Contained(target) \cap Blocks) \ BelowEquivalent
                 PROVE  /\ mFBState[n] \in Satisfying(command)
                        /\ n \in Resources /\ TookCommand(n) => ThreadFollowed(n)
      BY DEF ReadyMeansDone
    <2>1. PICK S \in SUBSET Node : target \in S /\ Settled(S, 0)
      BY DEF IInv, DoneInv
    <2>2. \A m \in S :
             TookCommand(m) =>
                 /\ \A i \in 1 .. Len(mChildren[m]) : mChildren[m][i] \in S
                 /\ m \in Resources => ThreadFollowed(m)
      BY <2>1 DEF Settled
    <2>3. \A m \in S \cap Blocks : mFBState[m] \in Satisfying(command)
      BY <2>1 DEF Settled
    <2> DEFINE U == (S \cap Contained(target)) \cup BelowEquivalent
    <2>4. U \in SUBSET Node /\ target \in U
      BY <2>1, ContainedFacts DEF BelowEquivalent, Contained
    <2>5. ASSUME NEW m \in U, NEW i \in 1 .. Len(mChildren[m])
          PROVE  mChildren[m][i] \in U
      <3>1. CASE m \in BelowEquivalent
        <4>1. PICK x \in Equivalent \cap Contained(target) :
                \E l \in 1 .. Len(mChildren[x]) : m \in Contained(mChildren[x][l])
          BY <3>1 DEF BelowEquivalent
        <4>2. PICK l \in 1 .. Len(mChildren[x]) : m \in Contained(mChildren[x][l])
          BY <4>1
        <4>3. mChildren[m][i] \in Contained(mChildren[x][l])
          BY <4>2, <2>5, ContainedFacts
        <4> QED BY <4>1, <4>3 DEF BelowEquivalent
      <3>2. CASE m \in S \cap Contained(target) /\ TookCommand(m)
        <4>1. mChildren[m][i] \in S
          BY <2>2, <3>2
        <4>2. mChildren[m][i] \in Contained(target)
          BY <3>2, ContainedFacts
        <4> QED BY <4>1, <4>2
      <3>3. CASE m \in S \cap Contained(target) /\ ~TookCommand(m)
        <4>1. m \in Equivalent \cap Contained(target)
          BY <2>3, <3>3 DEF Equivalent, TookCommand
        <4>2. mChildren[m][i] \in Node
          BY <2>1, <3>3, ChildFacts
        <4>3. mChildren[m][i] \in Contained(mChildren[m][i])
          BY <4>2, ContainedFacts
        <4> QED BY <4>1, <4>3 DEF BelowEquivalent
      <3> QED BY <3>1, <3>2, <3>3
    <2>6. n \in U
      <3> HIDE DEF U
      <3>1. Closed(U, LAMBDA x : TRUE)
        BY <2>5 DEF Closed
      <3> QED BY <2>4, <3>1 DEF Contained
    <2> QED BY <2>2, <2>3, <2>6
  <1> QED BY <1>1, ExecutionInductive, PTL

\* The thread of a resource is started only when every block in the resource is running
\* and stopped only when none that the command reached is, for every containment.
THEOREM ExecutionOfThreads == Spec => ExecutionFollowsBlocks
  <1> DEFINE Follows ==
        \A r \in Resources :
           /\ r \in alive' \ alive =>
                 \A n \in Contained(r) \cap Blocks : mFBState[n] = "Running"
           /\ r \in alive \ alive' =>
                 \A n \in ReachedFrom(r) \cap Blocks : mFBState[n] # "Running"
  <1>1. ASSUME IInv, [Next]_vars PROVE [Follows]_vars
    <2>1. CASE alive' = alive
      BY <2>1
    <2>2. CASE alive' # alive
      <3>1. returnFromCall /\ retVal = "Ready" /\ Top.node \in Resources
        BY <1>1, <2>2 DEF Next, handleExecutionStateCmd, callChild, childRefuses,
                          returnFromCall, vars
      <3>2. alive' = executionChanged(Top.node) /\ stack # <<>> /\ ~loopGoesOn
        BY <3>1 DEF returnFromCall
      <3>3. Top = stack[1] /\ 1 \in 1 .. Len(stack) /\ 1 \in 1 .. 1
        BY <1>1, <3>2, TopFacts
      <3>4. PICK S \in SUBSET Node : Settled(S, 1)
        BY <1>1, <3>1, <3>3 DEF IInv, SettledInv
      <3>5. Top.node \in S /\ \A n \in S \cap Blocks : mFBState[n] \in Satisfying(command)
        BY <3>3, <3>4 DEF Settled
      <3>6. \A m \in S :
               TookCommand(m) => \A i \in 1 .. Len(mChildren[m]) : mChildren[m][i] \in S
        <4>1. \A i \in 1 .. Len(mChildren[Top.node]) : mChildren[Top.node][i] \in S
          BY <1>1, <3>1, <3>2, <3>3, <3>4, LoopDone
        <4>2. \A m \in S : m # Top.node => \A j \in 1 .. 1 : stack[j].node # m
          BY <3>3
        <4> QED BY <3>4, <4>1, <4>2 DEF Settled
      <3>7. command \in Commands
        BY <1>1 DEF IInv, TypeOK
      <3>8. ASSUME NEW r \in Resources, r \in alive' \ alive,
                   NEW n \in Contained(r) \cap Blocks
            PROVE  mFBState[n] = "Running"
        <4>1. command = "Start" /\ r = Top.node
          BY <3>2, <3>7, <3>8 DEF executionChanged, Commands
        <4>2. Satisfying(command) = {"Running"} /\ Target(command) = "Running"
          BY <4>1 DEF Satisfying, Target
        <4>3. \A m \in S : TookCommand(m)
          BY <3>5, <4>2 DEF TookCommand
        <4>4. n \in S
          BY <3>5, <3>6, <3>8, <4>1, <4>3 DEF Contained, Closed
        <4> QED BY <3>5, <4>2, <4>4
      <3>9. ASSUME NEW r \in Resources, r \in alive \ alive',
                   NEW n \in ReachedFrom(r) \cap Blocks
            PROVE  mFBState[n] # "Running"
        <4>1. command \in {"Stop", "Kill"} /\ r = Top.node
          BY <3>2, <3>7, <3>9 DEF executionChanged, Commands
        <4>2. n \in S
          BY <3>5, <3>6, <3>9, <4>1 DEF ReachedFrom, Closed
        <4> QED BY <3>5, <3>7, <4>1, <4>2, CommandFacts
      <3> QED BY <3>8, <3>9
    <2> QED BY <2>1, <2>2
  <1> QED BY <1>1, ExecutionInductive, PTL DEF Spec, ExecutionFollowsBlocks
=============================================================================
