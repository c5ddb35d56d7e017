--------------------------- MODULE PatchesProofs ----------------------------
(***************************************************************************)
(* What is proved of the process of the server, for every order of the     *)
(* hooks, every number of loads and every function that is patched: the    *)
(* code that is reached is there (HooksInv), the trampoline of the first   *)
(* attachment leads where the function led (DetourInv), and a map finds    *)
(* nothing of the last one, nor an engine's address on another engine      *)
(* (ModuleInv), and a line of the server reaches the one who waits for it  *)
(* (ConsoleInv).                                                           *)
(***************************************************************************)
EXTENDS MCPatches, Arithmetic

-----------------------------------------------------------------------------
(* The hooks over the loads of the proxy *)

\* The hooks that are attached, by this load.
InPlace ==
    IF phase = "attaching" THEN {Order[i] : i \in 1..done}
    ELSE IF phase = "ready" THEN Hooks
    ELSE IF phase = "detaching" THEN {Order[i] : i \in (done + 1)..Len(Order)}
    ELSE {}

\* A hook in place leads to this load, and its trampoline holds what the function
\* started with: the engine's instructions, or what a shutdown that failed left.
AsAttached(h) ==
    /\ code[h] = IF h = Packet THEN Stub(load) ELSE InProxy(h, load)
    /\ hook[h].trampoline = Trampoline(h, load)
    /\ Trampoline(h, load) \in DOMAIN memory
    /\ memory[Trampoline(h, load)] = hook[h].saved
    /\ h \in Sound => hook[h].saved = Engine
    /\ h = Packet =>
        /\ stub = Stub(load) /\ Stub(load) \in DOMAIN memory
        /\ memory[Stub(load)] = Trampoline(h, load)
        /\ hook[h].saved.in # "proxy"

\* What is allocated belongs to a hook in place, or to one that could not be
\* detached.
OwnBlocks ==
    \A b \in DOMAIN memory :
        b.of \in Sound => b.of \in InPlace /\ b \in {Trampoline(b.of, load), Stub(load)}

\* The trampoline of the first load that could not detach a hook stays, and no
\* later load has it for its own.
KeptOfStuck ==
    \A h \in stuck : \E k \in 1..load :
        /\ h \in InPlace \/ phase = "attaching" => k < load
        /\ Trampoline(h, k) \in DOMAIN memory
        /\ memory[Trampoline(h, k)] = Engine

\* The packet code is at the bottom of the stack; it alone may be on it while no hook
\* is in place for sure.
StackOfPackets ==
    /\ \A i \in DOMAIN stack : stack[i].function = Packet =>
            i = 1 /\ stack[i].at.in # "proxy"
    /\ phase = "ready" =>
        \A i \in DOMAIN stack : stack[i].function \in Sound =>
            stack[i].at \in {Engine, InProxy(stack[i].function, load)}
    /\ phase # "ready" => stack = <<>> \/ stack = <<Frame(Packet, Engine)>>

HooksTypeOK ==
    /\ TypeOK
    /\ phase \in {"attaching", "detaching"} => done < Len(Order)
    /\ phase # "out" => load \in Loads

HooksInv ==
    /\ HooksTypeOK
    /\ phase # "exited" =>
        /\ \A h \in InPlace : AsAttached(h)
        /\ \A h \in Sound \ InPlace : code[h] = Engine
        /\ OwnBlocks /\ KeptOfStuck
    /\ phase = "exited" => InstructionsKept
    /\ code[Packet].in # "proxy"
    /\ StackOfPackets

\* The hooks are attached and detached in one order, each once, SV_PacketEvent last.
LEMMA TheOrder ==
    /\ Len(Order) \in Nat /\ Len(Order) >= 1
    /\ \A i \in 1..Len(Order) : Order[i] \in Hooks
    /\ \A h \in Hooks : \E i \in 1..Len(Order) : Order[i] = h
    /\ \A i, j \in 1..Len(Order) : Order[i] = Order[j] => i = j
    /\ Packet \in Hooks
    /\ MaxLoads \in Nat \ {0} /\ MaxDepth \in Nat \ {0}
<1>1. /\ HookOrder \in Seq(Hooked) /\ Packet \notin Hooked
      /\ \A i, j \in DOMAIN HookOrder : HookOrder[i] = HookOrder[j] => i = j
      /\ MaxLoads \in Nat \ {0} /\ MaxDepth \in Nat \ {0}
    BY HooksAssumption DEF HooksAssumption
<1>2. PICK n \in Nat : n = Len(HookOrder)
    BY <1>1
<1>3. DOMAIN HookOrder = 1..n
    BY <1>1, <1>2
<1>4. \A i \in 1..n : HookOrder[i] \in Hooked
    BY <1>1, <1>3 DEF Hooked
<1>5. \A h \in Hooked : \E i \in 1..n : HookOrder[i] = h
    BY <1>3 DEF Hooked
<1>6. /\ Len(Order) = n + 1
      /\ \A i \in 1..n : Order[i] = HookOrder[i]
      /\ Order[n + 1] = Packet
    BY <1>1, <1>2, <1>3 DEF Order
<1>7. \A i \in 1..(n + 1) : i \in 1..n \/ i = n + 1
    OBVIOUS
<1>8. 1..n \subseteq 1..(n + 1) /\ n + 1 \in 1..(n + 1)
    OBVIOUS
<1>9. \A i \in 1..Len(Order) : Order[i] \in Hooks
    BY <1>4, <1>6, <1>7 DEF Hooks
<1>10. \A h \in Hooks : \E i \in 1..Len(Order) : Order[i] = h
    BY <1>5, <1>6, <1>8 DEF Hooks
<1>11. \A i, j \in 1..Len(Order) : Order[i] = Order[j] => i = j
    BY <1>1, <1>3, <1>4, <1>6, <1>7
<1> QED
    BY <1>1, <1>6, <1>9, <1>10, <1>11 DEF Hooks

\* Blocks and places differ by what they are, whose, or of which load.
LEMMA Distinct ==
    /\ \A h, g, m, n : Trampoline(h, m) = Trampoline(g, n) => h = g /\ m = n
    /\ \A h, m, n : Trampoline(h, m) # Stub(n)
    /\ \A h, n : /\ Trampoline(h, n).of = h /\ Trampoline(h, n).in = "trampoline"
                 /\ Trampoline(h, n).load = n
                 /\ InProxy(h, n).in = "proxy" /\ InProxy(h, n).load = n
                 /\ InProxy(h, n) # Engine
    /\ \A n : /\ Stub(n).of = Packet /\ Stub(n).in = "stub" /\ Stub(n).load = n
              /\ Stub(n) # Engine
    /\ Engine.in = "engine" /\ Nowhere.in = "nowhere"
<1>1. \A h, n : /\ Trampoline(h, n).of = h /\ Trampoline(h, n).in = "trampoline"
                /\ Trampoline(h, n).load = n
                /\ InProxy(h, n).in = "proxy" /\ InProxy(h, n).load = n
    BY DEF Trampoline, InProxy
<1>2. \A n : Stub(n).of = Packet /\ Stub(n).in = "stub" /\ Stub(n).load = n
    BY DEF Stub
<1>3. Engine.in = "engine" /\ Nowhere.in = "nowhere"
    BY DEF Engine, Nowhere
<1>4. \A h, n : InProxy(h, n) # Engine
    BY <1>1, <1>3
<1>5. \A n : Stub(n) # Engine
    BY <1>2, <1>3
<1>6. \A h, m, n : Trampoline(h, m) # Stub(n)
    BY <1>1, <1>2
<1>7. \A h, g, m, n : Trampoline(h, m) = Trampoline(g, n) => h = g /\ m = n
    BY <1>1
<1> QED
    BY <1>1, <1>2, <1>3, <1>4, <1>5, <1>6, <1>7

\* What is a block and what is a place.
LEMMA Placed ==
    /\ Engine \in Places /\ Blocks \subseteq Places
    /\ \A h \in Hooks, n \in Loads :
        /\ Trampoline(h, n) \in Blocks /\ Stub(n) \in Blocks
        /\ InProxy(h, n) \in Places
BY DEF Blocks, Places

\* A hook more is in place.
LEMMA OneMoreInPlace ==
    ASSUME HooksTypeOK, phase = "attaching", phase' = Attached, done' = done + 1
    PROVE  /\ Order[done + 1] \in Hooks /\ Order[done + 1] \notin InPlace
           /\ InPlace' = InPlace \cup {Order[done + 1]}
           /\ phase' \in {"attaching", "ready"}
           /\ phase' = "attaching" => done' < Len(Order)
           /\ done' \in 0..Len(Order)
<1>1. done \in 0..Len(Order) /\ done < Len(Order) /\ done + 1 \in 1..Len(Order)
    BY TheOrder DEF HooksTypeOK, TypeOK
<1>2. InPlace = {Order[i] : i \in 1..done}
    BY DEF InPlace
<1>3. Order[done + 1] \notin InPlace
    BY <1>1, <1>2, TheOrder
<1>4. 1..(done + 1) = 1..done \cup {done + 1}
    BY <1>1
<1>5. {Order[i] : i \in 1..(done + 1)} = InPlace \cup {Order[done + 1]}
    BY <1>2, <1>4
<1>6. CASE done + 1 = Len(Order)
    <2>1. InPlace' = Hooks /\ phase' = "ready"
        BY <1>6 DEF Attached, InPlace, Hooks, Hooked
    <2>2. {Order[i] : i \in 1..Len(Order)} = Hooks
        BY TheOrder
    <2> QED
        BY <1>1, <1>3, <1>5, <1>6, <2>1, <2>2, TheOrder
<1>7. CASE done + 1 # Len(Order)
    <2>1. phase' = "attaching" /\ InPlace' = {Order[i] : i \in 1..(done + 1)}
        BY <1>7 DEF Attached, InPlace, Order
    <2> QED
        BY <1>1, <1>3, <1>5, <1>7, <2>1, TheOrder
<1> QED
    BY <1>6, <1>7

\* A hook less is in place.
LEMMA OneLessInPlace ==
    ASSUME HooksTypeOK, phase = "detaching", phase' = Detached, done' = done + 1
    PROVE  /\ Order[done + 1] \in Hooks /\ Order[done + 1] \in InPlace
           /\ InPlace' = InPlace \ {Order[done + 1]}
           /\ phase' \in {"detaching", "detached"}
           /\ phase' = "detaching" => done' < Len(Order)
           /\ done' \in 0..Len(Order)
<1>1. done \in 0..Len(Order) /\ done < Len(Order) /\ done + 1 \in 1..Len(Order)
    BY TheOrder DEF HooksTypeOK, TypeOK
<1>2. InPlace = {Order[i] : i \in (done + 1)..Len(Order)}
    BY DEF InPlace
<1>3. Order[done + 1] \in InPlace
    BY <1>1, <1>2
<1>4. (done + 1)..Len(Order) = ((done + 2)..Len(Order)) \cup {done + 1}
    BY <1>1, TheOrder
<1>5. \A i \in (done + 2)..Len(Order) : Order[i] # Order[done + 1]
    BY <1>1, TheOrder
<1>6. {Order[i] : i \in (done + 2)..Len(Order)} = InPlace \ {Order[done + 1]}
    BY <1>2, <1>4, <1>5
<1>7. CASE done + 1 = Len(Order)
    <2>1. InPlace' = {} /\ phase' = "detached"
        BY <1>7 DEF Detached, InPlace
    <2>2. (done + 2)..Len(Order) = {}
        BY <1>1, <1>7
    <2> QED
        BY <1>1, <1>3, <1>6, <1>7, <2>1, <2>2, TheOrder
<1>8. CASE done + 1 # Len(Order)
    <2>1. phase' = "detaching" /\ InPlace' = {Order[i] : i \in (done + 1 + 1)..Len(Order)}
        BY <1>8 DEF Detached, InPlace, Order
    <2>2. done + 1 + 1 = done + 2
        BY <1>1
    <2> QED
        BY <1>1, <1>3, <1>6, <1>8, <2>1, <2>2, TheOrder
<1> QED
    BY <1>7, <1>8

-----------------------------------------------------------------------------
LEMMA HooksInit == Init => HooksInv
<1> SUFFICES ASSUME Init PROVE HooksInv
    OBVIOUS
<1> USE DEF Init
<1>1. HooksTypeOK
    <2>1. DOMAIN memory = {}
        OBVIOUS
    <2>2. Unattached \in [trampoline : Blocks \cup {Nowhere}, saved : Places]
        BY Placed DEF Unattached
    <2>3. code \in [Hooks -> Places]
        BY Placed
    <2>4. hook \in [Hooks -> [trampoline : Blocks \cup {Nowhere}, saved : Places]]
        BY <2>2
    <2>5. stack \in Seq([function : Hooks, at : Places]) /\ load \in 0..MaxLoads /\ done \in 0..Len(Order)
        BY TheOrder
    <2> QED
        BY <2>1, <2>3, <2>4, <2>5 DEF HooksTypeOK, TypeOK
<1>2. InPlace = {} /\ \A h \in Hooks : code[h] = Engine
    BY DEF InPlace
<1>3. OwnBlocks /\ KeptOfStuck
    BY <1>2 DEF OwnBlocks, KeptOfStuck
<1>4. StackOfPackets
    BY DEF StackOfPackets
<1>5. code[Packet].in # "proxy"
    BY <1>2, TheOrder, Distinct
<1> QED
    BY <1>1, <1>2, <1>3, <1>4, <1>5 DEF HooksInv, Sound

\* The game's module is loaded.
LEMMA LoadKeeps == HooksInv /\ Load => HooksInv'
<1> SUFFICES ASSUME HooksInv, Load PROVE HooksInv'
    OBVIOUS
<1> USE DEF Load
<1>1. HooksTypeOK'
    <2>1. Unattached \in [trampoline : Blocks \cup {Nowhere}, saved : Places]
        BY Placed DEF Unattached
    <2>2. hook' \in [Hooks -> [trampoline : Blocks \cup {Nowhere}, saved : Places]]
        BY <2>1
    <2>3. load' \in Loads /\ load' \in 0..MaxLoads /\ done' = 0 /\ done' < Len(Order)
        BY TheOrder DEF HooksInv, HooksTypeOK, TypeOK, Loads
    <2> QED
        BY <2>2, <2>3, TheOrder DEF HooksInv, HooksTypeOK, TypeOK
<1>2. InPlace = {} /\ InPlace' = {}
    BY DEF InPlace
<1>3. KeptOfStuck'
    <2>1. \A h \in stuck : \E k \in 1..load :
            Trampoline(h, k) \in DOMAIN memory /\ memory[Trampoline(h, k)] = Engine
        BY DEF HooksInv, KeptOfStuck
    <2>2. \A k \in 1..load : k \in 1..load' /\ k < load'
        BY DEF HooksInv, HooksTypeOK, TypeOK
    <2> QED
        BY <2>1, <2>2 DEF KeptOfStuck
<1>4. OwnBlocks'
    BY <1>2 DEF HooksInv, OwnBlocks, Sound
<1>5. StackOfPackets'
    BY DEF HooksInv, StackOfPackets
<1> QED
    BY <1>1, <1>2, <1>3, <1>4, <1>5 DEF HooksInv, Sound

\* Everything but what is attached: the map changes, and the proxy is unloaded.
LEMMA PhaseKeeps == HooksInv /\ (ChangeMap \/ Unload) => HooksInv'
<1> SUFFICES ASSUME HooksInv, ChangeMap \/ Unload PROVE HooksInv'
    OBVIOUS
<1>1. UNCHANGED <<load, code, memory, hook, stub, stack, stuck>>
    BY DEF ChangeMap, Unload
<1>2. InPlace' = InPlace
    <2>1. CASE ChangeMap
        <3>1. InPlace = Hooks /\ InPlace' = {Order[i] : i \in (0 + 1)..Len(Order)}
            BY <2>1 DEF ChangeMap, InPlace, Hooks, Hooked, Order
        <3> QED
            BY <3>1, TheOrder
    <2>2. CASE Unload
        BY <2>2 DEF Unload, InPlace
    <2> QED
        BY <2>1, <2>2
<1>3. /\ phase \in {"ready", "detached"} /\ phase' \in {"detaching", "out"}
      /\ HooksTypeOK'
    BY TheOrder DEF ChangeMap, Unload, HooksInv, HooksTypeOK, TypeOK
<1>4. KeptOfStuck' /\ OwnBlocks'
    BY <1>1, <1>2, <1>3 DEF HooksInv, KeptOfStuck, OwnBlocks, Sound
<1>5. \A h \in InPlace : AsAttached(h)'
    BY <1>1, <1>3 DEF HooksInv, AsAttached, Sound
<1>6. StackOfPackets'
    <2>1. \A i \in DOMAIN stack : stack[i].function = Packet =>
            i = 1 /\ stack[i].at.in # "proxy"
        BY DEF HooksInv, StackOfPackets
    <2>2. CASE Unload
        BY <1>1, <1>3, <2>1, <2>2 DEF Unload, HooksInv, StackOfPackets
    <2>3. CASE ChangeMap
        <3>1. CASE stack = <<>>
            BY <1>1, <1>3, <3>1 DEF StackOfPackets
        <3>2. CASE InPacketCode
            <4>1. stack \in Seq([function : Hooks, at : Places])
                BY DEF HooksInv, HooksTypeOK, TypeOK
            <4>2. Len(stack) \in DOMAIN stack /\ stack[Len(stack)] = Frame(Packet, Engine)
                BY <3>2, <4>1 DEF InPacketCode
            <4>3. Frame(Packet, Engine).function = Packet
                BY DEF Frame
            <4>4. Len(stack) = 1
                BY <2>1, <4>2, <4>3, Zenon
            <4>5. stack = <<Frame(Packet, Engine)>>
                BY <4>1, <4>2, <4>4
            <4> QED
                BY <1>1, <1>3, <2>1, <4>5 DEF StackOfPackets
        <3> QED
            BY <2>3, <3>1, <3>2 DEF ChangeMap
    <2> QED
        BY <2>2, <2>3
<1>7. code'[Packet].in # "proxy"
    BY <1>1 DEF HooksInv
<1> QED
    BY <1>1, <1>2, <1>3, <1>4, <1>5, <1>6, <1>7 DEF HooksInv, Sound

\* The first instructions of a function are in it or in a trampoline.
LEMMA KeptWhileRunning == HooksInv => InstructionsKept
<1> SUFFICES ASSUME HooksInv, phase # "exited" PROVE InstructionsKept
    BY DEF HooksInv
<1> SUFFICES ASSUME NEW h \in Hooks, code[h] # Engine
             PROVE  \E b \in DOMAIN memory :
                        b.in = "trampoline" /\ b.of = h /\ memory[b] = Engine
    BY DEF InstructionsKept
<1>1. CASE h \in stuck
    <2>1. PICK k \in 1..load : /\ Trampoline(h, k) \in DOMAIN memory
                               /\ memory[Trampoline(h, k)] = Engine
        BY <1>1 DEF HooksInv, KeptOfStuck
    <2> QED
        BY <2>1, Distinct
<1>2. CASE h \in Sound
    <2>1. AsAttached(h)
        BY <1>2 DEF HooksInv
    <2> QED
        BY <1>2, <2>1, Distinct DEF AsAttached
<1> QED
    BY <1>1, <1>2 DEF Sound

\* The blocks of a hook in place.
OwnedBy(h) == {Trampoline(h, load)} \cup (IF h = Packet THEN {Stub(load)} ELSE {})

\* What Attach does, of a hook of the list or of SV_PacketEvent.
LEMMA AttachStep ==
    ASSUME HooksInv, NEW h, AttachHook(h) \/ (h = Packet /\ AttachPacketEventFilter)
    PROVE  /\ h \in Hooks \ InPlace /\ phase = "attaching" /\ h = Order[done + 1]
           /\ DOMAIN memory' = DOMAIN memory \cup OwnedBy(h)
           /\ \A b \in DOMAIN memory \ OwnedBy(h) : memory'[b] = memory[b]
           /\ memory'[Trampoline(h, load)] = code[h]
           /\ h = Packet => memory'[Stub(load)] = Trampoline(h, load) /\ stub' = Stub(load)
           /\ h # Packet => stub' = stub
           /\ hook' = [hook EXCEPT ![h] = [trampoline |-> Trampoline(h, load), saved |-> code[h]]]
           /\ code' = [code EXCEPT ![h] = IF h = Packet THEN Stub(load) ELSE InProxy(h, load)]
           /\ done' = done + 1 /\ phase' = Attached
           /\ UNCHANGED <<load, stack, stuck>>
<1>1. /\ phase = "attaching" /\ h = Order[done + 1]
      /\ done' = done + 1 /\ phase' = Attached
      /\ UNCHANGED <<load, stack, stuck>>
      /\ hook' = [hook EXCEPT ![h] = [trampoline |-> Trampoline(h, load), saved |-> code[h]]]
    BY DEF AttachHook, AttachPacketEventFilter
<1>2. h \in Hooks \ InPlace
    BY <1>1, OneMoreInPlace DEF HooksInv
<1>3. CASE h # Packet /\ AttachHook(h)
    <2>1. /\ memory' = Alloc(memory, Trampoline(h, load), code[h])
          /\ code' = [code EXCEPT ![h] = InProxy(h, load)] /\ stub' = stub
        BY <1>3 DEF AttachHook
    <2>2. OwnedBy(h) = {Trampoline(h, load)}
        BY <1>3 DEF OwnedBy
    <2>3. /\ DOMAIN memory' = DOMAIN memory \cup {Trampoline(h, load)}
          /\ memory'[Trampoline(h, load)] = code[h]
          /\ \A b \in DOMAIN memory : b # Trampoline(h, load) => memory'[b] = memory[b]
        BY <2>1 DEF Alloc
    <2> QED
        BY <1>1, <1>2, <1>3, <2>1, <2>2, <2>3
<1>4. CASE h = Packet /\ AttachPacketEventFilter
    <2> DEFINE first == Alloc(memory, Trampoline(h, load), code[h])
    <2>1. /\ memory' = Alloc(first, Stub(load), Trampoline(h, load))
          /\ code' = [code EXCEPT ![h] = Stub(load)] /\ stub' = Stub(load)
        BY <1>4 DEF AttachPacketEventFilter
    <2>2. OwnedBy(h) = {Trampoline(h, load), Stub(load)}
        BY <1>4 DEF OwnedBy
    <2>3. /\ DOMAIN first = DOMAIN memory \cup {Trampoline(h, load)}
          /\ first[Trampoline(h, load)] = code[h]
          /\ \A b \in DOMAIN memory : b # Trampoline(h, load) => first[b] = memory[b]
        BY DEF Alloc
    <2> HIDE DEF first
    <2>4. /\ DOMAIN memory' = DOMAIN first \cup {Stub(load)}
          /\ memory'[Stub(load)] = Trampoline(h, load)
          /\ \A b \in DOMAIN first : b # Stub(load) => memory'[b] = first[b]
        BY <2>1 DEF Alloc
    <2>5. Trampoline(h, load) # Stub(load)
        BY Distinct
    <2>6. memory'[Trampoline(h, load)] = code[h]
        BY <2>3, <2>4, <2>5
    <2>7. \A b \in DOMAIN memory \ OwnedBy(h) : memory'[b] = memory[b]
        BY <2>2, <2>3, <2>4
    <2>8. DOMAIN memory' = DOMAIN memory \cup OwnedBy(h)
        BY <2>2, <2>3, <2>4
    <2> QED
        BY <1>1, <1>2, <1>4, <2>1, <2>4, <2>6, <2>7, <2>8
<1> QED
    BY <1>3, <1>4 DEF AttachHook

LEMMA AttachKeeps ==
    ASSUME HooksInv, NEW h, AttachHook(h) \/ (h = Packet /\ AttachPacketEventFilter)
    PROVE  HooksInv'
<1>1. /\ h \in Hooks \ InPlace /\ phase = "attaching" /\ h = Order[done + 1]
      /\ DOMAIN memory' = DOMAIN memory \cup OwnedBy(h)
      /\ \A b \in DOMAIN memory \ OwnedBy(h) : memory'[b] = memory[b]
      /\ memory'[Trampoline(h, load)] = code[h]
      /\ h = Packet => memory'[Stub(load)] = Trampoline(h, load) /\ stub' = Stub(load)
      /\ h # Packet => stub' = stub
      /\ hook' = [hook EXCEPT ![h] = [trampoline |-> Trampoline(h, load), saved |-> code[h]]]
      /\ code' = [code EXCEPT ![h] = IF h = Packet THEN Stub(load) ELSE InProxy(h, load)]
      /\ done' = done + 1 /\ phase' = Attached
    BY AttachStep
<1>u. load' = load /\ stack' = stack /\ stuck' = stuck /\ Sound' = Sound
    BY AttachStep DEF Sound
<1>2. /\ InPlace' = InPlace \cup {h}
      /\ phase' \in {"attaching", "ready"}
      /\ phase' = "attaching" => done' < Len(Order)
      /\ done' \in 0..Len(Order)
    BY <1>1, OneMoreInPlace DEF HooksInv
<1>t. TypeOK /\ load \in Loads /\ load \in Nat
    BY <1>1 DEF HooksInv, HooksTypeOK, Loads
<1>3. \A b \in DOMAIN memory \cup OwnedBy(h) : b \in Blocks
    BY <1>1, <1>t, Placed DEF TypeOK, OwnedBy
<1>4. HooksTypeOK'
    <2>1. code[h] \in Places /\ Trampoline(h, load) \in Blocks /\ Stub(load) \in Blocks
        BY <1>1, <1>t, Placed DEF TypeOK
    <2>2. code' \in [Hooks -> Places]
        BY <1>1, <1>t, <2>1, Placed DEF TypeOK
    <2>3. hook' \in [Hooks -> [trampoline : Blocks \cup {Nowhere}, saved : Places]]
        BY <1>1, <1>t, <2>1 DEF TypeOK
    <2>4. stub' \in Blocks \cup {Nowhere}
        BY <1>1, <1>t, <2>1 DEF TypeOK
    <2>5. \A b \in DOMAIN memory' : memory'[b] \in Places
        BY <1>1, <1>t, <2>1, Placed DEF TypeOK, OwnedBy
    <2> QED
        BY <1>1, <1>2, <1>3, <1>t, <1>u, <2>2, <2>3, <2>4, <2>5 DEF TypeOK, HooksTypeOK
<1>5. ASSUME NEW g \in InPlace' PROVE AsAttached(g)'
    <2>1. CASE g = h
        <3>1. h \in Sound => code[h] = Engine
            BY <1>1 DEF HooksInv
        <3>2. h = Packet => code[h].in # "proxy"
            BY DEF HooksInv
        <3>3. hook'[h] = [trampoline |-> Trampoline(h, load), saved |-> code[h]]
            BY <1>1, <1>t DEF TypeOK
        <3>4. code'[h] = IF h = Packet THEN Stub(load) ELSE InProxy(h, load)
            BY <1>1, <1>t DEF TypeOK
        <3> QED
            BY <1>1, <1>u, <2>1, <3>1, <3>2, <3>3, <3>4 DEF AsAttached, OwnedBy
    <2>2. CASE g # h
        <3>1. g \in InPlace /\ AsAttached(g)
            BY <1>1, <1>2, <2>2 DEF HooksInv
        <3>2. code'[g] = code[g] /\ hook'[g] = hook[g]
            BY <1>1, <1>t, <2>2 DEF TypeOK
        <3>3. Trampoline(g, load) \notin OwnedBy(h)
            BY <2>2, Distinct DEF OwnedBy
        <3>4. g = Packet => Stub(load) \notin OwnedBy(h) /\ stub' = stub
            BY <1>1, <2>2, Distinct DEF OwnedBy
        <3> QED
            BY <1>1, <1>u, <3>1, <3>2, <3>3, <3>4 DEF AsAttached
    <2> QED
        BY <2>1, <2>2
<1>6. ASSUME NEW g \in Sound' \ InPlace' PROVE code'[g] = Engine
    <2>1. code[g] = Engine /\ g # h
        BY <1>1, <1>2, <1>u, <1>6 DEF HooksInv
    <2> QED
        BY <1>1, <1>t, <2>1 DEF TypeOK, Sound
<1>7. OwnBlocks'
    <2>1. \A b \in DOMAIN memory : b.of \in Sound =>
            b.of \in InPlace /\ b \in {Trampoline(b.of, load), Stub(load)}
        BY <1>1 DEF HooksInv, OwnBlocks
    <2>2. \A b \in OwnedBy(h) : b.of = h /\ b \in {Trampoline(b.of, load), Stub(load)}
        BY Distinct DEF OwnedBy
    <2> QED
        BY <1>1, <1>2, <1>u, <2>1, <2>2 DEF OwnBlocks
<1>8. KeptOfStuck'
    <2> SUFFICES ASSUME NEW g \in stuck
                 PROVE  \E k \in 1..load : /\ k < load
                                           /\ Trampoline(g, k) \in DOMAIN memory'
                                           /\ memory'[Trampoline(g, k)] = Engine
        BY <1>u DEF KeptOfStuck
    <2>1. PICK k \in 1..load : /\ k < load /\ Trampoline(g, k) \in DOMAIN memory
                               /\ memory[Trampoline(g, k)] = Engine
        BY <1>1 DEF HooksInv, KeptOfStuck
    <2>2. Trampoline(g, k) \notin OwnedBy(h)
        BY <1>t, <2>1, Distinct DEF OwnedBy
    <2> QED
        BY <1>1, <2>1, <2>2
<1>9. code'[Packet].in # "proxy"
    BY <1>1, <1>t, Distinct DEF TypeOK, HooksInv
<1>10. StackOfPackets'
    <2>1. stack = <<>> \/ stack = <<Frame(Packet, Engine)>>
        BY <1>1 DEF HooksInv, StackOfPackets
    <2>2. \A i \in DOMAIN stack : i = 1 /\ stack[i] = Frame(Packet, Engine)
        BY <2>1
    <2>3. Frame(Packet, Engine).function = Packet /\ Frame(Packet, Engine).at = Engine
        BY DEF Frame
    <2>4. Engine.in # "proxy"
        BY Distinct
    <2> QED
        BY <1>u, <2>1, <2>2, <2>3, <2>4 DEF StackOfPackets
<1> QED
    BY <1>2, <1>4, <1>5, <1>6, <1>7, <1>8, <1>9, <1>10 DEF HooksInv

\* FatalHookError: nothing is undone, and nothing runs any more.
LEMMA ExitKeeps == HooksInv /\ FatalHookError => HooksInv'
<1> SUFFICES ASSUME HooksInv, FatalHookError PROVE HooksInv'
    OBVIOUS
<1>1. /\ phase = "attaching" /\ phase' = "exited"
      /\ UNCHANGED <<load, done, code, memory, hook, stub, stack, stuck>>
    BY DEF FatalHookError
<1>2. InstructionsKept
    BY KeptWhileRunning
<1>3. InstructionsKept'
    BY <1>1, <1>2 DEF InstructionsKept
<1>4. StackOfPackets'
    BY <1>1 DEF HooksInv, StackOfPackets
<1> QED
    BY <1>1, <1>3, <1>4 DEF HooksInv, HooksTypeOK, TypeOK

\* What Detach does of a hook, whether its code could be written (undone) or not.
LEMMA DetachStep ==
    ASSUME HooksInv, NEW h, DetachHook(h) \/ DetachFails(h)
    PROVE  /\ h \in InPlace /\ h \in Hooks /\ phase = "detaching" /\ h = Order[done + 1]
           /\ DOMAIN memory' \subseteq DOMAIN memory
           /\ \A b \in DOMAIN memory' : memory'[b] = memory[b]
           /\ DOMAIN memory \ OwnedBy(h) \subseteq DOMAIN memory'
           /\ h = Packet => Stub(load) \notin DOMAIN memory'
           /\ h # Packet => stub' = stub
           /\ stub' \in {stub, Nowhere}
           /\ done' = done + 1 /\ phase' = Detached
           /\ UNCHANGED <<load, stack>>
           /\ \/ /\ code' = [code EXCEPT ![h] = hook[h].saved]
                 /\ hook' = [hook EXCEPT ![h].trampoline = Nowhere]
                 /\ Trampoline(h, load) \notin DOMAIN memory'
                 /\ stuck' = stuck
              \/ /\ UNCHANGED <<code, hook>>
                 /\ Trampoline(h, load) \in DOMAIN memory'
                 /\ stuck' = stuck \cup {h}
<1>1. /\ phase = "detaching" /\ h = Order[done + 1]
      /\ done' = done + 1 /\ phase' = Detached
      /\ UNCHANGED <<load, stack>>
      /\ stub' = IF h = Packet THEN Nowhere ELSE stub
    BY DEF DetachHook, DetachFails
<1>2. h \in InPlace /\ h \in Hooks
    BY <1>1, OneLessInPlace DEF HooksInv
<1>3. AsAttached(h)
    BY <1>1, <1>2 DEF HooksInv
<1>4. Trampoline(h, load) # Stub(load)
    BY Distinct
<1>5. CASE DetachHook(h)
    <2> DEFINE rest == Free(memory, Trampoline(h, load))
    <2>1. /\ memory' = ReleaseStub(h, rest)
          /\ code' = [code EXCEPT ![h] = hook[h].saved]
          /\ hook' = [hook EXCEPT ![h].trampoline = Nowhere]
          /\ stuck' = stuck
        BY <1>3, <1>5 DEF DetachHook, AsAttached
    <2>2. /\ DOMAIN rest = DOMAIN memory \ {Trampoline(h, load)}
          /\ \A b \in DOMAIN rest : rest[b] = memory[b]
        BY DEF Free
    <2> HIDE DEF rest
    <2>3. /\ DOMAIN memory' = DOMAIN memory \ OwnedBy(h)
          /\ \A b \in DOMAIN memory' : memory'[b] = memory[b]
        <3>1. CASE h = Packet
            <4>1. stub = Stub(load)
                BY <1>3, <3>1 DEF AsAttached
            <4>2. /\ DOMAIN memory' = DOMAIN rest \ {Stub(load)}
                  /\ \A b \in DOMAIN memory' : memory'[b] = rest[b]
                BY <2>1, <3>1, <4>1 DEF ReleaseStub, Free
            <4> QED
                BY <2>2, <3>1, <4>2 DEF OwnedBy
        <3>2. CASE h # Packet
            BY <2>1, <2>2, <3>2 DEF ReleaseStub, OwnedBy
        <3> QED
            BY <3>1, <3>2
    <2> QED
        BY <1>1, <1>2, <2>1, <2>3 DEF OwnedBy
<1>6. CASE DetachFails(h)
    <2>1. /\ memory' = ReleaseStub(h, memory)
          /\ UNCHANGED <<code, hook>> /\ stuck' = stuck \cup {h}
        BY <1>6 DEF DetachFails
    <2>2. /\ DOMAIN memory' = DOMAIN memory \ (IF h = Packet THEN {Stub(load)} ELSE {})
          /\ \A b \in DOMAIN memory' : memory'[b] = memory[b]
        <3>1. CASE h = Packet
            <4>1. stub = Stub(load)
                BY <1>3, <3>1 DEF AsAttached
            <4> QED
                BY <2>1, <3>1, <4>1 DEF ReleaseStub, Free
        <3>2. CASE h # Packet
            BY <2>1, <3>2 DEF ReleaseStub
        <3> QED
            BY <3>1, <3>2
    <2>3. Trampoline(h, load) \in DOMAIN memory'
        BY <1>3, <1>4, <2>2 DEF AsAttached
    <2> QED
        BY <1>1, <1>2, <2>1, <2>2, <2>3 DEF OwnedBy
<1> QED
    BY <1>5, <1>6

LEMMA DetachKeeps ==
    ASSUME HooksInv, NEW h, DetachHook(h) \/ DetachFails(h)
    PROVE  HooksInv'
<1>1. /\ h \in InPlace /\ h \in Hooks /\ phase = "detaching" /\ h = Order[done + 1]
      /\ DOMAIN memory' \subseteq DOMAIN memory
      /\ \A b \in DOMAIN memory' : memory'[b] = memory[b]
      /\ DOMAIN memory \ OwnedBy(h) \subseteq DOMAIN memory'
      /\ h = Packet => Stub(load) \notin DOMAIN memory'
      /\ h # Packet => stub' = stub
      /\ stub' \in {stub, Nowhere}
      /\ done' = done + 1 /\ phase' = Detached
      /\ load' = load /\ stack' = stack
    BY DetachStep
<1>d. \/ /\ code' = [code EXCEPT ![h] = hook[h].saved]
         /\ hook' = [hook EXCEPT ![h].trampoline = Nowhere]
         /\ Trampoline(h, load) \notin DOMAIN memory'
         /\ stuck' = stuck
      \/ /\ UNCHANGED <<code, hook>>
         /\ Trampoline(h, load) \in DOMAIN memory'
         /\ stuck' = stuck \cup {h}
    BY DetachStep
<1>2. /\ InPlace' = InPlace \ {h}
      /\ phase' \in {"detaching", "detached"}
      /\ phase' = "detaching" => done' < Len(Order)
      /\ done' \in 0..Len(Order)
    BY <1>1, OneLessInPlace DEF HooksInv
<1>t. TypeOK /\ load \in Loads /\ load \in Nat
    BY <1>1 DEF HooksInv, HooksTypeOK, Loads
<1>a. AsAttached(h)
    BY <1>1 DEF HooksInv
<1>s. Sound' \subseteq Sound /\ stuck \subseteq stuck' /\ stuck' \subseteq stuck \cup {h}
    BY <1>d DEF Sound
<1>3. \A g \in Hooks \ {h} : code'[g] = code[g] /\ hook'[g] = hook[g]
    BY <1>d, <1>t DEF TypeOK
<1>4. HooksTypeOK'
    <2>1. code' \in [Hooks -> Places]
        <3>1. hook[h].saved \in Places
            BY <1>1, <1>t DEF TypeOK
        <3> QED
            BY <1>d, <1>t, <3>1 DEF TypeOK
    <2>2. hook' \in [Hooks -> [trampoline : Blocks \cup {Nowhere}, saved : Places]]
        BY <1>d, <1>t DEF TypeOK
    <2>3. stuck' \subseteq Hooks /\ stub' \in Blocks \cup {Nowhere}
        BY <1>1, <1>s, <1>t DEF TypeOK
    <2>4. DOMAIN memory' \subseteq Blocks /\ \A b \in DOMAIN memory' : memory'[b] \in Places
        BY <1>1, <1>t DEF TypeOK
    <2> QED
        BY <1>1, <1>2, <1>t, <2>1, <2>2, <2>3, <2>4 DEF TypeOK, HooksTypeOK
<1>5. ASSUME NEW g \in InPlace' PROVE AsAttached(g)'
    <2>1. g \in InPlace /\ g # h /\ AsAttached(g) /\ g \in Hooks
        BY <1>1, <1>2, TheOrder DEF HooksInv, InPlace
    <2>2. code'[g] = code[g] /\ hook'[g] = hook[g]
        BY <1>3, <2>1
    <2>3. Trampoline(g, load) \notin OwnedBy(h)
        BY <2>1, Distinct DEF OwnedBy
    <2>4. g = Packet => Stub(load) \notin OwnedBy(h) /\ stub' = stub
        BY <1>1, <2>1, Distinct DEF OwnedBy
    <2>5. Trampoline(g, load) \in DOMAIN memory'
        BY <1>1, <2>1, <2>3 DEF AsAttached
    <2>6. g = Packet => Stub(load) \in DOMAIN memory'
        BY <1>1, <2>1, <2>4 DEF AsAttached
    <2> QED
        BY <1>1, <1>s, <2>1, <2>2, <2>4, <2>5, <2>6 DEF AsAttached
<1>6. ASSUME NEW g \in Sound' \ InPlace' PROVE code'[g] = Engine
    <2>1. g \in Hooks /\ g \in Sound
        BY <1>s DEF Sound
    <2>2. CASE g = h
        <3>1. code' = [code EXCEPT ![h] = hook[h].saved]
            BY <1>d, <2>2 DEF Sound
        <3> QED
            BY <1>a, <1>t, <2>1, <2>2, <3>1 DEF AsAttached, TypeOK
    <2>3. CASE g # h
        <3>1. code[g] = Engine
            BY <1>1, <1>2, <2>1, <2>3 DEF HooksInv
        <3> QED
            BY <1>3, <2>1, <2>3, <3>1
    <2> QED
        BY <2>2, <2>3
<1>7. OwnBlocks'
    <2> SUFFICES ASSUME NEW b \in DOMAIN memory', b.of \in Sound'
                 PROVE  b.of \in InPlace' /\ b \in {Trampoline(b.of, load), Stub(load)}
        BY <1>1 DEF OwnBlocks
    <2>1. b.of \in InPlace /\ b \in {Trampoline(b.of, load), Stub(load)}
        BY <1>1, <1>s DEF HooksInv, OwnBlocks
    <2>2. b.of # h
        <3> SUFFICES ASSUME b.of = h PROVE FALSE
            OBVIOUS
        <3>1. Trampoline(h, load) \notin DOMAIN memory'
            BY <1>d DEF Sound
        <3>2. b = Stub(load) /\ h = Packet
            BY <2>1, <3>1, Distinct
        <3> QED
            BY <1>1, <3>2
    <2> QED
        BY <1>2, <2>1, <2>2
<1>8. KeptOfStuck'
    <2> SUFFICES ASSUME NEW g \in stuck'
                 PROVE  \E k \in 1..load : /\ g \in InPlace' => k < load
                                           /\ Trampoline(g, k) \in DOMAIN memory'
                                           /\ memory'[Trampoline(g, k)] = Engine
        BY <1>1, <1>2 DEF KeptOfStuck
    <2>1. CASE g \in stuck
        <3>1. PICK k \in 1..load : /\ g \in InPlace => k < load
                                   /\ Trampoline(g, k) \in DOMAIN memory
                                   /\ memory[Trampoline(g, k)] = Engine
            BY <1>1, <2>1 DEF HooksInv, KeptOfStuck
        <3>2. Trampoline(g, k) \notin OwnedBy(h)
            <4>1. g = h => k # load
                BY <1>1, <1>t, <3>1
            <4> QED
                BY <4>1, Distinct DEF OwnedBy
        <3> QED
            BY <1>1, <1>2, <3>1, <3>2
    <2>2. CASE g \notin stuck
        <3>1. g = h /\ h \in Sound /\ Trampoline(h, load) \in DOMAIN memory'
            BY <1>1, <1>d, <2>2 DEF Sound
        <3>2. memory'[Trampoline(h, load)] = Engine
            BY <1>1, <1>a, <3>1 DEF AsAttached
        <3>3. load \in 1..load /\ h \notin InPlace'
            BY <1>2, <1>t DEF Loads
        <3> QED
            BY <3>1, <3>2, <3>3
    <2> QED
        BY <2>1, <2>2
<1>9. code'[Packet].in # "proxy"
    <2>1. CASE h = Packet
        <3>1. hook[h].saved.in # "proxy" /\ code[h].in # "proxy"
            BY <1>a, <2>1 DEF AsAttached, HooksInv
        <3>2. code'[h] \in {hook[h].saved, code[h]}
            BY <1>1, <1>d, <1>t DEF TypeOK
        <3> QED
            BY <2>1, <3>1, <3>2
    <2>2. CASE h # Packet
        BY <1>3, <2>2, TheOrder DEF HooksInv
    <2> QED
        BY <2>1, <2>2
<1>10. StackOfPackets'
    BY <1>1, <1>2 DEF HooksInv, StackOfPackets
<1> QED
    BY <1>2, <1>4, <1>5, <1>6, <1>7, <1>8, <1>9, <1>10 DEF HooksInv

\* The elements of a sequence, and its beginning.
LEMMA InSequence ==
    ASSUME NEW S, NEW s \in Seq(S), s # <<>>
    PROVE  /\ Len(s) \in Nat /\ Len(s) \in 1..Len(s) /\ DOMAIN s = 1..Len(s)
           /\ \A i \in 1..Len(s) : s[i] \in S
           /\ SubSeq(s, 1, Len(s) - 1) \in Seq(S)
           /\ DOMAIN SubSeq(s, 1, Len(s) - 1) = 1..(Len(s) - 1)
           /\ \A i \in 1..(Len(s) - 1) : SubSeq(s, 1, Len(s) - 1)[i] = s[i]
<1>1. Len(s) \in Nat /\ Len(s) # 0 /\ DOMAIN s = 1..Len(s)
    OBVIOUS
<1>2. \A i \in 1..Len(s) : s[i] \in S
    BY <1>1
<1>3. PICK n \in Nat : n = Len(s) - 1
    <2>1. Len(s) - 1 \in Nat
        BY <1>1
    <2> QED
        BY <2>1
<1>4. SubSeq(s, 1, n) = [i \in 1..n |-> s[i]]
    BY <1>1, <1>3
<1>5. \A i \in 1..n : s[i] \in S
    BY <1>1, <1>2, <1>3
<1>6. [i \in 1..n |-> s[i]] \in Seq(S)
    BY <1>5
<1> QED
    BY <1>1, <1>2, <1>3, <1>4, <1>6

\* A call of a hooked function, by the engine or by the proxy, and a return.
LEMMA CallKeeps == HooksInv /\ ((\E h \in Hooks : Call(h)) \/ CallOriginal \/ Return) => HooksInv'
<1> SUFFICES ASSUME HooksInv, (\E h \in Hooks : Call(h)) \/ CallOriginal \/ Return
             PROVE  HooksInv'
    OBVIOUS
<1>1. /\ phase = "ready"
      /\ UNCHANGED <<phase, load, done, code, memory, hook, stub, stuck>>
    BY DEF Call, CallOriginal, Return
<1>2. InPlace = Hooks /\ InPlace' = InPlace /\ Sound' = Sound
    BY <1>1 DEF InPlace, Sound, Hooks, Hooked, Order
<1>t. TypeOK /\ load \in Loads
    BY <1>1 DEF HooksInv, HooksTypeOK
<1>3. stack \in Seq([function : Hooks, at : Places])
    BY <1>t DEF TypeOK
<1>4. \A h \in Hooks : AsAttached(h)
    BY <1>1, <1>2 DEF HooksInv
<1>5. ASSUME NEW h \in Hooks, NEW place, stack' = Append(stack, Frame(h, place)),
             place \in Places, h = Packet => stack = <<>> /\ place.in # "proxy",
             h \in Sound => place \in {Engine, InProxy(h, load)}
      PROVE  stack' \in Seq([function : Hooks, at : Places]) /\ StackOfPackets'
    <2>1. Frame(h, place) \in [function : Hooks, at : Places]
        BY <1>5 DEF Frame
    <2>2. stack' \in Seq([function : Hooks, at : Places])
        BY <1>3, <1>5, <2>1
    <2>3. /\ DOMAIN stack' = DOMAIN stack \cup {Len(stack) + 1}
          /\ \A i \in DOMAIN stack : stack'[i] = stack[i]
          /\ stack'[Len(stack) + 1] = Frame(h, place)
        BY <1>3, <1>5, <2>1
    <2>4. Frame(h, place).function = h /\ Frame(h, place).at = place
        BY DEF Frame
    <2>5. stack = <<>> => Len(stack) + 1 = 1
        OBVIOUS
    <2> QED
        BY <1>1, <1>2, <1>5, <2>2, <2>3, <2>4, <2>5 DEF HooksInv, StackOfPackets
<1>6. stack' \in Seq([function : Hooks, at : Places]) /\ StackOfPackets'
    <2>1. ASSUME NEW h \in Hooks, Call(h)
          PROVE  stack' \in Seq([function : Hooks, at : Places]) /\ StackOfPackets'
        <3>1. /\ stack' = Append(stack, Frame(h, Entered(h)))
              /\ h = Packet => stack = <<>>
            BY <2>1 DEF Call
        <3>2. CASE h = Packet
            <4>1. /\ code[h] = Stub(load) /\ memory[code[h]] = Trampoline(h, load)
                  /\ Trampoline(h, load) \in DOMAIN memory
                  /\ memory[Trampoline(h, load)] = hook[h].saved
                  /\ hook[h].saved.in # "proxy" /\ (h \in Sound => hook[h].saved = Engine)
                BY <1>4, <3>2 DEF AsAttached
            <4>2. Entered(h) = hook[h].saved
                BY <4>1, Distinct DEF Entered
            <4>3. hook[h].saved \in Places
                BY <1>t DEF TypeOK
            <4> QED
                BY <1>5, <3>1, <4>1, <4>2, <4>3
        <3>3. CASE h # Packet
            <4>1. code[h] = InProxy(h, load)
                BY <1>4, <3>3 DEF AsAttached
            <4>2. Entered(h) = InProxy(h, load)
                BY <4>1, Distinct DEF Entered
            <4> QED
                BY <1>5, <1>t, <3>1, <3>3, <4>2, Placed
        <3> QED
            BY <3>2, <3>3
    <2>2. CASE CallOriginal
        <3> DEFINE top == stack[Len(stack)]
        <3>1. /\ stack # <<>> /\ top.at.in = "proxy"
              /\ stack' = Append(stack, Frame(top.function, memory[hook[top.function].trampoline]))
            BY <2>2 DEF CallOriginal
        <3>2. Len(stack) \in DOMAIN stack /\ top.function \in Hooks
            <4>1. Len(stack) \in DOMAIN stack /\ top \in [function : Hooks, at : Places]
                BY <1>3, <3>1, InSequence
            <4> QED
                BY <4>1
        <3> HIDE DEF top
        <3>3. top.function # Packet
            BY <3>1, <3>2 DEF HooksInv, StackOfPackets, top
        <3>4. /\ memory[hook[top.function].trampoline] = hook[top.function].saved
              /\ top.function \in Sound => hook[top.function].saved = Engine
            BY <1>4, <3>2 DEF AsAttached
        <3>5. hook[top.function].saved \in Places
            BY <1>t, <3>2 DEF TypeOK
        <3> QED
            BY <1>5, <3>1, <3>2, <3>3, <3>4, <3>5
    <2>3. CASE Return
        <3>1. stack # <<>> /\ stack' = SubSeq(stack, 1, Len(stack) - 1)
            BY <2>3 DEF Return
        <3>2. /\ stack' \in Seq([function : Hooks, at : Places])
              /\ DOMAIN stack' \subseteq DOMAIN stack
              /\ \A i \in DOMAIN stack' : stack'[i] = stack[i]
            <4>1. /\ Len(stack) \in Nat /\ DOMAIN stack = 1..Len(stack)
                  /\ stack' \in Seq([function : Hooks, at : Places])
                  /\ DOMAIN stack' = 1..(Len(stack) - 1)
                  /\ \A i \in 1..(Len(stack) - 1) : stack'[i] = stack[i]
                BY <1>3, <3>1, InSequence
            <4> QED
                BY <4>1
        <3> QED
            BY <1>1, <1>2, <3>2 DEF HooksInv, StackOfPackets
    <2> QED
        BY <2>1, <2>2, <2>3
<1>7. HooksTypeOK'
    BY <1>1, <1>6 DEF HooksInv, HooksTypeOK, TypeOK
<1>8. OwnBlocks' /\ KeptOfStuck'
    BY <1>1, <1>2 DEF HooksInv, OwnBlocks, KeptOfStuck
<1>9. \A h \in InPlace : AsAttached(h)'
    BY <1>1, <1>2, <1>4 DEF AsAttached
<1> QED
    BY <1>1, <1>2, <1>6, <1>7, <1>8, <1>9 DEF HooksInv

LEMMA HooksNext == HooksInv /\ [Next]_vars => HooksInv'
<1> SUFFICES ASSUME HooksInv, [Next]_vars PROVE HooksInv'
    OBVIOUS
<1>1. CASE UNCHANGED vars
    <2>1. InPlace' = InPlace /\ Sound' = Sound
        BY <1>1 DEF vars, InPlace, Sound
    <2>2. HooksTypeOK' /\ (InstructionsKept' <=> InstructionsKept)
        BY <1>1 DEF vars, HooksInv, HooksTypeOK, TypeOK, InstructionsKept
    <2>3. /\ OwnBlocks' <=> OwnBlocks
          /\ KeptOfStuck' <=> KeptOfStuck
          /\ StackOfPackets' <=> StackOfPackets
        BY <1>1, <2>1 DEF vars, OwnBlocks, KeptOfStuck, StackOfPackets
    <2>4. \A h : AsAttached(h)' <=> AsAttached(h)
        BY <1>1, <2>1 DEF vars, AsAttached
    <2>5. code' = code /\ phase' = phase
        BY <1>1 DEF vars
    <2> QED
        BY <2>1, <2>2, <2>3, <2>4, <2>5 DEF HooksInv
<1>2. CASE AttachPacketEventFilter \/ \E h \in Hooks : AttachHook(h)
    BY <1>2, AttachKeeps
<1>3. CASE \E h \in Hooks : DetachHook(h) \/ DetachFails(h)
    BY <1>3, DetachKeeps
<1> QED
    BY <1>1, <1>2, <1>3, LoadKeeps, PhaseKeeps, ExitKeeps, CallKeeps DEF Next

\* What the processor meets.
LEMMA CodeIsThereThen == HooksInv => CodeIsThere
<1> SUFFICES ASSUME HooksInv PROVE CodeIsThere
    OBVIOUS
<1>1. \A h \in InPlace : phase # "exited" => AsAttached(h)
    BY DEF HooksInv
<1>2. \A h \in Sound \ InPlace : phase # "exited" => code[h] = Engine
    BY DEF HooksInv
<1>3. InPlace # {} => Loaded
    BY DEF InPlace, Loaded
<1>4. Live(Engine)
    BY Distinct DEF Live
<1>5. \A h \in Sound : phase # "exited" =>
        \/ code[h] = Engine
        \/ h \in InPlace /\ AsAttached(h)
    BY <1>1, <1>2
<1>6. NoDanglingJump
    <2> SUFFICES ASSUME phase # "exited"
                 PROVE  /\ \A h \in Sound : Live(code[h])
                        /\ \A b \in BlocksOf(Sound) : Live(memory[b])
        BY DEF NoDanglingJump
    <2>1. ASSUME NEW h \in Sound PROVE Live(code[h])
        <3>1. CASE h \in InPlace /\ AsAttached(h)
            BY <1>3, <3>1, Distinct DEF AsAttached, Live
        <3> QED
            BY <1>4, <1>5, <3>1
    <2>2. ASSUME NEW b \in BlocksOf(Sound) PROVE Live(memory[b])
        <3>1. /\ b \in DOMAIN memory /\ b.of \in Sound /\ b.of \in InPlace
              /\ b \in {Trampoline(b.of, load), Stub(load)}
            BY DEF HooksInv, OwnBlocks, BlocksOf
        <3>2. AsAttached(b.of)
            BY <1>1, <3>1
        <3>3. CASE b = Trampoline(b.of, load)
            BY <1>4, <3>1, <3>2, <3>3 DEF AsAttached
        <3>4. CASE b = Stub(load)
            <4>1. b.of = Packet
                BY <3>4, Distinct
            <4>2. memory[b] = Trampoline(Packet, load) /\ Trampoline(Packet, load) \in DOMAIN memory
                BY <3>2, <3>4, <4>1 DEF AsAttached
            <4> QED
                BY <4>2, Distinct DEF Live
        <3> QED
            BY <3>1, <3>3, <3>4
    <2> QED
        BY <2>1, <2>2
<1>7. FramesReturn
    <2> SUFFICES ASSUME NEW i \in DOMAIN stack, stack[i].function \in Sound
                 PROVE  Live(stack[i].at)
        BY DEF FramesReturn
    <2>1. CASE phase = "ready"
        <3>1. stack[i].at = Engine \/ stack[i].at = InProxy(stack[i].function, load)
            BY <2>1 DEF HooksInv, StackOfPackets
        <3>2. Live(InProxy(stack[i].function, load))
            BY <2>1, Distinct DEF Live, Loaded
        <3> QED
            BY <1>4, <3>1, <3>2
    <2>2. CASE phase # "ready"
        <3>1. stack = <<Frame(Packet, Engine)>>
            BY <2>2 DEF HooksInv, StackOfPackets
        <3>2. stack[i].at = Engine
            BY <3>1 DEF Frame
        <3> QED
            BY <1>4, <3>2
    <2> QED
        BY <2>1, <2>2
<1>8. EngineRestored
    <2> SUFFICES ASSUME phase = "out"
                 PROVE  BlocksOf(Sound) = {} /\ \A h \in Sound : code[h] = Engine
        BY DEF EngineRestored
    <2>1. InPlace = {}
        BY DEF InPlace
    <2> QED
        BY <1>2, <2>1 DEF HooksInv, OwnBlocks, BlocksOf
<1>9. OriginalIsEngine
    <2> SUFFICES ASSUME phase = "ready", NEW h \in Sound
                 PROVE  /\ code[h] = IF h = Packet THEN Stub(load) ELSE InProxy(h, load)
                        /\ hook[h].trampoline \in DOMAIN memory
                        /\ memory[hook[h].trampoline] = Engine
                        /\ h = Packet => memory[code[h]] = hook[h].trampoline
        BY DEF OriginalIsEngine
    <2>1. AsAttached(h)
        BY <1>1 DEF InPlace, Sound
    <2> QED
        BY <2>1 DEF AsAttached
<1> QED
    BY <1>6, <1>7, <1>8, <1>9, KeptWhileRunning DEF CodeIsThere

-----------------------------------------------------------------------------
(* The trampoline *)

\* What was decoded: plain instructions, the last of which alone may be a return, a
\* call or a jump, and only if it is long enough.
Decoded ==
    /\ \A n \in 1..(next - 2) : instructions[n].kind = "plain"
    /\ next > 1 =>
        /\ instructions[next - 1].kind \in {"plain", "ret", "rel32"}
        /\ length - instructions[next - 1].length < JumpLength
        /\ length < JumpLength => instructions[next - 1].kind = "plain"
    /\ next = 1 => length = 0
    /\ relocation =
        IF next > 1 /\ instructions[next - 1].kind = "rel32"
        THEN [offset |-> length - JumpLength, to |-> instructions[next - 1].to]
        ELSE D!NoRelocation

DetourTypeOK ==
    /\ instructions \in [1..JumpLength -> D!Instruction]
    /\ target \in Addresses
    /\ next \in 1..(JumpLength + 1) /\ length \in Nat /\ next <= length + 1
    /\ relocation \in D!Relocations
    /\ status \in D!Statuses

DetourInv ==
    /\ DetourTypeOK
    /\ Decoded
    /\ status = "decoding" => trampoline = D!None
    /\ status \in {"building", "Ok"} => length >= JumpLength /\ next > 1
    /\ SameDestinations

LEMMA DetourLimits ==
    /\ JumpLength \in Nat \ {0} /\ MaxInstruction \in Nat /\ Span \in Nat \ {0}
    /\ JumpLength <= MaxInstruction
    /\ Addresses \subseteq 0..(Span - 1) /\ Destinations \subseteq 0..(Span - 1)
    /\ Lengths \subseteq 1..MaxInstruction /\ Lengths # {}
BY DetourAssumption DEF D!DetourConstants

\* An instruction of any kind.
LEMMA Instructions ==
    /\ \A i \in D!Instruction :
        /\ i.length \in 1..MaxInstruction
        /\ i.kind \in {"plain", "ret", "relative", "bad", "rel32"}
        /\ i.kind = "rel32" => i.length = JumpLength /\ i.to \in 0..(Span - 1)
    /\ \E i \in D!Instruction : i.kind = "bad"
<1>1. ASSUME NEW i \in D!Instruction
      PROVE  /\ i.length \in 1..MaxInstruction
             /\ i.kind \in {"plain", "ret", "relative", "bad", "rel32"}
             /\ i.kind = "rel32" => i.length = JumpLength /\ i.to \in 0..(Span - 1)
    <2>1. CASE i \in [kind : {"plain", "ret", "relative", "bad"}, length : Lengths, to : {0}]
        BY <2>1, DetourLimits
    <2>2. CASE i \in [kind : {"rel32"}, length : {JumpLength}, to : Destinations]
        <3>1. i.kind = "rel32" /\ i.length = JumpLength /\ i.to \in Destinations
            BY <2>2
        <3>2. JumpLength \in 1..MaxInstruction
            BY DetourLimits
        <3> QED
            BY <3>1, <3>2, DetourLimits
    <2> QED
        BY <2>1, <2>2 DEF D!Instruction
<1>2. \E i \in D!Instruction : i.kind = "bad"
    <2>1. PICK l \in Lengths : TRUE
        BY DetourLimits
    <2>2. [kind |-> "bad", length |-> l, to |-> 0] \in D!Instruction
        BY DEF D!Instruction
    <2> QED
        BY <2>2
<1> QED
    BY <1>1, <1>2

\* Nothing decoded yet.
LEMMA FirstOfDetour ==
    ASSUME instructions \in [1..JumpLength -> D!Instruction], target \in Addresses,
           status = "decoding", next = 1, length = 0, relocation = D!NoRelocation,
           trampoline = D!None
    PROVE  DetourInv
<1>1. DetourTypeOK
    BY DetourLimits DEF DetourTypeOK, D!Relocations, D!Statuses
<1>2. Decoded
    BY DEF Decoded
<1> QED
    BY <1>1, <1>2 DEF DetourInv, SameDestinations, D!SameDestinations

LEMMA DecodeKeeps == DetourInv /\ D!Decode => DetourInv'
<1> SUFFICES ASSUME DetourInv, D!Decode PROVE DetourInv'
    OBVIOUS
<1> DEFINE instruction == instructions[next]
<1>1. status = "decoding" /\ length < JumpLength /\ trampoline = D!None
    BY DEF D!Decode, DetourInv
<1>2. next \in 1..JumpLength /\ length \in Nat /\ next <= length + 1 /\ next < JumpLength + 1
    BY <1>1, DetourLimits DEF DetourInv, DetourTypeOK
<1>3. /\ instruction \in D!Instruction
      /\ instruction.length \in Nat \ {0}
      /\ instruction.kind = "rel32" => instruction.length = JumpLength
                                       /\ instruction.to \in 0..(Span - 1)
    BY <1>2, Instructions DEF DetourInv, DetourTypeOK
<1> HIDE DEF instruction
<1>4. \A n \in 1..(next - 1) : instructions[n].kind = "plain"
    <2>1. next > 1 => instructions[next - 1].kind = "plain"
        BY <1>1, <1>2 DEF DetourInv, Decoded
    <2>2. \A n \in 1..(next - 2) : instructions[n].kind = "plain"
        BY DEF DetourInv, Decoded
    <2>3. \A n \in 1..(next - 1) : n \in 1..(next - 2) \/ (n = next - 1 /\ next > 1)
        BY <1>2
    <2> QED
        BY <2>1, <2>2, <2>3
<1>5. relocation = D!NoRelocation
    <2>1. next > 1 => instructions[next - 1].kind = "plain"
        BY <1>2, <1>4
    <2> QED
        BY <2>1 DEF DetourInv, Decoded
<1>6. ASSUME NEW reason \in {"DecodeError", "RelativeInstruction", "FunctionTooShort"},
             D!Refuse(reason)
      PROVE  DetourInv'
    BY <1>1, <1>6 DEF D!Refuse, DetourInv, DetourTypeOK, Decoded, D!Statuses,
                      SameDestinations, D!SameDestinations
<1>7. ASSUME D!Take(instruction), instruction.kind \in {"plain", "ret", "rel32"},
             length + instruction.length < JumpLength => instruction.kind = "plain",
             relocation' = IF instruction.kind = "rel32"
                           THEN [offset |-> length, to |-> instruction.to]
                           ELSE D!NoRelocation
      PROVE  DetourInv'
    <2>1. /\ length' = length + instruction.length /\ next' = next + 1
          /\ UNCHANGED <<instructions, target, status, trampoline, copied, back>>
        BY <1>7 DEF D!Take
    <2>2. next' - 1 = next /\ next' - 2 = next - 1 /\ next' > 1
        BY <1>2, <2>1
    <2>3. length' \in Nat /\ next' \in 1..(JumpLength + 1) /\ next' <= length' + 1
        BY <1>2, <1>3, <2>1, DetourLimits
    <2>4. relocation' \in D!Relocations
        BY <1>2, <1>3, <1>7 DEF D!Relocations
    <2>5. DetourTypeOK'
        BY <2>1, <2>3, <2>4 DEF DetourInv, DetourTypeOK
    <2>6. /\ length' - instruction.length < JumpLength
          /\ length' < JumpLength => instruction.kind = "plain"
          /\ instruction.kind = "rel32" => length' - JumpLength = length
        BY <1>1, <1>2, <1>3, <1>7, <2>1, DetourLimits
    <2>7. Decoded'
        BY <1>4, <1>7, <2>1, <2>2, <2>6 DEF Decoded, instruction
    <2> QED
        BY <1>1, <2>1, <2>5, <2>7 DEF DetourInv, SameDestinations, D!SameDestinations
<1>8. CASE D!TakeRel32(instruction)
    <2>1. ~(length + instruction.length < JumpLength)
        BY <1>2, <1>3, <1>8, DetourLimits DEF D!TakeRel32
    <2> QED
        BY <1>7, <1>8, <2>1 DEF D!TakeRel32
<1>9. CASE D!TakePlain(instruction)
    BY <1>5, <1>7, <1>9 DEF D!TakePlain, D!EndsTooSoon
<1> QED
    BY <1>6, <1>8, <1>9 DEF D!Decode, instruction

\* The last jump and the call or jump relocated, at any address.
LEMMA BuildKeeps == DetourInv /\ D!Build => DetourInv'
<1> SUFFICES ASSUME DetourInv, D!Build PROVE DetourInv'
    OBVIOUS
<1>1. /\ status' = "building" /\ length >= JumpLength /\ next > 1
      /\ UNCHANGED <<instructions, target, next, length, relocation>>
    <2>1. /\ status' = "building" /\ length >= JumpLength
          /\ UNCHANGED <<instructions, target, next, length, relocation>>
        BY DEF D!Build
    <2>2. next \in 1..(JumpLength + 1) /\ length \in Nat /\ (next = 1 => length = 0)
        BY DEF DetourInv, DetourTypeOK, Decoded
    <2>3. next > 1
        BY <2>1, <2>2, DetourLimits
    <2> QED
        BY <2>1, <2>3
<1>2. target \in Int /\ length \in Int /\ JumpLength \in Int /\ Span \in Nat \ {0}
    BY DetourLimits DEF DetourInv, DetourTypeOK
<1>3. PICK t \in Addresses \ {target} :
        /\ back' = D!Reached(t + length + JumpLength,
                             D!Rel32(t + length + JumpLength, target + length))
        /\ copied' =
            IF relocation = D!NoRelocation THEN D!None
            ELSE LET r == relocation.offset
                     destination == target + r + JumpLength + D!Operand
                 IN D!Reached(t + r + JumpLength,
                              D!Rel32(t + r + JumpLength, destination))
    BY DEF D!Build
<1>4. t \in Int
    BY DetourLimits
<1>5. ASSUME NEW from \in Int, NEW to \in Int
      PROVE  D!Reached(from, D!Rel32(from, to)) = to % Span
    BY <1>2, OffsetLeads DEF D!Reached, D!Rel32, D!Wrap
<1>6. back' = D!Wrap(target + length)
    <2>1. t + length + JumpLength \in Int /\ target + length \in Int
        BY <1>2, <1>4
    <2> QED
        BY <1>3, <1>5, <2>1 DEF D!Wrap
<1>7. ASSUME relocation # D!NoRelocation PROVE copied' = relocation.to
    <2>1. relocation.offset \in Nat /\ relocation.to \in 0..(Span - 1)
        BY <1>7 DEF DetourInv, DetourTypeOK, D!Relocations
    <2> DEFINE end == target + relocation.offset + JumpLength
               destination == end + D!Operand
               from == t + relocation.offset + JumpLength
    <2>2. end \in Int /\ from \in Int /\ relocation.to \in Int
        BY <1>2, <1>4, <2>1
    <2>3. D!Operand = (relocation.to - end) % Span
        BY DEF D!Operand, D!Rel32, D!Wrap
    <2>4. copied' = D!Reached(from, D!Rel32(from, destination))
        BY <1>3, <1>7
    <2> HIDE DEF end, from
    <2>5. D!Operand \in Int /\ destination % Span = relocation.to % Span
        <3>1. PICK to \in Int : to = relocation.to
            BY <2>2
        <3>2. /\ (to - end) % Span \in 0..(Span - 1)
              /\ (end + ((to - end) % Span)) % Span = to % Span
            BY <1>2, <2>2, OffsetLeads
        <3> QED
            BY <2>3, <3>1, <3>2
    <2>6. destination \in Int
        BY <2>2, <2>5
    <2> HIDE DEF destination
    <2>7. copied' = destination % Span
        BY <1>5, <2>2, <2>4, <2>6
    <2>8. relocation.to = Span * 0 + relocation.to
        BY <1>2, <2>2, SMT
    <2>9. relocation.to % Span = relocation.to
        <3>1. PICK to \in 0..(Span - 1) : to = relocation.to
            BY <2>1
        <3>2. to \in Int /\ to = Span * 0 + to
            BY <2>2, <2>8, <3>1
        <3> QED
            BY <1>2, <3>1, <3>2, Remainder
    <2> QED
        BY <2>5, <2>7, <2>9
<1>8. DetourTypeOK' /\ Decoded'
    BY <1>1 DEF DetourInv, DetourTypeOK, Decoded, D!Statuses
<1>9. SameDestinations'
    BY <1>1, <1>6, <1>7 DEF SameDestinations, D!SameDestinations, D!Wrap
<1> QED
    BY <1>1, <1>8, <1>9 DEF DetourInv

LEMMA DetourNext == DetourInv /\ D!Next => DetourInv'
<1> SUFFICES ASSUME DetourInv, D!Next PROVE DetourInv'
    OBVIOUS
<1>1. CASE D!NoMemory
    BY <1>1 DEF D!NoMemory, D!Refuse, DetourInv, DetourTypeOK, Decoded, D!Statuses,
                SameDestinations, D!SameDestinations
<1>2. CASE D!NotWritable
    BY <1>2 DEF D!NotWritable, DetourInv, DetourTypeOK, Decoded, D!Statuses,
                SameDestinations, D!SameDestinations
<1>3. CASE D!Write
    BY <1>3 DEF D!Write, DetourInv, DetourTypeOK, Decoded, D!Statuses,
                SameDestinations, D!SameDestinations, D!Wrap
<1> QED
    BY <1>1, <1>2, <1>3, DecodeKeeps, BuildKeeps DEF D!Next

\* Once the first attachment is done, or has failed.
LEMMA ForgetKeeps == DetourInv /\ Forget => DetourInv'
<1> SUFFICES ASSUME DetourInv, Forget PROVE DetourInv'
    OBVIOUS
<1>1. instructions' \in [1..JumpLength -> D!Instruction]
    BY Instructions DEF Forget
<1>2. target' \in Addresses
    BY DEF Forget, DetourInv, DetourTypeOK
<1>3. /\ status' = "decoding" /\ next' = 1 /\ length' = 0
      /\ relocation' = D!NoRelocation /\ trampoline' = D!None
    BY DEF Forget
<1>4. DetourTypeOK'
    BY <1>1, <1>2, <1>3, DetourLimits DEF DetourTypeOK, D!Relocations, D!Statuses
<1>5. Decoded'
    BY <1>3 DEF Decoded
<1> QED
    BY <1>3, <1>4, <1>5 DEF DetourInv, SameDestinations, D!SameDestinations

\* The bytes copied fit where they are saved, and run as well there.
LEMMA DecodedEnough == DetourInv => D!CoversTheJump /\ D!RunsElsewhere
<1> SUFFICES ASSUME DetourInv, status \in {"building", "Ok"}
             PROVE  D!CoversTheJump /\ D!RunsElsewhere
    BY DEF D!CoversTheJump, D!RunsElsewhere
<1>1. length >= JumpLength /\ length \in Nat /\ next \in 1..(JumpLength + 1) /\ next > 1
    BY DetourLimits DEF DetourInv, DetourTypeOK
<1>2. PICK i \in D!Instruction : i = instructions[next - 1]
    <2>1. next - 1 \in 1..JumpLength
        BY <1>1, DetourLimits
    <2> QED
        BY <2>1 DEF DetourInv, DetourTypeOK
<1>3. i.length \in 1..MaxInstruction /\ length - i.length < JumpLength
    BY <1>1, <1>2, Instructions DEF DetourInv, Decoded
<1>4. D!CoversTheJump
    BY <1>1, <1>2, <1>3, DetourLimits DEF D!CoversTheJump
<1>5. D!RunsElsewhere
    BY <1>1 DEF D!RunsElsewhere, DetourInv, Decoded
<1> QED
    BY <1>4, <1>5

-----------------------------------------------------------------------------
(* The game's module *)

\* The game's GAME_INIT has not returned.
Initing == calls # <<>> /\ Head(calls) = "init"

\* From its patches on, the module knows whose addresses it has.
Patched == module \in {"patched", "ready", "failed"}

ModuleTypeOK ==
    /\ jampded \in BOOLEAN /\ windows \in BOOLEAN /\ isOriginalEngine \in BOOLEAN
    /\ hooked \in BOOLEAN /\ wild \in BOOLEAN
    /\ calls \in Seq(M!Commands)
    /\ calls # <<>> => module = "ready"

ModuleInv ==
    /\ ModuleTypeOK
    /\ module = "ready" => nav \subseteq {map}
    /\ module = "ready" /\ ~Initing => diskImages = {}
    /\ ~jampded => diskImages = {}
    /\ Patched => isOriginalEngine = jampded /\ (jampded => tables = M!EngineNames)
    /\ ~wild
    /\ hooked => jampded /\ Patched

\* Every name has an address once the memory layer is filled in, on both systems.
LEMMA AllNames == M!InitializeMemoryLayer = M!EngineNames
BY DEF M!InitializeMemoryLayer, M!EngineAddresses, M!EngineNames

LEMMA ModuleInit == M!Init => ModuleInv
<1> SUFFICES ASSUME M!Init PROVE ModuleInv
    OBVIOUS
<1>1. ModuleTypeOK
    <2>1. calls = <<>> /\ isOriginalEngine = FALSE /\ hooked = FALSE /\ wild = FALSE
          /\ jampded \in BOOLEAN /\ windows \in BOOLEAN
        BY DEF M!Init
    <2>2. calls \in Seq(M!Commands)
        BY <2>1
    <2> QED
        BY <2>1, <2>2, Zenon DEF ModuleTypeOK
<1> QED
    BY <1>1 DEF M!Init, ModuleInv, Patched, Initing

\* The start of the module: the engine opens it, it opens the game and patches the
\* engine, or stops the server.
LEMMA StartKeeps ==
    ASSUME ModuleInv,
           M!dllEntry \/ M!OpenLibrary \/ M!GetOriginalGameApi \/ M!PatchEngine \/ M!GameInit
    PROVE  ModuleInv'
<1> USE DEF ModuleInv, ModuleTypeOK, Patched, Initing, M!hostVars, M!proxyVars, M!engineVars
<1>1. CASE M!Exit
    BY <1>1 DEF M!Exit
<1>2. CASE M!dllEntry
    BY <1>2 DEF M!dllEntry
<1>3. CASE M!OpenLibrary
    BY <1>1, <1>3 DEF M!OpenLibrary
<1>4. CASE M!GetOriginalGameApi
    BY <1>1, <1>4 DEF M!GetOriginalGameApi
<1>5. CASE M!PatchEngine
    BY <1>1, <1>5, AllNames DEF M!PatchEngine
<1>6. CASE M!GameInit
    <2>1. calls' = <<"init">> /\ calls' # <<>> /\ Head(calls') = "init" /\ calls' \in Seq(M!Commands)
        BY <1>6 DEF M!GameInit, M!Commands
    <2> QED
        BY <1>6, <2>1 DEF M!GameInit
<1> QED
    BY <1>2, <1>3, <1>4, <1>5, <1>6

\* The game's GAME_INIT.
LEMMA InitKeeps == ASSUME ModuleInv, M!NavLoad \/ M!LoadSubBsp \/ M!InitDone PROVE ModuleInv'
<1> USE DEF ModuleInv, ModuleTypeOK, Patched, Initing, M!hostVars, M!proxyVars, M!engineVars
<1>1. calls = <<"init">> /\ calls # <<>> /\ Head(calls) = "init" /\ module = "ready"
    <2>1. calls = <<"init">>
        BY Zenon DEF M!NavLoad, M!LoadSubBsp, M!InitDone
    <2>2. calls # <<>> /\ Head(calls) = "init"
        BY <2>1
    <2> QED
        BY <2>1, <2>2
<1>2. CASE M!NavLoad
    BY <1>1, <1>2 DEF M!NavLoad
<1>3. CASE M!LoadSubBsp
    BY <1>1, <1>3 DEF M!LoadSubBsp
<1>4. CASE M!InitDone
    BY <1>1, <1>4 DEF M!InitDone, M!Uses, M!EngineNames
<1> QED
    BY <1>2, <1>3, <1>4

\* A call of vmMain, and its end.
LEMMA VmMainKeeps ==
    ASSUME ModuleInv,
           (\E command \in M!Commands \ {"init"} : M!vmMain(command)) \/ M!vmMainReturns
    PROVE  ModuleInv'
<1> USE DEF ModuleInv, ModuleTypeOK, Patched, M!hostVars, M!proxyVars, M!engineVars
<1>1. CASE M!vmMainReturns
    <2>1. /\ calls # <<>> /\ calls' = SubSeq(calls, 1, Len(calls) - 1)
          /\ calls[Len(calls)] # "init"
        BY <1>1 DEF M!vmMainReturns, M!Front, M!Last
    <2>2. /\ Len(calls) \in 1..Len(calls) /\ SubSeq(calls, 1, Len(calls) - 1) \in Seq(M!Commands)
          /\ DOMAIN SubSeq(calls, 1, Len(calls) - 1) = 1..(Len(calls) - 1)
          /\ \A i \in 1..(Len(calls) - 1) : SubSeq(calls, 1, Len(calls) - 1)[i] = calls[i]
        BY <2>1, InSequence
    <2>3. (calls' # <<>>) => Len(calls) - 1 # 0
        BY <2>1, <2>2
    <2>4. ASSUME Initing PROVE Initing'
        <3>1. calls[1] = "init"
            BY <2>1, <2>4 DEF Initing
        <3>2. Len(calls) # 1 /\ 1 \in 1..(Len(calls) - 1)
            BY <2>1, <2>2, <3>1
        <3>3. calls'[1] = "init" /\ calls' \in Seq(M!Commands)
            BY <2>1, <2>2, <3>1, <3>2
        <3>4. 1 \in DOMAIN calls'
            BY <2>1, <2>2, <3>2
        <3>5. calls' # <<>>
            BY <3>4
        <3> QED
            BY <3>3, <3>5 DEF Initing
    <2> QED
        BY <1>1, <2>1, <2>2, <2>4 DEF M!vmMainReturns
<1>2. ASSUME NEW command \in M!Commands \ {"init"}, M!vmMain(command)
      PROVE  ModuleInv'
    <2>1. calls' = Append(calls, command) /\ module = "ready"
        BY <1>2 DEF M!vmMain
    <2>2. calls' \in Seq(M!Commands)
        BY <2>1
    <2>4. ASSUME Initing PROVE Initing'
        <3>1. calls[1] = "init" /\ Len(calls) \in Nat /\ Len(calls) # 0
            BY <2>4 DEF Initing
        <3>2. calls'[1] = "init" /\ calls' # <<>>
            BY <2>1, <3>1
        <3> QED
            BY <2>2, <3>2 DEF Initing
    <2>3. wild' = wild
        BY <1>2 DEF M!vmMain, M!Uses, M!EngineNames
    <2> QED
        BY <1>2, <2>1, <2>2, <2>3, <2>4 DEF M!vmMain
<1> QED
    BY <1>1, <1>2

\* The system calls.
LEMMA SyscallKeeps ==
    ASSUME ModuleInv,
           \/ \E family \in M!Families : M!OwnCall(family)
           \/ \E call \in M!GameCalls : M!Syscall(call.family, call.pointers)
    PROVE  ModuleInv'
<1>1. UNCHANGED <<jampded, windows, process, module, isOriginalEngine, tables, hooked, trap,
                  calls, map, nav, diskImages, wild>>
    BY DEF M!OwnCall, M!Syscall, M!hostVars, M!proxyVars, M!engineVars
<1> QED
    BY <1>1 DEF ModuleInv, ModuleTypeOK, Patched, Initing

\* An error, and GAME_SHUTDOWN.
LEMMA EndKeeps == ASSUME ModuleInv, M!Error \/ M!Shutdown PROVE ModuleInv'
<1> USE DEF ModuleInv, ModuleTypeOK, Patched, Initing, M!hostVars, M!proxyVars, M!engineVars
<1>1. CASE M!Error
    BY <1>1 DEF M!Error
<1>2. CASE M!Shutdown
    BY <1>2 DEF M!Shutdown, M!Uses, M!EngineNames
<1> QED
    BY <1>1, <1>2

LEMMA ModuleNext == ModuleInv /\ M!Next => ModuleInv'
BY StartKeeps, InitKeeps, VmMainKeeps, SyscallKeeps, EndKeeps DEF M!Next

-----------------------------------------------------------------------------
(* The console *)

Commands == {"none", "rcon", "loading"}
Line == [length : Nat, command : Commands]

ConsoleTypeOK ==
    /\ remote \in Commands
    /\ lines \in Seq(Line) /\ used \in Nat
    /\ sent \in Seq(Nat) /\ buffer \in Seq(Nat) /\ screen \in Seq(Nat)

\* A call that waits for the log to open, and what it finds.
WaitsForLog ==
    \E n \in Nat \ {0}, at \in {"open", "opened", "close"} :
        /\ printing = <<[line |-> n, at |-> at]>>
        /\ at # "close" => n = Len(lines) /\ logging /\ ~logfile /\ openingLog
        /\ at = "close" /\ logfile => n = Len(lines) - 1 /\ file = <<n + 1>>

\* The log while the file system prints nothing when it opens a file.
LogInv ==
    /\ file \in Seq(Nat)
    /\ \A i \in DOMAIN file : file[i] \in DOMAIN lines
    /\ C!IsInjective(file)
    /\ file = <<>> <=> ~logfile
    /\ printing = <<>> \/ WaitsForLog
    /\ printing = <<>> /\ logfile =>
        /\ logging
        /\ \A n \in C!ToSet(screen) : n >= file[1] - 1 => n \in C!ToSet(file)

ConsoleInv ==
    /\ ConsoleTypeOK
    /\ redirected <=> remote = "rcon"
    /\ remote = "rcon" => printing = <<>>
    /\ C!EveryLineOnce
    /\ ~FsDebug => LogInv

LEMMA ConsoleLimits ==
    BufferSize \in Nat /\ BufferSize >= 2 /\ LineLengths \subseteq Nat \ {0}
BY PartsAssumption DEF C!ConsoleConstants

\* A sequence and one more element.
LEMMA OneMore ==
    ASSUME NEW S, NEW s \in Seq(S), NEW x \in S
    PROVE  /\ Append(s, x) \in Seq(S) /\ Append(s, x) # <<>>
           /\ Len(s) \in Nat /\ Len(Append(s, x)) = Len(s) + 1
           /\ DOMAIN s = 1..Len(s) /\ DOMAIN Append(s, x) = 1..(Len(s) + 1)
           /\ \A i \in DOMAIN s : Append(s, x)[i] = s[i]
           /\ Append(s, x)[Len(s) + 1] = x
           /\ C!ToSet(Append(s, x)) = C!ToSet(s) \cup {x}
           /\ s # <<>> => Append(s, x)[1] = s[1]
<1>1. /\ Append(s, x) \in Seq(S) /\ Len(s) \in Nat /\ Len(Append(s, x)) = Len(s) + 1
      /\ DOMAIN s = 1..Len(s) /\ DOMAIN Append(s, x) = 1..(Len(s) + 1)
      /\ \A i \in DOMAIN s : Append(s, x)[i] = s[i]
      /\ Append(s, x)[Len(s) + 1] = x
    OBVIOUS
<1>2. Append(s, x) # <<>>
    BY <1>1
<1>3. C!ToSet(Append(s, x)) = C!ToSet(s) \cup {x}
    <2>1. 1..(Len(s) + 1) = 1..Len(s) \cup {Len(s) + 1}
        BY <1>1
    <2> QED
        BY <1>1, <2>1 DEF C!ToSet
<1>4. s # <<>> => Append(s, x)[1] = s[1]
    <2>1. s # <<>> => 1 \in DOMAIN s
        BY <1>1
    <2> QED
        BY <1>1, <2>1
<1> QED
    BY <1>1, <1>2, <1>3, <1>4

\* A sequence of numbers and one more number.
LEMMA OneMoreNumber ==
    ASSUME NEW s \in Seq(Nat), NEW x \in Nat
    PROVE  /\ Append(s, x) \in Seq(Nat) /\ Append(s, x) # <<>>
           /\ Len(s) \in Nat
           /\ DOMAIN s = 1..Len(s) /\ DOMAIN Append(s, x) = 1..(Len(s) + 1)
           /\ \A i \in DOMAIN s : Append(s, x)[i] = s[i]
           /\ Append(s, x)[Len(s) + 1] = x
           /\ s # <<>> => Append(s, x)[1] = s[1]
           /\ C!ToSet(Append(s, x)) = C!ToSet(s) \cup {x}
    BY OneMore

\* A line printed comes after those before it.
LEMMA LaterLine ==
    ASSUME NEW ls \in Seq(Nat), NEW numbers \in SUBSET Nat, NEW n \in Nat,
           C!InOrder(ls, numbers), \A k \in numbers : k < n
    PROVE  C!InOrder(Append(ls, n), numbers \cup {n})
<1>1. /\ DOMAIN ls = 1..Len(ls) /\ DOMAIN Append(ls, n) = 1..(Len(ls) + 1) /\ Len(ls) \in Nat
      /\ \A i \in DOMAIN ls : Append(ls, n)[i] = ls[i]
      /\ Append(ls, n)[Len(ls) + 1] = n
      /\ C!ToSet(Append(ls, n)) = C!ToSet(ls) \cup {n}
    BY OneMoreNumber
<1>2. \A i \in DOMAIN ls : ls[i] \in numbers
    BY DEF C!InOrder, C!ToSet
<1>3. ASSUME NEW i \in DOMAIN Append(ls, n), NEW j \in DOMAIN Append(ls, n), i < j
      PROVE  Append(ls, n)[i] < Append(ls, n)[j]
    <2>1. i \in DOMAIN ls
        BY <1>1, <1>3
    <2>2. CASE j \in DOMAIN ls
        BY <1>1, <1>3, <2>1, <2>2 DEF C!InOrder
    <2>3. CASE j = Len(ls) + 1
        BY <1>1, <1>2, <2>1, <2>3
    <2> QED
        BY <1>1, <2>2, <2>3
<1> QED
    BY <1>1, <1>3 DEF C!InOrder

\* The lines for the one who sent the command, and those for the console.
Remotes == {n \in DOMAIN lines : lines[n].command = "rcon" /\ lines[n].length < BufferSize}
Locals == {n \in DOMAIN lines : lines[n].command # "rcon"}

\* One line more in one of the two sets, or in none when it is too long.
LEMMA LinePrinted ==
    ASSUME ConsoleTypeOK, NEW size \in Nat, C!Printed(size)
    PROVE  /\ lines' \in Seq(Line) /\ Len(lines') = Len(lines) + 1 /\ Len(lines) \in Nat
           /\ Len(lines) + 1 \in Nat
           /\ DOMAIN lines = 1..Len(lines) /\ DOMAIN lines' = 1..(Len(lines) + 1)
           /\ Remotes \in SUBSET Nat /\ \A n \in Remotes : n < Len(lines) + 1
           /\ Locals \in SUBSET Nat /\ \A n \in Locals : n < Len(lines) + 1
           /\ Remotes' = IF remote = "rcon" /\ size < BufferSize
                         THEN Remotes \cup {Len(lines) + 1} ELSE Remotes
           /\ Locals' = IF remote = "rcon" THEN Locals ELSE Locals \cup {Len(lines) + 1}
<1> DEFINE line == [length |-> size, command |-> remote]
<1>1. line \in Line /\ lines' = Append(lines, line) /\ lines \in Seq(Line)
    BY DEF ConsoleTypeOK, C!Printed, Line
<1>2. line.length = size /\ line.command = remote
    OBVIOUS
<1> HIDE DEF line
<1>3. /\ lines' \in Seq(Line) /\ Len(lines') = Len(lines) + 1 /\ Len(lines) \in Nat
      /\ DOMAIN lines = 1..Len(lines) /\ DOMAIN lines' = 1..(Len(lines) + 1)
      /\ \A n \in DOMAIN lines : lines'[n] = lines[n]
      /\ lines'[Len(lines) + 1] = line
    <2>1. PICK s \in Seq(Line), x \in Line : s = lines /\ x = line
        BY <1>1
    <2> QED
        BY <1>1, <2>1, OneMore
<1>4. DOMAIN lines' = DOMAIN lines \cup {Len(lines) + 1}
    BY <1>3
<1>5. Remotes' = IF remote = "rcon" /\ size < BufferSize
                 THEN Remotes \cup {Len(lines) + 1} ELSE Remotes
    BY <1>2, <1>3, <1>4 DEF Remotes
<1>6. Locals' = IF remote = "rcon" THEN Locals ELSE Locals \cup {Len(lines) + 1}
    BY <1>2, <1>3, <1>4 DEF Locals
<1> QED
    BY <1>3, <1>5, <1>6 DEF Remotes, Locals

LEMMA ConsoleInit == C!Init => ConsoleInv
<1> SUFFICES ASSUME C!Init PROVE ConsoleInv
    OBVIOUS
<1>1. /\ remote = "none" /\ redirected = FALSE /\ logfile = FALSE /\ used = 0
      /\ buffer = <<>> /\ sent = <<>> /\ screen = <<>> /\ file = <<>>
      /\ printing = <<>> /\ lines = <<>>
    BY DEF C!Init
<1>2. ConsoleTypeOK
    BY <1>1 DEF ConsoleTypeOK, Commands
<1>3. C!EveryLineOnce
    BY <1>1 DEF C!EveryLineOnce, C!InOrder, C!ToSet
<1>4. LogInv
    BY <1>1 DEF LogInv, C!IsInjective
<1> QED
    BY <1>1, <1>2, <1>3, <1>4 DEF ConsoleInv

-----------------------------------------------------------------------------
\* A line of a command: with what the buffer holds, or after it is sent.
LEMMA ToBufferKeeps ==
    ASSUME ConsoleInv, NEW size \in LineLengths, C!Com_Printf(size), redirected
    PROVE  ConsoleInv'
<1>1. /\ C!Printed(size) /\ C!ToBuffer(size) /\ printing = <<>>
      /\ UNCHANGED <<printing, remote, redirected, logging, logfile, screen, openingLog, file>>
    BY DEF C!Com_Printf, C!ToBuffer
<1>2. /\ ConsoleTypeOK /\ remote = "rcon" /\ size \in Nat /\ BufferSize \in Nat
      /\ used \in Nat /\ sent \in Seq(Nat) /\ buffer \in Seq(Nat)
    BY ConsoleLimits DEF ConsoleInv, ConsoleTypeOK
<1>3. PICK n \in Nat : n = Len(lines) + 1
    BY <1>1, <1>2, LinePrinted
<1>4. /\ lines' \in Seq(Line)
      /\ Remotes \in SUBSET Nat /\ \A k \in Remotes : k < n
      /\ Remotes' = IF size < BufferSize THEN Remotes \cup {n} ELSE Remotes
      /\ Locals' = Locals
      /\ DOMAIN lines \subseteq DOMAIN lines'
    BY <1>1, <1>2, <1>3, LinePrinted
<1>5. used' \in Nat
    BY <1>1, <1>2 DEF C!ToBuffer, C!Q_strcat
<1>6. /\ sent' \in Seq(Nat) /\ buffer' \in Seq(Nat)
      /\ sent' \o buffer' = IF size < BufferSize THEN Append(sent \o buffer, n)
                            ELSE sent \o buffer
    <2> DEFINE full == used + size > BufferSize - 1
    <2>1. CASE ~full
        <3>1. size < BufferSize /\ ~(size + 1 > BufferSize - used)
            BY <1>2, <2>1
        <3>2. sent' = sent /\ buffer' = Append(buffer, n)
            BY <1>1, <1>3, <2>1, <3>1 DEF C!ToBuffer, C!Q_strcat
        <3>3. sent \o Append(buffer, n) = Append(sent \o buffer, n)
            BY <1>2
        <3> QED
            BY <1>2, <3>1, <3>2, <3>3
    <2>2. CASE full
        <3>1. sent' = sent \o buffer
            BY <1>1, <2>2 DEF C!ToBuffer
        <3>2. sent \o buffer \in Seq(Nat)
            BY <1>2
        <3>3. buffer' = IF size < BufferSize THEN Append(<<>>, n) ELSE <<>>
            <4>1. size + 1 > BufferSize - 0 <=> ~(size < BufferSize)
                BY <1>2
            <4> QED
                BY <1>1, <1>3, <2>2, <4>1 DEF C!ToBuffer, C!Q_strcat
        <3>4. /\ (sent \o buffer) \o <<>> = sent \o buffer
              /\ (sent \o buffer) \o Append(<<>>, n) = Append(sent \o buffer, n)
              /\ Append(<<>>, n) \in Seq(Nat) /\ <<>> \in Seq(Nat)
            BY <3>2
        <3> QED
            BY <3>1, <3>2, <3>3, <3>4
    <2> QED
        BY <2>1, <2>2
<1>7. sent \o buffer \in Seq(Nat) /\ C!InOrder(sent \o buffer, Remotes)
    BY <1>2 DEF ConsoleInv, C!EveryLineOnce, Remotes
<1>8. C!InOrder(sent' \o buffer', Remotes')
    <2>1. C!InOrder(Append(sent \o buffer, n), Remotes \cup {n})
        BY <1>4, <1>7, LaterLine
    <2> QED
        BY <1>4, <1>6, <1>7, <2>1
<1>9. C!EveryLineOnce'
    <2>1. C!InOrder(screen', Locals')
        BY <1>1, <1>4 DEF ConsoleInv, C!EveryLineOnce, Locals
    <2> QED
        BY <1>1, <1>2, <1>8, <2>1 DEF C!EveryLineOnce, Remotes, Locals
<1>10. ~FsDebug => LogInv'
    BY <1>1, <1>4 DEF ConsoleInv, LogInv
<1>11. ConsoleTypeOK'
    BY <1>1, <1>4, <1>5, <1>6 DEF ConsoleTypeOK, ConsoleInv
<1> QED
    BY <1>1, <1>9, <1>10, <1>11 DEF ConsoleInv

\* A line of the console, in whatever call.
LEMMA ToScreenKeeps ==
    ASSUME ConsoleInv, NEW size \in Nat, C!Printed(size), remote # "rcon",
           screen' = Append(screen, Len(lines) + 1),
           UNCHANGED <<sent, buffer, used, remote, redirected>>
    PROVE  ConsoleTypeOK' /\ C!EveryLineOnce'
<1>1. ConsoleTypeOK /\ screen \in Seq(Nat)
    BY DEF ConsoleInv, ConsoleTypeOK
<1>2. PICK n \in Nat : n = Len(lines) + 1
    BY <1>1, LinePrinted
<1>3. /\ lines' \in Seq(Line)
      /\ Locals \in SUBSET Nat /\ \A k \in Locals : k < n
      /\ Locals' = Locals \cup {n} /\ Remotes' = Remotes
    BY <1>1, <1>2, LinePrinted
<1>4. C!InOrder(screen', Locals')
    <2>1. C!InOrder(screen, Locals)
        BY DEF ConsoleInv, C!EveryLineOnce, Locals
    <2>2. C!InOrder(Append(screen, n), Locals \cup {n})
        BY <1>1, <1>3, <2>1, LaterLine
    <2> QED
        BY <1>2, <1>3, <2>2
<1>5. C!EveryLineOnce'
    <2>1. C!InOrder(sent \o buffer, Remotes)
        BY DEF ConsoleInv, C!EveryLineOnce, Remotes
    <2>2. C!InOrder(sent' \o buffer', Remotes')
        BY <1>3, <2>1
    <2>3. remote' # "rcon" => buffer' = <<>>
        BY DEF ConsoleInv, C!EveryLineOnce
    <2> QED
        BY <1>4, <2>2, <2>3 DEF C!EveryLineOnce, Remotes, Locals
<1>6. screen' \in Seq(Nat)
    <2>1. Append(screen, n) \in Seq(Nat)
        BY <1>1, OneMore
    <2> QED
        BY <1>2, <2>1
<1>7. ConsoleTypeOK'
    BY <1>1, <1>3, <1>6 DEF ConsoleTypeOK
<1> QED
    BY <1>5, <1>7

\* A sequence of one.
LEMMA OnlyOne ==
    ASSUME NEW x
    PROVE  /\ <<x>> # <<>> /\ Len(<<x>>) = 1 /\ C!Last(<<x>>) = x /\ C!Front(<<x>>) = <<>>
<1>1. Len(<<x>>) = 1 /\ <<x>>[1] = x /\ DOMAIN <<x>> = 1..1
    OBVIOUS
<1>2. <<x>> # <<>>
    BY <1>1
<1>3. SubSeq(<<x>>, 1, 0) = <<>>
    OBVIOUS
<1> QED
    BY <1>1, <1>2, <1>3 DEF C!Last, C!Front

\* The log while the lines of the console are printed one after the other.
LEMMA LogGrows ==
    ASSUME ConsoleInv, LogInv, NEW size \in Nat, C!Printed(size),
           screen' = Append(screen, Len(lines) + 1),
           printing = <<>>, printing' = <<>>, UNCHANGED <<logging, logfile>>,
           file' = IF logging /\ logfile THEN Append(file, Len(lines) + 1) ELSE file
    PROVE  LogInv'
<1>1. ConsoleTypeOK /\ screen \in Seq(Nat) /\ file \in Seq(Nat)
    BY DEF ConsoleInv, ConsoleTypeOK, LogInv
<1>2. PICK n \in Nat : n = Len(lines) + 1
    BY <1>1, LinePrinted
<1>3. /\ DOMAIN lines = 1..(n - 1) /\ DOMAIN lines' = 1..n
    BY <1>1, <1>2, LinePrinted
<1>4. n \in 1..n /\ \A i \in DOMAIN file : file[i] \in 1..n /\ file[i] # n
    BY <1>2, <1>3 DEF LogInv
<1>5. CASE ~logfile
    <2>1. file' = file /\ logfile' = logfile
        BY <1>5
    <2> QED
        BY <1>3, <1>5, <2>1 DEF LogInv
<1>6. CASE logfile
    <2>1. logging /\ file' = Append(file, n) /\ file # <<>> /\ screen' = Append(screen, n)
        BY <1>2, <1>6 DEF LogInv
    <2>2. /\ DOMAIN file = 1..Len(file) /\ DOMAIN file' = 1..(Len(file) + 1) /\ Len(file) \in Nat
          /\ \A i \in DOMAIN file : file'[i] = file[i]
          /\ file'[Len(file) + 1] = n /\ file' # <<>> /\ file'[1] = file[1]
          /\ C!ToSet(file') = C!ToSet(file) \cup {n}
          /\ C!ToSet(screen') = C!ToSet(screen) \cup {n}
        <3>1. PICK s \in Seq(Nat), t \in Seq(Nat) : s = file /\ t = screen
            BY <1>1
        <3>2. C!ToSet(Append(t, n)) = C!ToSet(t) \cup {n}
            BY OneMoreNumber
        <3>3. /\ DOMAIN s = 1..Len(s) /\ DOMAIN Append(s, n) = 1..(Len(s) + 1)
              /\ Len(s) \in Nat
              /\ \A i \in DOMAIN s : Append(s, n)[i] = s[i]
              /\ Append(s, n)[Len(s) + 1] = n /\ Append(s, n) # <<>>
              /\ s # <<>> => Append(s, n)[1] = s[1]
              /\ C!ToSet(Append(s, n)) = C!ToSet(s) \cup {n}
            BY OneMoreNumber
        <3> QED
            BY <2>1, <3>1, <3>2, <3>3
    <2>3. C!IsInjective(file')
        <3>1. ASSUME NEW i \in DOMAIN file', NEW j \in DOMAIN file', file'[i] = file'[j]
              PROVE  i = j
            <4>1. (i \in DOMAIN file \/ i = Len(file) + 1) /\ (j \in DOMAIN file \/ j = Len(file) + 1)
                BY <2>2
            <4> QED
                BY <1>4, <2>2, <3>1, <4>1 DEF LogInv, C!IsInjective
        <3> QED
            BY <3>1 DEF C!IsInjective
    <2>4. ASSUME NEW i \in DOMAIN file' PROVE file'[i] \in DOMAIN lines'
        <3>1. i \in DOMAIN file \/ i = Len(file) + 1
            BY <2>2
        <3> QED
            BY <1>3, <1>4, <2>2, <3>1
    <2>5. \A k \in C!ToSet(screen') : k >= file'[1] - 1 => k \in C!ToSet(file')
        BY <2>2 DEF LogInv
    <2> QED
        BY <1>1, <1>6, <2>1, <2>2, <2>3, <2>4, <2>5, OneMore DEF LogInv
<1> QED
    BY <1>5, <1>6

\* The line that opens the log waits for it.
LEMMA LogOpens ==
    ASSUME ConsoleInv, LogInv, NEW size \in Nat, C!Printed(size), C!Opens, printing = <<>>,
           openingLog', UNCHANGED <<logging, logfile, file>>,
           printing' = <<[line |-> Len(lines) + 1, at |-> "open"]>>
    PROVE  LogInv'
<1>1. /\ Len(lines') = Len(lines) + 1 /\ Len(lines) + 1 \in Nat
      /\ DOMAIN lines \subseteq DOMAIN lines'
    BY LinePrinted DEF ConsoleInv
<1>2. logging /\ ~logfile
    BY DEF C!Opens
<1>3. WaitsForLog'
    <2>1. PICK n \in Nat \ {0} : n = Len(lines')
        BY <1>1
    <2>2. printing' = <<[line |-> n, at |-> "open"]>>
        BY <1>1, <2>1
    <2>3. printing' = <<[line |-> n, at |-> "open"]>> /\ "open" \in {"open", "opened", "close"}
          /\ n = Len(lines') /\ logging' /\ ~logfile' /\ openingLog' /\ "open" # "close"
        BY <1>2, <2>1, <2>2
    <2> QED
        BY <2>3, Zenon DEF WaitsForLog
<1>4. printing' # <<>>
    BY OnlyOne
<1> QED
    BY <1>1, <1>3, <1>4 DEF LogInv

LEMMA PrintfKeeps == ASSUME ConsoleInv, NEW size \in LineLengths, C!Com_Printf(size)
                     PROVE  ConsoleInv'
<1>1. CASE redirected
    BY <1>1, ToBufferKeeps
<1>2. CASE ~redirected
    <2>1. /\ C!Printed(size) /\ printing = <<>> /\ size \in Nat /\ remote # "rcon"
          /\ screen' = Append(screen, Len(lines) + 1)
          /\ file' = IF logging /\ logfile THEN Append(file, Len(lines) + 1) ELSE file
          /\ UNCHANGED <<sent, buffer, used, remote, redirected, logging, logfile>>
          /\ printing' = IF C!Opens THEN <<[line |-> Len(lines) + 1, at |-> "open"]>> ELSE <<>>
          /\ C!Opens => openingLog'
        BY <1>2, ConsoleLimits DEF C!Com_Printf, C!ToScreen, ConsoleInv
    <2>2. ConsoleTypeOK' /\ C!EveryLineOnce'
        BY <2>1, ToScreenKeeps
    <2>3. ASSUME ~FsDebug PROVE LogInv'
        <3>1. LogInv
            BY <2>3 DEF ConsoleInv
        <3>2. CASE C!Opens
            <4>1. ~(logging /\ logfile)
                BY <3>2 DEF C!Opens
            <4> QED
                BY <2>1, <3>1, <3>2, <4>1, LogOpens
        <3>3. CASE ~C!Opens
            BY <2>1, <3>1, <3>3, LogGrows
        <3> QED
            BY <3>2, <3>3
    <2> QED
        BY <2>1, <2>2, <2>3 DEF ConsoleInv
<1> QED
    BY <1>1, <1>2

\* While a call waits, no command's answer is gathered.
LEMMA WaitsOnConsole ==
    ASSUME ConsoleInv, NEW at, C!Waits(at)
    PROVE  remote # "rcon" /\ ~redirected /\ printing # <<>>
BY DEF C!Waits, ConsoleInv

\* Without fs_debug the call that waits is the only one.
LEMMA WaitingCall ==
    ASSUME ConsoleInv, NEW at, C!Waits(at), ~FsDebug
    PROVE  \E n \in Nat \ {0} :
              /\ printing = <<[line |-> n, at |-> at]>> /\ Len(printing) = 1
              /\ at \in {"open", "opened", "close"}
              /\ at # "close" => n = Len(lines) /\ logging /\ ~logfile /\ openingLog
              /\ at = "close" /\ logfile => n = Len(lines) - 1 /\ file = <<n + 1>>
              /\ \A step : [printing EXCEPT ![Len(printing)].at = step]
                              = <<[line |-> n, at |-> step]>>
<1>1. LogInv /\ printing # <<>>
    BY WaitsOnConsole DEF ConsoleInv
<1>2. PICK n \in Nat \ {0}, here \in {"open", "opened", "close"} :
        /\ printing = <<[line |-> n, at |-> here]>>
        /\ here # "close" => n = Len(lines) /\ logging /\ ~logfile /\ openingLog
        /\ here = "close" /\ logfile => n = Len(lines) - 1 /\ file = <<n + 1>>
    BY <1>1, Zenon DEF LogInv, WaitsForLog
<1>3. Len(printing) = 1 /\ C!Last(printing) = [line |-> n, at |-> here]
    BY <1>2, OnlyOne
<1>4. here = at
    BY <1>3 DEF C!Waits
<1>5. \A step : [printing EXCEPT ![1].at = step] = <<[line |-> n, at |-> step]>>
    BY <1>2
<1> QED
    BY <1>2, <1>3, <1>4, <1>5

\* FS_FOpenFileWrite, with the line it prints first under fs_debug.
LEMMA OpenLogKeeps == ConsoleInv /\ C!OpenLog => ConsoleInv'
<1> SUFFICES ASSUME ConsoleInv, C!OpenLog PROVE ConsoleInv'
    OBVIOUS
<1>1. C!Waits("open") /\ UNCHANGED <<remote, redirected, logging, logfile>>
    BY DEF C!OpenLog
<1>2. remote # "rcon" /\ ~redirected /\ printing # <<>>
    BY <1>1, WaitsOnConsole
<1>3. CASE FsDebug
    <2>1. C!Nested("opened")
        BY <1>3 DEF C!OpenLog
    <2>2. /\ C!Printed(1) /\ screen' = Append(screen, Len(lines) + 1)
          /\ UNCHANGED <<sent, buffer, used>>
        BY <2>1 DEF C!Nested, C!ToScreen
    <2>3. ConsoleTypeOK' /\ C!EveryLineOnce'
        BY <1>1, <1>2, <2>2, ToScreenKeeps
    <2> QED
        BY <1>1, <1>2, <1>3, <2>3 DEF ConsoleInv
<1>4. CASE ~FsDebug
    <2>1. /\ printing' = [printing EXCEPT ![Len(printing)].at = "opened"]
          /\ UNCHANGED <<lines, screen, openingLog, file, sent, buffer, used>>
        BY <1>4 DEF C!OpenLog
    <2>2. PICK n \in Nat \ {0} :
            /\ printing' = <<[line |-> n, at |-> "opened"]>>
            /\ n = Len(lines) /\ logging /\ ~logfile /\ openingLog
        BY <1>1, <1>4, <2>1, WaitingCall
    <2>3. WaitsForLog'
        <3>1. /\ printing' = <<[line |-> n, at |-> "opened"]>> /\ "opened" # "close"
              /\ "opened" \in {"open", "opened", "close"}
              /\ n = Len(lines') /\ logging' /\ ~logfile' /\ openingLog'
            BY <1>1, <2>1, <2>2
        <3> QED
            BY <3>1, Zenon DEF WaitsForLog
    <2>4. printing' # <<>>
        BY <2>2, OnlyOne
    <2>5. LogInv'
        BY <1>1, <1>4, <2>1, <2>3, <2>4 DEF ConsoleInv, LogInv
    <2>6. ConsoleTypeOK' /\ C!EveryLineOnce'
        BY <1>1, <2>1 DEF ConsoleInv, ConsoleTypeOK, C!EveryLineOnce
    <2> QED
        BY <1>1, <1>2, <2>5, <2>6 DEF ConsoleInv
<1> QED
    BY <1>3, <1>4

LEMMA LogOpenedKeeps == ConsoleInv /\ C!LogOpened => ConsoleInv'
<1> SUFFICES ASSUME ConsoleInv, C!LogOpened PROVE ConsoleInv'
    OBVIOUS
<1>1. /\ C!Waits("opened") /\ C!Printed(1) /\ logfile' = TRUE
      /\ screen' = Append(screen, Len(lines) + 1)
      /\ file' = Append(file, Len(lines) + 1)
      /\ printing' = [printing EXCEPT ![Len(printing)].at = "close"]
      /\ UNCHANGED <<remote, redirected, logging, sent, buffer, used>>
    BY DEF C!LogOpened
<1>2. remote # "rcon" /\ ~redirected /\ printing # <<>>
    BY <1>1, WaitsOnConsole
<1>3. ConsoleTypeOK' /\ C!EveryLineOnce'
    BY <1>1, <1>2, ToScreenKeeps
<1>4. ASSUME ~FsDebug PROVE LogInv'
    <2>1. PICK n \in Nat \ {0} :
            /\ printing' = <<[line |-> n, at |-> "close"]>>
            /\ n = Len(lines) /\ logging /\ ~logfile
        BY <1>1, <1>4, WaitingCall
    <2>2. file = <<>>
        BY <1>4, <2>1 DEF ConsoleInv, LogInv
    <2>3. file' = <<n + 1>> /\ file' # <<>> /\ printing' # <<>>
        <3>1. Append(<<>>, n + 1) = <<n + 1>>
            OBVIOUS
        <3> QED
            BY <1>1, <2>1, <2>2, <3>1, OnlyOne
    <2>4. DOMAIN lines' = 1..(n + 1) /\ Len(lines') = n + 1
        BY <1>1, <2>1, LinePrinted DEF ConsoleInv
    <2>5. WaitsForLog'
        <3>1. n = Len(lines') - 1
            BY <2>4
        <3>2. /\ printing' = <<[line |-> n, at |-> "close"]>> /\ n \in Nat \ {0}
              /\ "close" \in {"open", "opened", "close"}
              /\ n = Len(lines') - 1 /\ file' = <<n + 1>>
            BY <2>1, <2>3, <3>1
        <3> QED
            BY <3>2, Zenon DEF WaitsForLog
    <2>6. DOMAIN file' = {1} /\ file'[1] = n + 1
        BY <2>3
    <2>7. C!IsInjective(file') /\ \A i \in DOMAIN file' : file'[i] \in DOMAIN lines'
        BY <2>1, <2>4, <2>6 DEF C!IsInjective
    <2>8. file' \in Seq(Nat)
        BY <2>3
    <2> QED
        BY <1>1, <2>3, <2>5, <2>7, <2>8 DEF LogInv
<1> QED
    BY <1>1, <1>2, <1>3, <1>4 DEF ConsoleInv

LEMMA LogFailedKeeps == ConsoleInv /\ C!LogFailed => ConsoleInv'
<1> SUFFICES ASSUME ConsoleInv, C!LogFailed PROVE ConsoleInv'
    OBVIOUS
<1>1. /\ C!Waits("opened") /\ C!Nested("close")
      /\ UNCHANGED <<remote, redirected, logging, logfile>>
    BY DEF C!LogFailed
<1>2. /\ C!Printed(1) /\ screen' = Append(screen, Len(lines) + 1)
      /\ file' = IF logging /\ logfile THEN Append(file, Len(lines) + 1) ELSE file
      /\ ~C!Opens => printing' = [printing EXCEPT ![Len(printing)].at = "close"]
      /\ UNCHANGED <<sent, buffer, used>>
    BY <1>1 DEF C!Nested, C!ToScreen
<1>3. remote # "rcon" /\ ~redirected
    BY <1>1, WaitsOnConsole
<1>4. ConsoleTypeOK' /\ C!EveryLineOnce'
    BY <1>1, <1>2, <1>3, ToScreenKeeps
<1>5. ASSUME ~FsDebug PROVE LogInv'
    <2>1. PICK n \in Nat \ {0} :
            /\ [printing EXCEPT ![Len(printing)].at = "close"] = <<[line |-> n, at |-> "close"]>>
            /\ n = Len(lines) /\ logging /\ ~logfile /\ openingLog
        BY <1>1, <1>5, WaitingCall
    <2>2. file' = file /\ ~logfile' /\ printing' = <<[line |-> n, at |-> "close"]>>
        BY <1>1, <1>2, <2>1 DEF C!Opens
    <2>3. WaitsForLog'
        <3>1. /\ printing' = <<[line |-> n, at |-> "close"]>> /\ n \in Nat \ {0} /\ ~logfile'
              /\ "close" \in {"open", "opened", "close"}
            BY <2>2
        <3> QED
            BY <3>1, Zenon DEF WaitsForLog
    <2>4. printing' # <<>>
        BY <2>2, OnlyOne
    <2>5. DOMAIN lines \subseteq DOMAIN lines'
        BY <1>2, LinePrinted DEF ConsoleInv
    <2> QED
        BY <1>1, <1>5, <2>2, <2>3, <2>4, <2>5 DEF ConsoleInv, LogInv
<1> QED
    BY <1>1, <1>3, <1>4, <1>5 DEF ConsoleInv

LEMMA LogDoneKeeps == ConsoleInv /\ C!LogDone => ConsoleInv'
<1> SUFFICES ASSUME ConsoleInv, C!LogDone PROVE ConsoleInv'
    OBVIOUS
<1>1. /\ C!Waits("close") /\ logging' = logfile
      /\ file' = IF logfile THEN Append(file, C!Last(printing).line) ELSE file
      /\ printing' = C!Front(printing)
      /\ UNCHANGED <<remote, redirected, logfile, lines, screen, sent, buffer, used>>
    BY DEF C!LogDone
<1>2. remote # "rcon" /\ ~redirected
    BY <1>1, WaitsOnConsole
<1>4. ConsoleTypeOK' /\ C!EveryLineOnce'
    BY <1>1 DEF ConsoleInv, ConsoleTypeOK, C!EveryLineOnce
<1>5. ASSUME ~FsDebug PROVE LogInv'
    <2>1. PICK n \in Nat \ {0} :
            /\ printing = <<[line |-> n, at |-> "close"]>>
            /\ logfile => n = Len(lines) - 1 /\ file = <<n + 1>>
        BY <1>1, <1>5, WaitingCall
    <2>2. C!Last(printing).line = n /\ printing' = <<>>
        BY <1>1, <2>1, OnlyOne
    <2>3. CASE ~logfile
        BY <1>1, <1>5, <2>2, <2>3 DEF ConsoleInv, LogInv
    <2>4. CASE logfile
        <3>1. file' = Append(<<n + 1>>, n)
            BY <1>1, <2>1, <2>2, <2>4
        <3>2. /\ file' \in Seq(Nat) /\ DOMAIN file' = {1, 2} /\ file'[1] = n + 1 /\ file'[2] = n
              /\ C!ToSet(file') = {n, n + 1}
            <4>0. n + 1 \in Nat /\ <<n + 1>> \in Seq(Nat)
                <5>1. PICK m \in Nat : m = n + 1
                    OBVIOUS
                <5>2. <<m>> \in Seq(Nat)
                    OBVIOUS
                <5> QED
                    BY <5>1, <5>2
            <4>1. PICK s \in Seq(Nat) : s = <<n + 1>>
                BY <4>0
            <4>2. Len(s) = 1 /\ DOMAIN s = {1} /\ s[1] = n + 1
                BY <4>1
            <4>3. C!ToSet(s) = {n + 1}
                BY <4>2 DEF C!ToSet
            <4>4. /\ Append(s, n) \in Seq(Nat)
                  /\ DOMAIN Append(s, n) = 1..(Len(s) + 1)
                  /\ \A i \in DOMAIN s : Append(s, n)[i] = s[i]
                  /\ Append(s, n)[Len(s) + 1] = n
                  /\ C!ToSet(Append(s, n)) = C!ToSet(s) \cup {n}
                BY OneMoreNumber
            <4> QED
                BY <3>1, <4>1, <4>2, <4>3, <4>4
        <3>4. file' # <<>>
            <4>1. 1 \in DOMAIN file'
                BY <3>2
            <4> QED
                BY <4>1
        <3>3. n = Len(lines) - 1 /\ DOMAIN lines = 1..(n + 1)
            BY <2>1, <2>4 DEF ConsoleInv, ConsoleTypeOK
        <3> QED
            <4>1. C!IsInjective(file')
                BY <3>2 DEF C!IsInjective
            <4>2. \A k \in C!ToSet(screen) : k \in 1..(n + 1)
                BY <3>3 DEF ConsoleInv, C!EveryLineOnce, C!InOrder
            <4>3. \A i \in DOMAIN file' : file'[i] \in 1..(n + 1)
                <5>1. n \in 1..(n + 1) /\ n + 1 \in 1..(n + 1)
                    BY <2>1
                <5> QED
                    BY <3>2, <5>1
            <4>4. \A k \in C!ToSet(screen) : k >= file'[1] - 1 => k \in C!ToSet(file')
                BY <3>2, <4>2
            <4> QED
                BY <1>1, <2>2, <2>4, <3>2, <3>3, <3>4, <4>1, <4>3, <4>4 DEF LogInv
    <2> QED
        BY <2>3, <2>4
<1> QED
    BY <1>1, <1>2, <1>4, <1>5 DEF ConsoleInv

\* The begin and the end of a command.
LEMMA CommandsKeep ==
    ASSUME ConsoleInv, C!RemoteCommand \/ C!RemoteCommandDone \/ C!Shutdown \/ C!Error
    PROVE  ConsoleInv'
<1>1. printing = <<>> /\ UNCHANGED <<printing, lines, screen, logging, logfile, file>>
    BY DEF C!RemoteCommand, C!RemoteCommandDone, C!Shutdown, C!Error, ConsoleInv
<1>2. /\ sent \in Seq(Nat) /\ buffer \in Seq(Nat)
      /\ ~redirected => buffer = <<>>
    BY DEF ConsoleInv, ConsoleTypeOK, C!EveryLineOnce
<1>3. /\ remote' \in Commands /\ (redirected' <=> remote' = "rcon")
      /\ buffer' = <<>> /\ used' = 0
      /\ sent' = sent \o buffer
    <2>1. sent \o <<>> = sent
        BY <1>2
    <2>2. CASE C!RemoteCommand
        BY <1>2, <2>1, <2>2 DEF C!RemoteCommand, Commands, ConsoleInv
    <2>3. CASE C!RemoteCommandDone
        BY <1>2, <2>1, <2>3 DEF C!RemoteCommandDone, C!Com_EndRedirect, Commands
    <2>4. CASE C!Shutdown
        BY <1>2, <2>1, <2>4 DEF C!Shutdown, C!Com_EndRedirect, Commands, ConsoleInv, ConsoleTypeOK
    <2>5. CASE C!Error
        BY <1>2, <2>1, <2>5 DEF C!Error, C!Com_EndRedirect, Commands
    <2> QED
        BY <2>2, <2>3, <2>4, <2>5
<1>4. /\ sent' \in Seq(Nat) /\ buffer' \in Seq(Nat)
      /\ sent' \o buffer' = sent \o buffer
    <2>1. sent \o buffer \in Seq(Nat) /\ <<>> \in Seq(Nat)
        BY <1>2
    <2>2. (sent \o buffer) \o <<>> = sent \o buffer
        BY <2>1
    <2> QED
        BY <1>3, <2>1, <2>2
<1>5. ConsoleTypeOK'
    BY <1>1, <1>3, <1>4 DEF ConsoleInv, ConsoleTypeOK
<1>6. C!EveryLineOnce'
    BY <1>1, <1>3, <1>4 DEF ConsoleInv, C!EveryLineOnce
<1>7. ~FsDebug => LogInv'
    BY <1>1 DEF ConsoleInv, LogInv
<1> QED
    BY <1>1, <1>3, <1>5, <1>6, <1>7 DEF ConsoleInv

LEMMA ConsoleNext == ConsoleInv /\ C!Next => ConsoleInv'
BY PrintfKeeps, OpenLogKeeps, LogOpenedKeeps, LogFailedKeeps, LogDoneKeeps, CommandsKeep
DEF C!Next

LEMMA LinesArriveThen == ConsoleInv => LinesArrive
<1> SUFFICES ASSUME ConsoleInv, ~FsDebug, logfile, logging, printing = <<>>
             PROVE  /\ C!IsInjective(file)
                    /\ \A n \in C!ToSet(screen) : n >= Head(file) - 1 => n \in C!ToSet(file)
    BY DEF ConsoleInv, LinesArrive, C!LinesArrive, C!LogKeepsUp
<1>1. LogInv /\ file # <<>> /\ file \in Seq(Nat)
    BY DEF ConsoleInv, LogInv
<1>2. Head(file) = file[1]
    BY <1>1
<1> QED
    BY <1>1, <1>2 DEF LogInv

-----------------------------------------------------------------------------
(* The specification *)

\* The first attachment followed instruction by instruction is an attachment of
\* Hooks: it changes nothing of it, then attaches the hook, or stops the server.
LEMMA PatchStep == PatchNext => [Next]_vars
<1>1. Order[1] \in Hooks
    <2>1. 1 \in 1..Len(Order)
        BY TheOrder
    <2> QED
        BY <2>1, TheOrder
<1>2. CASE Detouring
    BY <1>2 DEF Detouring
<1>3. CASE AttachedOk
    BY <1>1, <1>3 DEF AttachedOk, Next
<1>4. CASE AttachFails
    BY <1>4 DEF AttachFails, Next
<1>5. CASE Abstracted
    BY <1>5 DEF Abstracted
<1> QED
    BY <1>2, <1>3, <1>4, <1>5 DEF PatchNext

\* A step of the process is one of Hooks, or changes nothing of it.
LEMMA HooksPart == [MCNext]_<<part, patchVars, moduleVars, consoleVars>> => [Next]_vars
<1>1. UNCHANGED patchVars => UNCHANGED vars
    BY DEF patchVars
<1> QED
    BY <1>1, PatchStep DEF MCNext

\* The same of the first attachment.
LEMMA DetourPart ==
    DetourInv /\ [MCNext]_<<part, patchVars, moduleVars, consoleVars>> => DetourInv'
<1>1. DetourInv /\ UNCHANGED detourVars => DetourInv'
    BY DEF detourVars, DetourInv, DetourTypeOK, Decoded, SameDestinations,
           D!SameDestinations
<1>2. UNCHANGED patchVars => UNCHANGED detourVars
    BY DEF patchVars
<1>3. DetourInv /\ PatchNext => DetourInv'
    BY <1>1, DetourNext, ForgetKeeps
    DEF PatchNext, Detouring, AttachedOk, AttachFails, Abstracted
<1> QED
    BY <1>1, <1>2, <1>3 DEF MCNext

\* And of the game's module.
LEMMA ModulePart ==
    ModuleInv /\ [MCNext]_<<part, patchVars, moduleVars, consoleVars>> => ModuleInv'
<1>1. ModuleInv /\ UNCHANGED moduleVars => ModuleInv'
    BY DEF moduleVars, ModuleInv, ModuleTypeOK, Patched, Initing
<1> QED
    BY <1>1, ModuleNext DEF MCNext

\* And of the console.
LEMMA ConsolePart ==
    ConsoleInv /\ [MCNext]_<<part, patchVars, moduleVars, consoleVars>> => ConsoleInv'
<1>1. ConsoleInv /\ UNCHANGED consoleVars => ConsoleInv'
    BY DEF consoleVars, ConsoleInv, ConsoleTypeOK, LogInv, WaitsForLog, C!EveryLineOnce
<1> QED
    BY <1>1, ConsoleNext DEF MCNext

\* The hooks with their first attachment implement the hooks alone: whatever the
\* function starts with, a hook is in place only when AttachHook says Ok, and the
\* server stops when it says anything else (Attach of Engine/Patches.cpp).
THEOREM ImplementsHooks == PatchSpec => Spec
<1>1. PatchInit => Init
    BY DEF PatchInit
<1>2. [PatchNext]_patchVars => [Next]_vars
    BY PatchStep DEF patchVars
<1> QED
    BY <1>1, <1>2, PTL DEF PatchSpec, Spec

\* The processor only runs code that is there, over any number of loads of the proxy,
\* whatever functions a shutdown could not restore (Engine/Patches.cpp).
THEOREM CodeIsAlwaysThere == MCSpec => []CodeIsThere
<1>1. MCInit => HooksInv
    BY HooksInit DEF MCInit, PatchInit
<1>2. HooksInv /\ [MCNext]_<<part, patchVars, moduleVars, consoleVars>> => HooksInv'
    BY HooksPart, HooksNext
<1> QED
    BY <1>1, <1>2, CodeIsThereThen, PTL DEF MCSpec

\* Whatever the function starts with, wherever the trampoline is allocated.
THEOREM DetourIsSound == MCSpec => []DetourInv
<1>1. MCInit => DetourInv
    <2> SUFFICES ASSUME PatchInit PROVE DetourInv
        BY DEF MCInit
    <2>1. D!Init
        BY DEF PatchInit
    <2> QED
        BY <2>1, FirstOfDetour DEF D!Init
<1> QED
    BY <1>1, DetourPart, PTL DEF MCSpec

\* The trampoline leads where the function led, for every width of an address
\* (AttachHook of HookUtils.cpp).
THEOREM TrampolineLeadsBack == MCSpec => []SameDestinations
<1>1. DetourInv => SameDestinations
    BY DEF DetourInv
<1> QED
    BY <1>1, DetourIsSound, PTL

\* The bytes that the jump overwrites are copied whole, in no more room than there is
\* for them, and mean the same in the trampoline (AttachHook of HookUtils.cpp).
THEOREM CopiedBytesAreEnough == MCSpec => [](D!CoversTheJump /\ D!RunsElsewhere)
BY DetourIsSound, DecodedEnough, PTL

\* Whatever the engine and however a start of the game fails (GameExports.cpp,
\* EngineState.hpp, GameImports.cpp).
THEOREM ModuleIsSound == MCSpec => []ModuleInv
<1>1. MCInit => ModuleInv
    BY ModuleInit DEF MCInit
<1> QED
    BY <1>1, ModulePart, PTL DEF MCSpec

\* A map runs on its own navigation, and nothing of another one is left in memory,
\* though the start of that one failed half way (Init and InitDone of
\* GameExports.cpp).
THEOREM MapsStartClean == MCSpec => []NothingLeftOfTheLastMap
<1>1. ModuleInv => NothingLeftOfTheLastMap
    BY DEF ModuleInv, ModuleTypeOK, Initing, NothingLeftOfTheLastMap,
           M!NothingLeftOfTheLastMap
<1> QED
    BY <1>1, ModuleIsSound, PTL

\* No address of the original engine is used on another one, nor before it is set,
\* and no hook outlives the module it jumps to (EngineState.hpp).
THEOREM AddressesOfTheirEngine == MCSpec => []OnlyOnItsEngine
<1>1. ModuleInv => OnlyOnItsEngine
    BY DEF ModuleInv, Patched, OnlyOnItsEngine, M!OnlyOnItsEngine
<1> QED
    BY <1>1, ModuleIsSound, PTL

\* A line reaches the one who waits for it, once and in its order, though the command
\* changes the map or the file system prints lines of its own, and the log holds the
\* lines from the one that opened it on, when fs_debug is off (Com_Printf of
\* Engine/Hooks/qcommon/files.cpp).
THEOREM LinesAlwaysArrive == MCSpec => []LinesArrive
<1>1. MCInit => ConsoleInv
    BY ConsoleInit DEF MCInit
<1> QED
    BY <1>1, ConsolePart, LinesArriveThen, PTL DEF MCSpec
=============================================================================
