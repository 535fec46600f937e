----------------------------- MODULE DmaAllocator -----------------------------
(***************************************************************************)
(* DmaAllocator and DmaMemory: what a DMA-BUF holds in the kernel. A       *)
(* memory is the set of things it owns: "buffer", its dma-buf fd, "map",   *)
(* its mapping, and, from a DRM node, "node" and "handle". The kernel is a *)
(* count of each thing; an allocation is a set of outcomes, as every       *)
(* system call can fail.                                                   *)
(***************************************************************************)
EXTENDS Naturals, Sequences, FiniteSets

Things == {"buffer", "map", "node", "handle"}
NoMemory == {}
Nothing == [t \in Things |-> 0]

More(kernel, things) == [t \in Things |-> kernel[t] + IF t \in things THEN 1 ELSE 0]

(* What a call leaves: the memory it made and what it left in the kernel.  *)
Fails(left) == [memory |-> NoMemory, left |-> left]
Makes(memory) == [memory |-> memory, left |-> memory]

(* open, alloc, close of the heap, mmap.                                   *)
AllocateFromHeap ==
    LET opened == {"node"}
        allocated == (opened \union {"buffer"}) \ {"node"}
        mapped == allocated \union {"map"}
    IN  {Fails({}), Fails(opened \ {"node"}), Fails(allocated \ {"buffer"}), Makes(mapped)}

UndoneByHandle(held) == held \ {"map", "handle"}
(* A failure after CREATE_DUMB undoes what was done, in the reverse order: *)
(* munmap, DESTROY_DUMB, close.                                            *)
Undone(held) == held \ {"map", "handle", "node"}

(* open, CREATE_DUMB, MAP_DUMB, mmap, PRIME_HANDLE_TO_FD.                  *)
AllocateFromDrm ==
    LET opened == {"node"}
        created == opened \union {"handle"}
        mapped == created \union {"map"}
        exported == mapped \union {"buffer"}
    IN  {Fails({}), Fails(opened \ {"node"}), Fails(Undone(created)), Fails(Undone(mapped)),
         Makes(exported)}

(* allocate() takes the heaps and then the DRM nodes in turn, up to the    *)
(* first that serves it; what is here is the set of results with the       *)
(* things that all of the attempts left.                                   *)
AllocateFrom(node) == IF node = "heap" THEN AllocateFromHeap ELSE AllocateFromDrm

Tried(results, node) ==
    {r \in results : r.memory # NoMemory}
    \union {[memory |-> a.memory, left |-> More(r.left, a.left)] :
               r \in {x \in results : x.memory = NoMemory}, a \in AllocateFrom(node)}

Allocate(nodes) ==
    LET results[n \in 0..Len(nodes)] ==
            IF n = 0 THEN {[memory |-> NoMemory, left |-> Nothing]}
            ELSE Tried(results[n - 1], nodes[n])
    IN  results[Len(nodes)]

(* DmaMemory::reset(): the handle is destroyed only through its node.      *)
Reset(memory) ==
    (memory \intersect {"map", "buffer", "node"})
    \union (IF {"node", "handle"} \subseteq memory THEN {"handle"} ELSE {})

(* ~DmaMemory of each of a sequence of memories.                           *)
ResetAll(kernel, memories) ==
    [t \in Things |-> kernel[t] - Cardinality({i \in DOMAIN memories : t \in Reset(memories[i])})]
=============================================================================
