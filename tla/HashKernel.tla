----------------------------- MODULE HashKernel -----------------------------
(***************************************************************************)
(* main and fast_hash_kernel of hashalg.cu: the host fills three blocks,   *)
(* the last a copy of the second with one bit flipped, allocates, copies   *)
(* in, launches two kernels, synchronizes, copies back and prints; the     *)
(* device runs the launches of the default stream in order, and the        *)
(* threads of one in any order.                                            *)
(***************************************************************************)
EXTENDS FastHash

CONSTANTS
  ThreadsPerBlock,   \* 256 in the code
  SEEDS,             \* of fill_pattern; 165 and 17 in the code
  GARBAGE            \* what fresh device memory may hold

ASSUME KernelAssumption ==
  ThreadsPerBlock \in Nat \ {0} /\ SEEDS \subseteq Word /\ GARBAGE \subseteq Word

VARIABLES
  host,      \* the host's next step, or how it ended
  blocks,    \* host: h_block128, h_block4k, h_block4k_b, once filled
  memory,    \* device: d_in128, d_out128, d_in4k, d_out4k; <<>> while not allocated
  stream,    \* launches not finished: input, output, words, num_blocks, threads to run
  refused,   \* outputs of the launches that failed; no code of the program looks
  h_results

kernelVars == <<host, blocks, memory, stream, refused, h_results>>

Buffers == {"in128", "out128", "in4k", "out4k"}
Order == <<"in128", "out128", "in4k", "out4k">>
NumBlocks(b) == IF b \in {"in128", "out128"} THEN 1 ELSE 2

FillPattern(seed) == [w \in 0 .. LONG - 1 |-> (seed + 31 * w) % Size]
(* Fresh device memory holds anything; the inputs are written before they   *)
(* are read, so that zeros do for them.                                     *)
Zeros == [w \in 0 .. LONG - 1 |-> 0]
FreshMemory(b) == [0 .. NumBlocks(b) - 1 -> IF b \in {"in128", "in4k"} THEN {Zeros} ELSE GARBAGE]

KernelInit ==
  /\ host = "malloc" /\ blocks = <<>>
  /\ memory = [b \in Buffers |-> <<>>] /\ stream = <<>>
  /\ refused = {} /\ h_results = <<0, 0, 0>>

-----------------------------------------------------------------------------
(* CUDA_CHECK: any call it is put around may fail, and the process exits; so *)
(* does a kernel that fails while it runs, which the next call reports.     *)
Goto(from, to) == host = from /\ host' = to
CudaCheck ==
  /\ host \in {"cudaMalloc", "copy in", "synchronize", "copy back"}
  /\ Goto(host, "EXIT_FAILURE") /\ UNCHANGED <<blocks, memory, stream, refused, h_results>>

(* The three host buffers are filled without looking whether malloc gave    *)
(* them.  Any bit of any word stands for bit 0 of byte 2000.                *)
Malloc ==
  /\ \/ Goto("malloc", "SIGSEGV") /\ UNCHANGED blocks
     \/ /\ Goto("malloc", "cudaMalloc")
        /\ \E seed128, seed4k \in SEEDS, i \in 0 .. LONG - 1, bit \in 0 .. WIDTH - 1 :
             blocks' = << FillPattern(seed128), FillPattern(seed4k),
                          [FillPattern(seed4k) EXCEPT ![i] = Xored[@][TwoTo[bit]]] >>
  /\ UNCHANGED <<memory, stream, refused, h_results>>

CudaMalloc ==
  /\ \E k \in 1 .. 4 :
       /\ Goto("cudaMalloc", IF k = 4 THEN "copy in" ELSE "cudaMalloc")
       /\ memory[Order[k]] = <<>> /\ \A j \in 1 .. k - 1 : memory[Order[j]] # <<>>
       /\ \E fresh \in FreshMemory(Order[k]) : memory' = [memory EXCEPT ![Order[k]] = fresh]
  /\ UNCHANGED <<blocks, stream, refused, h_results>>

Inputs == [in128 |-> [i \in {0} |-> blocks[1]], in4k |-> [i \in {0, 1} |-> blocks[2 + i]]]
CopyIn ==
  /\ Goto("copy in", "launch")
  /\ memory' = [b \in Buffers |-> IF b \in DOMAIN Inputs THEN Inputs[b] ELSE memory[b]]
  /\ UNCHANGED <<blocks, stream, refused, h_results>>

(* Blocks of threads, rounded up; each thread has an index of its own.      *)
GridSize(n) == (n + ThreadsPerBlock - 1) \div ThreadsPerBlock
Kernel(in, out, words, n) ==
  [in |-> in, out |-> out, words |-> words, num_blocks |-> n,
   todo |-> 0 .. GridSize(n) * ThreadsPerBlock - 1]
(* A launch can fail before it runs, with no kernel image for the device or *)
(* no resources; only cudaGetLastError would tell.  The program never calls *)
(* it and goes on as if the kernel were queued.                             *)
Queue(kernel) ==
  \/ stream' = Append(stream, kernel) /\ UNCHANGED refused
  \/ refused' = refused \cup {kernel.out} /\ UNCHANGED stream
Launch ==
  /\ \/ Goto("launch", "launch again") /\ Queue(Kernel("in128", "out128", SHORT, 1))
     \/ Goto("launch again", "synchronize") /\ Queue(Kernel("in4k", "out4k", LONG, 2))
  /\ UNCHANGED <<blocks, memory, h_results>>

(* fast_hash_kernel *)
Thread(idx) ==
  /\ stream # <<>> /\ idx \in Head(stream).todo
  /\ LET k == Head(stream)
     IN /\ IF idx < k.num_blocks
           THEN memory' = [memory EXCEPT ![k.out][idx] = FastHashOf(memory[k.in][idx], k.words)]
           ELSE UNCHANGED memory
        /\ stream' = <<[k EXCEPT !.todo = @ \ {idx}]>> \o Tail(stream)
  /\ UNCHANGED <<host, blocks, refused, h_results>>

KernelEnds ==
  /\ stream # <<>> /\ Head(stream).todo = {} /\ stream' = Tail(stream)
  /\ UNCHANGED <<host, blocks, memory, refused, h_results>>

Synchronize ==
  /\ Goto("synchronize", "copy back") /\ stream = <<>>
  /\ UNCHANGED <<blocks, memory, stream, refused, h_results>>
CopyBack ==
  /\ Goto("copy back", "print") /\ UNCHANGED <<blocks, memory, stream, refused>>
  /\ h_results' = <<memory["out128"][0], memory["out4k"][0], memory["out4k"][1]>>
PrintResults == Goto("print", "free") /\ UNCHANGED <<blocks, memory, stream, refused, h_results>>
Free ==
  /\ Goto("free", "return 0") /\ UNCHANGED <<stream, refused, h_results>>
  /\ blocks' = <<>> /\ memory' = [b \in Buffers |-> <<>>]

HostStep == Malloc \/ CudaMalloc \/ CopyIn \/ Launch \/ Synchronize \/ CopyBack \/ PrintResults \/ Free
DeviceStep == KernelEnds \/ \E idx \in 0 .. 2 * ThreadsPerBlock : Thread(idx)
KernelNext == HostStep \/ DeviceStep \/ CudaCheck
KernelSpec == KernelInit /\ [][KernelNext]_kernelVars

-----------------------------------------------------------------------------
(* What is printed for a launch that ran is, in order, what fast_hash.h     *)
(* computes for the blocks the host filled, its unrolled path included,     *)
(* whichever threads ran first and whatever became of the other launch.     *)
(* What is printed for one that failed is what the device memory happened   *)
(* to hold: the synchronization succeeds and nobody else writes there.      *)
Printed(j, words, out) ==
  IF out \in refused THEN h_results[j] \in GARBAGE ELSE h_results[j] = FastHash(blocks[j], words)
ResultsAreHashes ==
  host \in {"print", "free"} =>
    Printed(1, SHORT, "out128") /\ Printed(2, LONG, "out4k") /\ Printed(3, LONG, "out4k")

(* If the second launch ran, the flipped bit shows (the program's own       *)
(* "should be no"): every step is one to one in the lane and in the word.   *)
(* If it failed, the answer is what two words of fresh memory make it.      *)
FlippedBitShows ==
  host \in {"print", "free", "return 0"} /\ "out4k" \notin refused => h_results[2] # h_results[3]
=============================================================================
