----------------------------- MODULE MCStructures -----------------------------
(***************************************************************************)
(* The data structures, one a behaviour: `chosen` says which one its       *)
(* callers use, and the others are left as they were declared.  On arrays  *)
(* and vectors, three rings, the queue and the stack, and three notes of   *)
(* outstanding requests: the tracker that threads share, the ACK table and *)
(* the list of pending commands.  On the heap, the two linked lists, the   *)
(* merge of two lists, the traversal of a tree through a linked queue, and *)
(* the file objects.  Its list is that of the files that test malloc's     *)
(* result.                                                                 *)
(***************************************************************************)
EXTENDS UartRing, FiniteSets, TLC

CONSTANTS QUEUE_CAPACITY, Sample, Zero, SENSOR_RING_CAPACITY, MAX, Kinds,
          Senders, Receivers, Watchers, Nobody, Numbers, capacity_, Name,
          Addr, NULL, Data, MaxLength, MaxNode, Objects, Files, nullptr

VARIABLES chosen,
          q_data, q_head, q_tail, q_count, q_out, q_answer,
          s_items, s_write_index, s_count, s_output, s_answer,
          k_kind, k_data, k_front, k_rear, k_val, k_answer,
          t_waiting_, t_expected_seq_, t_mutex_, t_pc, t_seq, t_result,
          t_awaited, t_winners,
          a_entries, a_state, a_answer,
          p_commands, p_copy, p_answer,
          l_heap, l_head, l_pc, l_prev, l_curr, l_arg, l_contents,
          d_heap, d_head, d_pc, d_cur, d_arg, d_contents,
          m_n1, m_n2, m_value, m_next, m_list1, m_list2, m_tail, m_returned, m_merged,
          b_tree, b_heap, b_front, b_rear, b_pc, b_current, b_printed, b_dropped, b_waiting,
          f_file_, f_open, f_thrown, f_misused

queue == <<q_data, q_head, q_tail, q_count, q_out, q_answer>>
sensor == <<s_items, s_write_index, s_count, s_output, s_answer>>
array == <<k_kind, k_data, k_front, k_rear, k_val, k_answer>>
tracker == <<t_waiting_, t_expected_seq_, t_mutex_, t_pc, t_seq, t_result,
             t_awaited, t_winners>>
acks == <<a_entries, a_state, a_answer>>
pending == <<p_commands, p_copy, p_answer>>
list == <<l_heap, l_head, l_pc, l_prev, l_curr, l_arg, l_contents>>
doubly == <<d_heap, d_head, d_pc, d_cur, d_arg, d_contents>>
merge == <<m_n1, m_n2, m_value, m_next, m_list1, m_list2, m_tail, m_returned, m_merged>>
binary == <<b_tree, b_heap, b_front, b_rear, b_pc, b_current, b_printed, b_dropped, b_waiting>>
file == <<f_file_, f_open, f_thrown, f_misused>>

slots == <<vars, queue, sensor, array, tracker, acks, pending>>
heaps == <<list, doubly, merge, binary, file>>

Queue == INSTANCE RingQueue
            WITH data <- q_data, head <- q_head, tail <- q_tail, count <- q_count,
                 out <- q_out, answer <- q_answer
Sensor == INSTANCE SensorRing
             WITH items <- s_items, write_index <- s_write_index, count <- s_count,
                  output <- s_output, answer <- s_answer
Array == INSTANCE ArrayContainers
            WITH kind <- k_kind, data <- k_data, front <- k_front, rear <- k_rear,
                 val <- k_val, answer <- k_answer
Tracker == INSTANCE AckTracker
              WITH Seqs <- {1, 2},
                   waiting_ <- t_waiting_, expected_seq_ <- t_expected_seq_,
                   mutex_ <- t_mutex_, pc <- t_pc, seq <- t_seq,
                   result <- t_result, awaited <- t_awaited, winners <- t_winners
Acks == INSTANCE AckTable
           WITH Seqs <- Numbers,
                entries_ <- a_entries, state <- a_state, answer <- a_answer
PendingList == INSTANCE PendingCommands
                  WITH Sequence <- Numbers,
                       commands_ <- p_commands, copy <- p_copy, answer <- p_answer
List == INSTANCE LinkedList
           WITH ChecksMalloc <- TRUE, heap <- l_heap, head <- l_head, pc <- l_pc,
                prev <- l_prev, curr <- l_curr, arg <- l_arg, contents <- l_contents
Doubly == INSTANCE DoublyLinkedList
             WITH heap <- d_heap, head <- d_head, pc <- d_pc, cur <- d_cur,
                  arg <- d_arg, contents <- d_contents
Merge == INSTANCE ListMerge
            WITH n1 <- m_n1, n2 <- m_n2, value <- m_value, next <- m_next,
                 list1 <- m_list1, list2 <- m_list2, tail <- m_tail,
                 returned <- m_returned, merged <- m_merged
Tree == INSTANCE BinaryTree
           WITH tree <- b_tree, heap <- b_heap, front <- b_front, rear <- b_rear,
                pc <- b_pc, current <- b_current, printed <- b_printed,
                dropped <- b_dropped, waiting <- b_waiting
File == INSTANCE LogFile
           WITH file_ <- f_file_, open <- f_open, thrown <- f_thrown,
                misused <- f_misused

ASSUME QueueCapacityAssumption == QUEUE_CAPACITY \in Nat \ {0}

ASSUME ContainerAssumption ==
    /\ Sensor!ConstantsOK /\ Tracker!ConstantsOK
    /\ MAX \in Nat \ {0} /\ Kinds \subseteq {"queue", "stack"}
    /\ capacity_ \in Nat /\ IsFiniteSet(Numbers)

ASSUME HeapAssumption == /\ List!ConstantsOK /\ Doubly!ConstantsOK
                         /\ Merge!ConstantsOK /\ Tree!ConstantsOK /\ File!ConstantsOK

(* What is not used is given one fixed content or its smallest input. *)
SuiteInit ==
    /\ chosen \in {"uart", "queue", "sensor", "array", "tracker", "acks", "pending",
                   "list", "doubly", "merge", "tree", "file"}
    /\ LET unused(x, fixed) == IF chosen = x THEN TRUE ELSE fixed
           v == CHOOSE e \in Value : TRUE
       IN  /\ unused("uart", data = [i \in Index |-> v] /\ out = v)
           /\ unused("queue", q_data = [i \in Queue!Index |-> v] /\ q_out = v)
           /\ unused("sensor", s_output = Zero)
           /\ unused("array", /\ k_kind = "stack" /\ k_val = v
                              /\ k_data = [i \in 0 .. MAX - 1 |-> v])
           /\ unused("tracker", t_seq = [t \in Tracker!Threads |-> 1] /\ t_expected_seq_ = 1)
           /\ unused("acks", a_state = "Waiting")
           /\ unused("pending", p_copy = CHOOSE n \in Name : TRUE)
           /\ unused("merge", m_n1 = 0 /\ m_n2 = 0)
           /\ unused("tree", b_tree = {})
    /\ Init /\ Queue!Init /\ Sensor!Init /\ Array!Init
    /\ Tracker!Init /\ Acks!Init /\ PendingList!Init
    /\ List!Init /\ Doubly!Init /\ Merge!Init /\ Tree!Init /\ File!Init

SuiteNext ==
    /\ UNCHANGED chosen
    /\ \/ chosen = "uart" /\ Next
          /\ UNCHANGED <<queue, sensor, array, tracker, acks, pending, heaps>>
       \/ chosen = "queue" /\ Queue!Next
          /\ UNCHANGED <<vars, sensor, array, tracker, acks, pending, heaps>>
       \/ chosen = "sensor" /\ Sensor!Next
          /\ UNCHANGED <<vars, queue, array, tracker, acks, pending, heaps>>
       \/ chosen = "array" /\ Array!Next
          /\ UNCHANGED <<vars, queue, sensor, tracker, acks, pending, heaps>>
       \/ chosen = "tracker" /\ Tracker!Next
          /\ UNCHANGED <<vars, queue, sensor, array, acks, pending, heaps>>
       \/ chosen = "acks" /\ Acks!Next
          /\ UNCHANGED <<vars, queue, sensor, array, tracker, pending, heaps>>
       \/ chosen = "pending" /\ PendingList!Next
          /\ UNCHANGED <<vars, queue, sensor, array, tracker, acks, heaps>>
       \/ chosen = "list" /\ List!Next
          /\ UNCHANGED <<slots, doubly, merge, binary, file>>
       \/ chosen = "doubly" /\ Doubly!Next
          /\ UNCHANGED <<slots, list, merge, binary, file>>
       \/ chosen = "merge" /\ Merge!Next
          /\ UNCHANGED <<slots, list, doubly, binary, file>>
       \/ chosen = "tree" /\ Tree!Next
          /\ UNCHANGED <<slots, list, doubly, merge, file>>
       \/ chosen = "file" /\ File!Next
          /\ UNCHANGED <<slots, list, doubly, merge, binary>>

SuiteSpec == SuiteInit /\ [][SuiteNext]_<<chosen, slots, heaps>>

(* Numbers are compared, never ordered. *)
Symmetry == Permutations(Numbers)

-----------------------------------------------------------------------------
(* No index of the three rings ever leaves its array, and the count of     *)
(* day20's ring never disagrees with its two indices.                      *)
IndicesFit == TypeOK /\ Queue!TypeOK /\ Queue!CountTellsTail /\ Sensor!TypeOK

(* The ring with a count is a FIFO of QUEUE_CAPACITY values, the ring      *)
(* without one a FIFO of RB_CAPACITY - 1: exactly one slot is given up, and *)
(* wrapping around loses and repeats nothing in either; what the full one   *)
(* drops is counted, each byte once.                                        *)
RingsAreFifos ==
    ImplementsFifo /\ []OverflowCountsDrops /\ Queue!ImplementsFifo

(* The sensor ring is a window on the last SENSOR_RING_CAPACITY samples,   *)
(* read by age wherever the write index stands; the array queue gives back *)
(* its oldest value and the stack its youngest.                            *)
OrderIsKept == Sensor!ImplementsWindow /\ Array!KeepsOrder

(* The wait that a start() begins ends by exactly one call of on_ack, with *)
(* the number of that start, with several senders and receivers at work.   *)
OneAckWins == Tracker!WaitEndsByOneAck

(* Whatever order the records were inserted and erased in, a vector that   *)
(* is searched from the front is a table: one record a number, and an      *)
(* operation on one number never touches the record of another.            *)
VectorsAreTables == Acks!ImplementsTable /\ PendingList!ImplementsTable

(* Every allocated node and every open file is still within the program's  *)
(* reach, and no pointer leads to what was freed: between two calls, and   *)
(* at every step of a loop that turns, unlinks or frees nodes.             *)
NothingIsLost ==
    /\ List!NoLeak /\ Doubly!NoLeak
    /\ Tree!QueueIsLinked
    /\ File!OneOwnerPerFile

(* Whatever the calls before, a list holds what they put there, in both    *)
(* directions; a merge and a traversal give what their definition says.    *)
ContentsAreRight ==
    /\ List!HoldsContents /\ Doubly!BothWaysAgree
    /\ Merge!MergedInOrder /\ Tree!PrintedInOrder
=============================================================================
