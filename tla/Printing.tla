------------------------------ MODULE Printing ------------------------------
(***************************************************************************)
(* Threads that print through console.c, and the scheduler, which prints   *)
(* at every switch (process.c).  A thread holds console_lock and may be    *)
(* preempted between any two accesses of print_str to printf's buffer, to  *)
(* the controller's index register and to the cursor's two halves; the     *)
(* scheduler does not take the lock and prints with interrupts disabled.   *)
(***************************************************************************)
EXTENDS Vga, Sequences

CONSTANTS
  Writers,         \* threads
  Output,          \* the text each thread prints
  Message          \* what page_dir_activate prints

VARIABLES
  current, holder,   \* the running thread; the one that has console_lock
  buf,               \* printf's static buffer
  index,             \* the register of the controller that is selected
  high, low,         \* the two halves of the cursor
  video, halted,
  pc, i, ch, bx      \* for each thread: place in print_str, next character and its
                     \* place in the buffer, bx

NoOne == "no one"
printVars == <<current, holder, buf, index, high, low, video, halted, pc, i, ch, bx>>
hardware == <<index, high, low, video, halted>>

(* The accesses of print_char, in their order.  Reading and writing the    *)
(* data port follow the selection of the register they are meant for.      *)
After == [fetch |-> "select_high", select_high |-> "read_high", read_high |-> "select_low",
          select_low |-> "read_low", read_low |-> "body", body |-> "reselect_high",
          reselect_high |-> "write_high", write_high |-> "reselect_low",
          reselect_low |-> "write_low", write_low |-> "fetch"]

at(p) == ~ halted /\ pc[current] = p

advance(p) == at(p) /\ pc' = [pc EXCEPT ![current] = After[p]]

(* The data port. *)
selected == IF index = "high" THEN high ELSE low

-----------------------------------------------------------------------------
console_acquire ==
  /\ at("start")
  /\ holder = NoOne
  /\ holder' = current
  /\ pc' = [pc EXCEPT ![current] = "format"]
  /\ UNCHANGED <<current, buf, hardware, i, ch, bx>>

vsprintf ==
  /\ at("format")
  /\ buf' = Output[current]
  /\ i' = [i EXCEPT ![current] = 1]
  /\ pc' = [pc EXCEPT ![current] = "fetch"]
  /\ UNCHANGED <<current, holder, hardware, ch, bx>>

(* print_str: the next character, or the end and console_release. *)
fetch ==
  /\ at("fetch")
  /\ IF i[current] > Len(buf)
     THEN /\ pc' = [pc EXCEPT ![current] = "start"]
          /\ holder' = NoOne
          /\ UNCHANGED ch
     ELSE /\ advance("fetch")
          /\ ch' = [ch EXCEPT ![current] = buf[i[current]]]
          /\ UNCHANGED holder
  /\ UNCHANGED <<current, buf, hardware, i, bx>>

select(p, register) ==
  /\ advance(p)
  /\ index' = register
  /\ UNCHANGED <<current, holder, buf, high, low, video, halted, i, ch, bx>>

read_high ==
  /\ advance("read_high")
  /\ bx' = [bx EXCEPT ![current] = selected * Half]
  /\ UNCHANGED <<current, holder, buf, hardware, i, ch>>

read_low ==
  /\ advance("read_low")
  /\ bx' = [bx EXCEPT ![current] = @ + selected]
  /\ UNCHANGED <<current, holder, buf, hardware, i, ch>>

body ==
  LET r == print_char(ch[current], bx[current], video) IN
  /\ advance("body")
  /\ bx' = [bx EXCEPT ![current] = r.bx]
  /\ video' = r.video
  /\ halted' = r.fault
  /\ UNCHANGED <<current, holder, buf, index, high, low, i, ch>>

write_half(p, half) ==
  /\ advance(p)
  /\ high' = IF index = "high" THEN half ELSE high
  /\ low' = IF index = "low" THEN half ELSE low
  /\ i' = IF p = "write_low" THEN [i EXCEPT ![current] = @ + 1] ELSE i
  /\ UNCHANGED <<current, holder, buf, index, video, halted, ch, bx>>

(* The clock switches to thread t. *)
shown[n \in 0..Len(Message)] ==
  IF n = 0 THEN result(high * Half + low, video)
  ELSE print_char(Message[n], shown[n - 1].bx, shown[n - 1].video)

schedule(t) ==
  /\ ~ halted
  /\ current' = t
  /\ buf' = Message
  /\ high' = shown[Len(Message)].bx \div Half
  /\ low' = shown[Len(Message)].bx % Half
  /\ index' = "low"
  /\ video' = shown[Len(Message)].video
  /\ halted' = \E n \in 1..Len(Message) : shown[n].fault
  /\ UNCHANGED <<holder, pc, i, ch, bx>>

spin == halted /\ UNCHANGED printVars

Init ==
  /\ current \in Writers /\ holder = NoOne
  /\ buf = <<>> /\ index = "low" /\ high = 0 /\ low = 0
  /\ video = [n \in 0..Size - 1 |-> Blank] /\ halted = FALSE
  /\ pc = [t \in Writers |-> "start"]
  /\ i = [t \in Writers |-> 1]
  /\ ch = [t \in Writers |-> Blank]
  /\ bx = [t \in Writers |-> 0]

Next ==
  \/ console_acquire \/ vsprintf \/ fetch \/ body \/ spin
  \/ select("select_high", "high") \/ read_high
  \/ select("select_low", "low") \/ read_low
  \/ select("reselect_high", "high") \/ write_half("write_high", bx[current] \div Half)
  \/ select("reselect_low", "low") \/ write_half("write_low", bx[current] % Half)
  \/ \E t \in Writers : schedule(t)

Spec == Init /\ [][Next]_printVars

-----------------------------------------------------------------------------
(* Properties *)

(* stdio.h:14, printf prints the text it formats, and prints.asm:13,       *)
(* "get the current cursor position": print_char puts the next character   *)
(* of the thread's own text where the cursor is.                           *)
PrintsItsText ==
  at("body") =>
    /\ i[current] <= Len(Output[current])
    /\ ch[current] = Output[current][i[current]]
    /\ bx[current] = high * Half + low
=============================================================================
