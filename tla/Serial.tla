------------------------------- MODULE Serial -------------------------------
(***************************************************************************)
(* The receive path of the console: the interrupt of the serial device     *)
(* (rt_hw_serial_isr, serial.c) puts characters into a ring and indicates  *)
(* them to the shell (finsh_rx_ind), which waits in finsh_getchar on a     *)
(* semaphore between two looks into the ring.                              *)
(***************************************************************************)
EXTENDS Waiting

CONSTANTS
    Char,       \* the characters received
    BufSz,      \* serial->config.bufsz, 64 in the build
    RxValueMax  \* RT_SEM_VALUE_MAX

ASSUME BufSzAssumption == BufSz \in Nat /\ BufSz > 1
ASSUME RxValueMaxAssumption == RxValueMax \in Nat \ {0}

Index == 0 .. (BufSz - 1)

\* rt_serial_open clears the ring; rx_sem is the value of the semaphore.
SerialInit ==
    [kind : {"serial"} \cap Kinds, flag : {"fifo"},
     buffer : [Index -> {0}], put_index : {0}, get_index : {0},
     is_full : {FALSE}, rx_sem : {0}]

IsSerial == obj.kind = "serial"

Ahead(i) == IF i + 1 >= BufSz THEN 0 ELSE i + 1

-----------------------------------------------------------------------------
(* rt_hw_serial_isr, RT_SERIAL_EVENT_RX_IND *)

\* Mistake: the put index may catch up with the get index.
Stored_NoDiscard(o, c) ==
    [o EXCEPT !.buffer[o.put_index] = c, !.put_index = Ahead(o.put_index),
              !.is_full = @ \/ Ahead(o.put_index) = o.get_index]

\* A full ring loses its oldest character.
Stored(o, c) ==
    LET put  == Ahead(o.put_index)
        full == put = o.get_index
    IN  [o EXCEPT !.buffer[o.put_index] = c, !.put_index = put,
                  !.get_index = IF full THEN Ahead(@) ELSE @,
                  !.is_full = @ \/ full]

RxBegin ==
    /\ IsSerial
    /\ HandlerEnters([op |-> "rx", at |-> isr])
    /\ UNCHANGED <<vars, obj>>

\* serial->ops->getc has a character ...
RxChar(c) ==
    /\ IsSerial /\ HandlerInside("rx")
    /\ obj' = Stored(obj, c)
    /\ UNCHANGED <<vars, call>>

\* Mistake: the characters are not indicated.
RxEnd_Silent ==
    /\ IsSerial /\ HandlerInside("rx")
    /\ UNCHANGED <<vars, obj>>
    /\ HandlerLeaves

\* ... or none any more: rx_indicate, which is finsh_rx_ind and releases the
\* semaphore, is called if the ring is not empty.
RxEnd ==
    /\ IsSerial /\ HandlerInside("rx")
    /\ IF obj.put_index = obj.get_index THEN UNCHANGED <<vars, obj>>
       ELSE /\ HandlerWakes(Receivers)
            /\ obj' = IF k.wait[Receivers] = <<>> /\ obj.rx_sem < RxValueMax
                      THEN [obj EXCEPT !.rx_sem = @ + 1] ELSE obj
    /\ HandlerLeaves

-----------------------------------------------------------------------------
(* finsh_getchar: rt_device_read, which is _serial_int_rx, until it has a  *)
(* character, with a rt_sem_take after each time it has none.              *)

NoData == obj.get_index = obj.put_index /\ ~ obj.is_full

\* Only the shell reads.
OnlyShell == \A t \in Thread : t # Me => call[t].op # "getchar"

ReadRound ==
    \/ /\ ~ NoData
       /\ obj' = [obj EXCEPT !.get_index = Ahead(@), !.is_full = FALSE]
       /\ Finish(k)
    \/ /\ NoData
       /\ Enter([op |-> "getchar", time |-> Forever])
       /\ GoOn("ask")
       /\ UNCHANGED obj

GetChar == IsSerial /\ Calling /\ OnlyShell /\ k.lock = 0 /\ ReadRound

GetCharTake ==
    /\ IsSerial /\ Inside("ask", "getchar")
    /\ \/ /\ obj.rx_sem > 0
          /\ obj' = [obj EXCEPT !.rx_sem = @ - 1]
          /\ GoOn("woken")
       \/ /\ obj.rx_sem = 0
          /\ Block(Enqueue(Reset(k, Me), Receivers, Me), Forever)
          /\ UNCHANGED obj
    /\ UNCHANGED call

GetCharAgain == IsSerial /\ Inside("woken", "getchar") /\ ReadRound

SerialStep ==
    \/ RxBegin \/ (\E c \in Char : RxChar(c)) \/ RxEnd
    \/ GetChar \/ GetCharTake \/ GetCharAgain

-----------------------------------------------------------------------------
\* The characters that are there to be read.
Received ==
    LET n == IF obj.is_full /\ obj.put_index = obj.get_index THEN BufSz
             ELSE (obj.put_index + BufSz - obj.get_index) % BufSz
    IN  [i \in 1 .. n |-> obj.buffer[(obj.get_index + i - 1) % BufSz]]

\* No lost wakeup of the shell: it does not wait while there are characters,
\* unless the interrupt that brought them has yet to indicate them.
InputSeen == IsSerial /\ k.wait[Receivers] # <<>> /\ Quiet => Received = <<>>

\* Characters are read in the order they came, and one is lost only when the
\* ring has as many as it can hold, and then the oldest.
InputOrdered ==
    [][IsSerial =>
          \/ Received' = Received
          \/ Received # <<>> /\ Received' = Tail(Received)
          \/ \E c \in Char :
                \/ Received' = Append(Received, c)
                \/ /\ Len(Received) = BufSz - 1
                   /\ Received' = Append(Tail(Received), c)]_allVars
=============================================================================
