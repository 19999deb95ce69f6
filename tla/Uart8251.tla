------------------------------ MODULE Uart8251 ------------------------------
(***************************************************************************)
(* src/patches/src/hardware/keyboard.cpp: the 8251 between a PC-98 and its  *)
(* keyboard. A byte of the keyboard waits in a ring, is loaded by an event  *)
(* of the event queue, and raises IRQ 1 when the guest may read it. A byte  *)
(* of the guest is loaded by one event and has been sent by another.        *)
(***************************************************************************)
EXTENDS Naturals, Sequences

CONSTANTS
    Codes,     \* bytes of the keyboard
    Ring,      \* places of recv_buffer
    MaxSends   \* bound: bytes of the guest on their way at once

ASSUME UartAssumption == Ring \in Nat /\ Ring >= 2 /\ MaxSends \in Nat

VARIABLES
    recv,                   \* recv_buffer from recv_out to recv_in
    data,                   \* the byte the guest reads
    rx_ready,               \* it has not been read
    rx_busy,                \* a byte is being loaded
    loads,                  \* uart_rx_load events in the event queue
    tx_busy,                \* a byte of the guest is being loaded
    txLoads, txSends,       \* uart_tx_load and pc98_keyboard_recv_byte events
    state, valid_state,     \* MODE_STATE, SYNC_CHAR1 or COMMAND_STATE; the mode is
                            \* the keyboard's
    owed                    \* bytes the keyboard has sent and the guest has not read
                            \* (no variable of the code)

rxVars == <<recv, data, rx_ready, rx_busy, loads>>
txVars == <<tx_busy, txLoads, txSends>>
modeVars == <<state, valid_state>>
uartVars == <<rxVars, txVars, modeVars, owed>>

UartInit ==
    /\ recv = <<>> /\ data \in Codes /\ rx_ready = FALSE /\ rx_busy = FALSE /\ loads = 0
    /\ tx_busy = FALSE /\ txLoads = 0 /\ txSends = 0
    /\ state = "mode" /\ valid_state = FALSE
    /\ owed = <<>>

----------------------------------------------------------------------------
(* From the keyboard. *)

\* A load is started unless one is on its way.
StartLoad(wanted) ==
    /\ rx_busy' = (rx_busy \/ wanted)
    /\ loads' = IF wanted /\ ~rx_busy THEN loads + 1 ELSE loads

\* One place stays free: a ring whose ends meet is empty.
Full == Len(recv) = Ring - 1

\* A full ring drops the byte.
device_send_data(code) ==
    /\ recv' = IF Full THEN recv ELSE Append(recv, code)
    /\ owed' = IF Full THEN owed ELSE Append(owed, code)
    /\ StartLoad(TRUE)
    /\ UNCHANGED <<data, rx_ready, txVars, modeVars>>

\* Mutant: a byte that has not been read is loaded over.
LoadsAnyway == TRUE

\* A byte is loaded once the one before it has been read.
Loads == ~rx_ready

rx_load_complete ==
    /\ loads > 0
    /\ IF Loads
       THEN /\ rx_ready' = TRUE /\ data' = Head(recv) /\ recv' = Tail(recv)
            /\ rx_busy' = (recv' # <<>>)
            /\ loads' = IF recv' # <<>> THEN loads ELSE loads - 1
       ELSE /\ rx_busy' = FALSE /\ loads' = loads - 1
            /\ UNCHANGED <<rx_ready, data, recv>>
    /\ UNCHANGED <<txVars, modeVars, owed>>

\* Mutant: reading does not start the next load.
ReadStartsNothing == UNCHANGED <<rx_busy, loads>>

ReadStarts == StartLoad(recv # <<>>)

\* The guest reads the byte, or the last one again.
read_data ==
    /\ rx_ready' = FALSE
    /\ ReadStarts
    /\ owed' = IF rx_ready THEN Tail(owed) ELSE owed
    /\ UNCHANGED <<recv, data, txVars, modeVars>>

----------------------------------------------------------------------------
(* From the guest. *)

write_data ==
    /\ txSends < MaxSends
    /\ IF valid_state /\ ~tx_busy
       THEN tx_busy' = TRUE /\ txLoads' = txLoads + 1 /\ txSends' = txSends + 1
       ELSE UNCHANGED txVars
    /\ UNCHANGED <<rxVars, modeVars, owed>>

tx_load_complete ==
    /\ txLoads > 0 /\ txLoads' = txLoads - 1
    /\ tx_busy' = FALSE
    /\ UNCHANGED <<txSends, rxVars, modeVars, owed>>

\* A byte is sent after it has been loaded; the transmitter is free then too.
xmit_finish ==
    /\ txSends > txLoads /\ txSends' = txSends - 1
    /\ tx_busy' = FALSE
    /\ UNCHANGED <<txLoads, rxVars, modeVars, owed>>

----------------------------------------------------------------------------
(* The mode, the internal reset of the command register, and the reset of the  *)
(* machine, which removes every event.                                         *)

writecmd(value) ==
    /\ \/ /\ state = "mode"
          /\ state' = IF value = "sync" THEN "sync" ELSE "command"
          /\ valid_state' = (value = "keyboard")
       \/ /\ state = "command"
          /\ state' = IF value = "reset" THEN "mode" ELSE state
          /\ UNCHANGED valid_state
    /\ UNCHANGED <<rxVars, txVars, owed>>

ResetRx == rx_busy' = FALSE /\ loads' = 0

uart_reset ==
    /\ recv' = <<>> /\ owed' = <<>> /\ rx_ready' = FALSE /\ ResetRx
    /\ tx_busy' = FALSE /\ txLoads' = 0 /\ txSends' = 0
    /\ state' = "mode"
    /\ UNCHANGED <<data, valid_state>>

UartNext ==
    \/ \E code \in Codes : device_send_data(code)
    \/ rx_load_complete \/ read_data
    \/ write_data \/ tx_load_complete \/ xmit_finish
    \/ \E value \in {"keyboard", "sync", "other", "reset"} : writecmd(value)
    \/ uart_reset

\* Events come due, and the guest reads what is ready.
UartFairness ==
    /\ WF_uartVars(rx_load_complete)
    /\ WF_uartVars(rx_ready /\ read_data)

UartSpec == UartInit /\ [][UartNext]_uartVars /\ UartFairness

----------------------------------------------------------------------------
(* Correctness *)

UartTypeOK ==
    /\ recv \in Seq(Codes) /\ Len(recv) < Ring /\ data \in Codes
    /\ rx_ready \in BOOLEAN /\ rx_busy \in BOOLEAN /\ loads \in Nat
    /\ tx_busy \in BOOLEAN /\ txLoads \in Nat /\ txSends \in Nat
    /\ state \in {"mode", "sync", "command"} /\ valid_state \in BOOLEAN
    /\ owed \in Seq(Codes)

\* The receiver is busy exactly while one load is on its way, with a byte to
\* load, and the transmitter only while one is: neither stays busy for nothing.
BusyMeansLoading ==
    /\ loads = IF rx_busy THEN 1 ELSE 0
    /\ rx_busy => recv # <<>>
    /\ tx_busy => txLoads > 0

\* What the guest reads is what the keyboard has sent, in order and each byte
\* once, however late it reads.
ReadInOrder == owed = (IF rx_ready THEN <<data>> ELSE <<>>) \o recv

\* A byte in the ring comes up for the guest to read.
ByteComesUp == recv # <<>> ~> rx_ready \/ recv = <<>>
=============================================================================
