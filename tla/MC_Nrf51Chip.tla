---------------------------- MODULE MC_Nrf51Chip ----------------------------
(* Model values for the nRF51 chip on the nrf_pca10028 board.  The board   *)
(* enables only the NVIC line of its alarm, TIMER1 (ALARM1, main.rs:215).  *)
(* RTC1, GPIOTE, TIMER0 and UART0 have match arms but stay disabled, and   *)
(* POWER_CLOCK falls into the `_` arm; their events may still be asserted. *)
(* The queue has one slot, exactly as many as there are enabled lines.    *)
EXTENDS Nrf51Chip

CONSTANTS TIMER1, RTC1, GPIOTE, TIMER0, UART0, POWER_CLOCK

MC_Lines == {TIMER1, RTC1, GPIOTE, TIMER0, UART0, POWER_CLOCK}

MC_Dispatched == {TIMER1, RTC1, GPIOTE, TIMER0, UART0}

MC_Enabled == {TIMER1}

MC_IQ_SIZE == 1
=============================================================================
