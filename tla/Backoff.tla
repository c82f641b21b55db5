------------------------------- MODULE Backoff -------------------------------
(***************************************************************************)
(* How long reconnectTask waits before its attempt (NeuWiFi_Core.cpp:      *)
(* 337-352): base times 2^tries, at most a minute, then changed by a       *)
(* random jitter of up to a sixth of it.  The attempts are counted in a    *)
(* uint32_t without limit (354); WiFi takes the delay as "some time" and   *)
(* counts none.                                                            *)
(***************************************************************************)
EXTENDS Integers

BASE_DELAY_MS == 2000
MAX_DELAY_MS == 60000

Power == <<1, 2, 4, 8, 16, 32, 64, 128, 256, 512, 1024>>

(* The product is a uint32_t, which wraps from 22 attempts on, and 1 <<    *)
(* _reconnect_attempt an int, which from 31 on has no value the language   *)
(* defines.  Beyond 10 it is taken to be any number.                       *)
Product(tries) ==
    IF tries <= 10 THEN {BASE_DELAY_MS * Power[tries + 1]} ELSE Nat

Capped(tries, delay) ==
    IF delay > MAX_DELAY_MS \/ tries > 10 THEN MAX_DELAY_MS ELSE delay

(* delay / 6, by which esp_random() is divided *)
Spread(tries, delay) == Capped(tries, delay) \div 6

(* The milliseconds given to vTaskDelay, for two random numbers. *)
Wait(tries, delay, random, coin) ==
    IF coin % 2 = 0
      THEN Capped(tries, delay) + (random % Spread(tries, delay))
      ELSE Capped(tries, delay) - (random % Spread(tries, delay))
=============================================================================
