------------------------------ MODULE MCUsart ------------------------------
EXTENDS Usart

\* The transmitter's modes with polled reception (19_dma, 35_i2c_imu), the receiver's
\* with blocking transmission (04_usart, 28_rs485, 15_usmart, iap).
UsersModes == {<<"it", "poll">>, <<"dma", "poll">>, <<"poll", "it">>, <<"poll", "dma">>}

\* Two values where the order is in question, one in the other direction.
UsersSends == [m \in UsersModes |-> IF m[1] = "poll" THEN {0} ELSE Byte]
UsersGets  == [m \in UsersModes |-> IF m[1] = "poll" THEN Byte ELSE {0}]
=============================================================================
