-------------------------- MODULE PaymentChannels ---------------------------
(***************************************************************************)
(* ChannelManager: payments that sender signs and that may be delivered    *)
(* late, in another order, or again.  A channel id is a fresh uuid.        *)
(***************************************************************************)
EXTENDS Integers, FiniteSets, Functions

CONSTANTS ChannelIds, Senders, NoSender, Deposits, Nonces, Payable

ASSUME ChannelAssumption ==
    /\ IsFiniteSet(ChannelIds)
    /\ Deposits \subseteq Nat \ {0}
    /\ Nonces \subseteq Nat \ {0}
    /\ Payable \subseteq Nat \ {0}
    /\ NoSender \notin Senders

VARIABLES
    channels,     \* ChannelManager.channels; status "absent", "open" or "closed"
    deposits,     \* what each sender has deposited
    honoured      \* history: the payments applied, [channel, nonce, amount]

channelVars == <<channels, deposits, honoured>>

ChannelsInit ==
    /\ channels = [i \in ChannelIds |-> [status |-> "absent", sender |-> NoSender, capacity |-> 0,
                                         nonce |-> 0, sender_balance |-> 0,
                                         receiver_balance |-> 0]]
    /\ deposits = [s \in Senders |-> 0]
    /\ honoured = {}

open_channel(i, sender, deposit) ==
    /\ channels[i].status = "absent"
    /\ channels' = [channels EXCEPT ![i] = [status |-> "open", sender |-> sender,
                                            capacity |-> deposit, nonce |-> 0,
                                            sender_balance |-> deposit, receiver_balance |-> 0]]
    /\ deposits' = [deposits EXCEPT ![sender] = @ + deposit]
    /\ UNCHANGED honoured

Apply(i, amount, nonce) ==
    /\ channels' = [channels EXCEPT ![i].sender_balance = @ - amount,
                                    ![i].receiver_balance = @ + amount, ![i].nonce = nonce]
    /\ honoured' = honoured \cup {[channel |-> i, nonce |-> nonce, amount |-> amount]}

(* Faulty variant: the nonce of the last payment is taken again.           *)
send_payment_SameNonce(i, amount, nonce) ==
    /\ channels[i].status = "open"
    /\ nonce >= channels[i].nonce
    /\ channels[i].sender_balance >= amount
    /\ Apply(i, amount, nonce)
    /\ UNCHANGED deposits

(* A signature that verify_payment does not accept changes nothing.        *)
send_payment(i, amount, nonce) ==
    /\ channels[i].status = "open"
    /\ nonce > channels[i].nonce
    /\ channels[i].sender_balance >= amount
    /\ Apply(i, amount, nonce)
    /\ UNCHANGED deposits

close_channel(i) ==
    /\ channels[i].status = "open"
    /\ deposits' = [deposits EXCEPT ![channels[i].sender] = @ - channels[i].capacity]
    /\ channels' = [channels EXCEPT ![i].status = "closed"]
    /\ UNCHANGED honoured

ChannelsNext ==
    \/ \E i \in ChannelIds, s \in Senders, d \in Deposits : open_channel(i, s, d)
    \/ \E i \in ChannelIds, n \in Nonces, x \in Payable : send_payment(i, x, n)
    \/ \E i \in ChannelIds : close_channel(i)

ChannelsSpec == ChannelsInit /\ [][ChannelsNext]_channelVars

(* A payment counts once, however often it arrives: the receiver of a      *)
(* channel has the sum of the distinct payments honoured, the two balances *)
(* are its capacity, and a sender's deposit is what its open channels hold *)
(* (channels.py 49-157).                                                   *)
PaymentsCountOnce ==
    /\ \A i \in ChannelIds :
         /\ channels[i].receiver_balance =
              SumFunctionOnSet([h \in honoured |-> h.amount], {h \in honoured : h.channel = i})
         /\ channels[i].sender_balance + channels[i].receiver_balance = channels[i].capacity
    /\ \A s \in Senders :
         deposits[s] = SumFunctionOnSet([i \in ChannelIds |-> channels[i].capacity],
                         {i \in ChannelIds : channels[i].status = "open" /\ channels[i].sender = s})
=============================================================================
