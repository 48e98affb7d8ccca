-------------------------- MODULE MCTunnelDiscovery --------------------------
(***************************************************************************)
(* A host, a device, two devices and another host below it, as an instance *)
(* for model checking: a DisplayPort tunnel that goes up from one of the   *)
(* devices and down to the other one, a USB 3 and a PCIe tunnel over one   *)
(* link each, and one ring to the other host. A HopID that one tunnel has  *)
(* given up is another one's next: the ring shares one with the PCIe and   *)
(* one with the DisplayPort tunnel, and that one with the USB 3 tunnel.    *)
(***************************************************************************)
EXTENDS TunnelDiscovery, TLC

H == <<>>
A == <<1>>
B == <<1, 3>>
C == <<1, 4>>
X == <<1, 4, 3>>

MCOrder    == <<H, A, B, C, X>>
MCXDomains == {X}
MCUpstream == H :> 5 @@ A :> 1 @@ B :> 1 @@ C :> 1
MCKind ==
    H :> (1 :> "lane" @@ 4 :> "pcie_down" @@ 5 :> "nhi")
    @@ A :> (1 :> "lane" @@ 3 :> "lane" @@ 4 :> "lane" @@ 5 :> "usb3_down"
             @@ 6 :> "pcie_up")
    @@ B :> (1 :> "lane" @@ 4 :> "usb3_up" @@ 6 :> "dp_out")
    @@ C :> (1 :> "lane" @@ 3 :> "lane" @@ 5 :> "dp_in")

Hop(route, in, inHop, out, outHop) ==
    [route |-> route, in |-> in, inHop |-> inHop, out |-> out, outHop |-> outHop]

Dp == [kind |-> "dp", paths |-> <<
    <<Hop(C, 5, 9, 1, 10), Hop(A, 4, 10, 3, 8), Hop(B, 1, 8, 6, 9)>>,
    <<Hop(C, 5, 8, 1, 9), Hop(A, 4, 9, 3, 9), Hop(B, 1, 9, 6, 8)>>,
    <<Hop(B, 6, 8, 1, 8), Hop(A, 3, 8, 4, 8), Hop(C, 1, 8, 5, 8)>> >>]

Pcie == [kind |-> "pcie", paths |-> <<
    <<Hop(H, 4, 8, 1, 11), Hop(A, 1, 11, 6, 8)>>,
    <<Hop(A, 6, 8, 1, 9), Hop(H, 1, 9, 4, 8)>> >>]

Usb3 == [kind |-> "usb3", paths |-> <<
    <<Hop(A, 5, 8, 3, 8), Hop(B, 1, 8, 4, 8)>>,
    <<Hop(B, 4, 8, 1, 9), Hop(A, 3, 9, 5, 8)>> >>]

Dma == [kind |-> "dma", paths |-> <<
    <<Hop(H, 5, 1, 1, 11), Hop(A, 1, 11, 4, 11), Hop(C, 1, 11, 3, 8)>>,
    <<Hop(C, 3, 9, 1, 10), Hop(A, 4, 10, 1, 10), Hop(H, 1, 10, 5, 1)>> >>]

MCTunnels == {Dp, Pcie, Usb3, Dma}
=============================================================================
